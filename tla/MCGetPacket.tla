----------------------------- MODULE MCGetPacket -----------------------------
(* An instance of GetPacket for TLC.                                         *)
EXTENDS GetPacket

\* A long packet between shorter ones; the long one fills the buffer.
Lengths == <<2, 4, 1>>
=============================================================================
