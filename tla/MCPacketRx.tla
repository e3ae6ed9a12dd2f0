------------------------------ MODULE MCPacketRx ------------------------------
(* An instance of PacketRx for TLC.                                          *)
EXTENDS PacketRx

\* Longer packets, two of which fill the buffer, and shorter ones behind them.
Lengths == <<5, 28, 1, 20, 12, 9, 28, 3>>
=============================================================================
