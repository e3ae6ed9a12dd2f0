----------------------------- MODULE MCRspLink -----------------------------
(* Instances of RspLink for TLC; the constants are in the configurations.   *)
EXTENDS RspLink
=============================================================================
