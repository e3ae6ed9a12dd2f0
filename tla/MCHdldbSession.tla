--------------------------- MODULE MCHdldbSession ---------------------------
(* Instances of HdldbSession for TLC; the constants are in the              *)
(* configurations.                                                          *)
EXTENDS HdldbSession
=============================================================================
