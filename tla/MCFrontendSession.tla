------------------------- MODULE MCFrontendSession --------------------------
(* Finite instances of FrontendSession for TLC.                            *)
EXTENDS FrontendSession

CONSTANTS b1, b2
=============================================================================
