-------------------------- MODULE MCTokenValidator --------------------------
(* Finite instances of TokenValidator for TLC.                             *)
EXTENDS TokenValidator

CONSTANTS q1, q2
=============================================================================
