--------------------------- MODULE MCClientOutbox ---------------------------
(* Finite instances of ClientOutbox for TLC.                               *)
EXTENDS ClientOutbox

CONSTANTS k1, k2, k3
=============================================================================
