--------------------------- MODULE MCBrotzeitPage ---------------------------
(* Two rows, between which no action makes a difference.                   *)
EXTENDS BrotzeitPage, TLC

MCSymmetry == Permutations(Route)
=============================================================================
