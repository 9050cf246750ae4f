---------------------------- MODULE MCBoltPages ----------------------------
(* BoltPages with readers that can be exchanged.                            *)
EXTENDS BoltPages, TLC

Sym == Permutations(Readers)
=============================================================================
