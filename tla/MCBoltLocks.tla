---------------------------- MODULE MCBoltLocks ----------------------------
(* BoltLocks with two handlers, the Writer and every kind of read.         *)
EXTENDS BoltLocks

CONSTANTS h1, h2

TwoHandlers == {h1, h2}
Every == {"FindOne", "FindAll", "Count"}
=============================================================================
