---------------------------- MODULE MCRucksack ----------------------------
(* Small instances of Rucksack: two handlers, two buckets of one key.      *)
EXTENDS Rucksack

CONSTANTS c1, c2, b1, b2, k1, v1, v2

MCClients == {c1, c2}
MCBuckets == {b1, b2}
MCKeys == {k1}
MCValues == {v1, v2}
=============================================================================
