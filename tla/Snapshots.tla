------------------------------ MODULE Snapshots ------------------------------
(***************************************************************************)
(* What bolt promises its users: "Each transaction has a consistent view   *)
(* of the data as it existed when the transaction started" (bolt's         *)
(* README.md, lines 82 and 83).  A read-only transaction is a copy of what *)
(* was committed when it began, a read-write transaction commits its       *)
(* change of one bucket in one step or not at all.                         *)
(***************************************************************************)
EXTENDS Naturals

CONSTANTS Readers, Buckets, NoTx

VARIABLES committed, view

Value == Nat          \* the number of the transaction that wrote a bucket
Contents == [Buckets -> Value]

SnapTypeOK ==
  /\ committed \in Contents
  /\ view \in [Readers -> Contents \cup {NoTx}]

Init == /\ committed = [b \in Buckets |-> 0]
        /\ view = [r \in Readers |-> NoTx]

Begin(r) == /\ view[r] = NoTx
            /\ view' = [view EXCEPT ![r] = committed]
            /\ UNCHANGED committed

End(r) == /\ view[r] # NoTx
          /\ view' = [view EXCEPT ![r] = NoTx]
          /\ UNCHANGED committed

Commit == /\ \E b \in Buckets : \E v \in {committed'[b]} :
               committed' = [committed EXCEPT ![b] = v]
          /\ UNCHANGED view

\* The commit answers an error, its change is made and no view can be relied on.
FailedCommit == /\ \E b \in Buckets : \E v \in {committed'[b]} :
                     committed' = [committed EXCEPT ![b] = v]
                /\ view' = [r \in Readers |-> NoTx]

\* The process dies: the transactions are gone, what was committed is not.
Crash == /\ view' = [r \in Readers |-> NoTx]
         /\ UNCHANGED committed

Next == \/ (\E r \in Readers : Begin(r) \/ End(r)) \/ Commit \/ FailedCommit
        \/ Crash

Spec == Init /\ [][Next]_<<committed, view>>
=============================================================================
