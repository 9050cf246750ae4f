-------------------------- MODULE BoltLocksProofs --------------------------
(***************************************************************************)
(* Proofs about BoltLocks for every set of handlers, every choice of reads *)
(* and every number of calls.                                              *)
(***************************************************************************)
EXTENDS BoltLocks, TLAPS

\* Each lock is held by the goroutine whose place says so, and by no other.
LocksOwned ==
  \A p \in Procs :
    /\ pc[p] = "rlock" <=> metalock = p
    /\ pc[p] \in Updating => rwlock = p
    /\ pc[p] \in {"grow", "remap"} <=> mwait = p

\* Transactions are numbered: no two goroutines have the same one.
Numbered ==
  /\ \A p \in Procs : pc[p] # "idle" => tx[p] > 0
  /\ \A p, q \in Procs : tx[p] = tx[q] /\ tx[p] > 0 => p = q

\* The exclusive side of mmaplock excludes the shared one, and while the
\* database is open only the goroutine that maps it anew unmaps it; if that
\* fails nobody gets a share any more.
RemapExcludes ==
  /\ \A p \in Procs : pc[p] \in {"remap", "failed"} => rlocks = {} /\ ~mapped
  /\ opened /\ ~mapped => \E p \in Procs : pc[p] \in {"remap", "failed"}

\* Of the calls under way only one that reads holds a share of mmaplock: one
\* that gave its share back does not regain it, and an update has none.
Removing == \A p \in Procs : pc[p] \notin {"idle", "read"} => tx[p] \notin rlocks

IInv == TypeOK /\ LocksOwned /\ Numbered /\ RemapExcludes /\ ReadersKnown
        /\ Removing

LEMMA InitInvariant == Init => IInv
BY NamesAssumption
   DEF Init, IInv, TypeOK, LocksOwned, Numbered, RemapExcludes, ReadersKnown,
       Removing, Procs, AllReadOps, Updating

LEMMA StepInvariant == IInv /\ [Next]_vars => IInv'
<1> SUFFICES ASSUME IInv, [Next]_vars
             PROVE  IInv'
  OBVIOUS
<1> USE NamesAssumption, ReadOpsAssumption, MaxCallsAssumption DEF IInv
<1>1. ASSUME NEW p \in Handlers, NEW o \in ReadOps, ReadBegins(p, o) PROVE IInv'
  <2>1. TypeOK'
    BY <1>1 DEF ReadBegins, Goto, Call, TypeOK, Procs
  <2>2. LocksOwned'
    BY <1>1 DEF ReadBegins, Goto, Call, LocksOwned, TypeOK, Procs, Updating
  <2>3. Numbered'
    BY <1>1 DEF ReadBegins, Goto, Call, Numbered, TypeOK, Procs
  <2>4. RemapExcludes'
    BY <1>1 DEF ReadBegins, Goto, Call, RemapExcludes, TypeOK, Procs,
       LocksOwned, Updating
  <2>5. ReadersKnown'
    BY <1>1 DEF ReadBegins, Goto, Call, ReadersKnown, TypeOK, Procs, Removing,
       Numbered
  <2>6. Removing'
    BY <1>1 DEF ReadBegins, Goto, Call, Removing, TypeOK, Procs, Numbered,
       ReadersKnown
  <2> QED BY <2>1, <2>2, <2>3, <2>4, <2>5, <2>6
<1>2. ASSUME NEW p \in Procs, ReadLocks(p) PROVE IInv'
  <2>0. tx[p] \in 1..calls
    BY <1>2 DEF ReadLocks, Goto, TypeOK, Numbered
  <2>1. TypeOK'
    BY <1>2, <2>0 DEF ReadLocks, Goto, TypeOK
  <2>2. LocksOwned'
    BY <1>2 DEF ReadLocks, Goto, LocksOwned, TypeOK, Procs, Updating
  <2>3. Numbered'
    BY <1>2 DEF ReadLocks, Goto, Numbered, TypeOK, Procs
  <2>4. RemapExcludes'
    BY <1>2 DEF ReadLocks, Goto, RemapExcludes, TypeOK, Procs, LocksOwned,
       Updating
  <2>5. ReadersKnown'
    BY <1>2 DEF ReadLocks, Goto, ReadersKnown, TypeOK, Procs, Removing, Numbered
  <2>6. Removing'
    BY <1>2 DEF ReadLocks, Goto, Removing, TypeOK, Procs, Numbered, ReadersKnown
  <2> QED BY <2>1, <2>2, <2>3, <2>4, <2>5, <2>6
<1>3. ASSUME NEW p \in Procs, ReadRefused(p) PROVE IInv'
  <2>1. TypeOK'
    BY <1>3 DEF ReadRefused, Goto, TypeOK, Procs
  <2>2. LocksOwned'
    BY <1>3 DEF ReadRefused, Goto, LocksOwned, TypeOK, Procs, Updating
  <2>3. Numbered'
    BY <1>3 DEF ReadRefused, Goto, Numbered, TypeOK, Procs
  <2>4. RemapExcludes'
    BY <1>3 DEF ReadRefused, Goto, RemapExcludes, TypeOK, Procs, LocksOwned,
       Updating
  <2>5. ReadersKnown'
    BY <1>3 DEF ReadRefused, Goto, ReadersKnown, TypeOK, Procs, Removing,
       Numbered
  <2>6. Removing'
    BY <1>3 DEF ReadRefused, Goto, Removing, TypeOK, Procs, Numbered,
       ReadersKnown
  <2> QED BY <2>1, <2>2, <2>3, <2>4, <2>5, <2>6
<1>4. ASSUME NEW p \in Procs, ViewUnlocks(p) PROVE IInv'
  <2>1. TypeOK'
    BY <1>4 DEF ViewUnlocks, Goto, TypeOK, Procs
  <2>2. LocksOwned'
    BY <1>4 DEF ViewUnlocks, Goto, LocksOwned, TypeOK, Procs, Updating
  <2>3. Numbered'
    BY <1>4 DEF ViewUnlocks, Goto, Numbered, TypeOK, Procs
  <2>4. RemapExcludes'
    BY <1>4 DEF ViewUnlocks, Goto, RemapExcludes, TypeOK, Procs, LocksOwned,
       Updating
  <2>5. ReadersKnown'
    BY <1>4 DEF ViewUnlocks, Goto, ReadersKnown, TypeOK, Procs, Removing,
       Numbered
  <2>6. Removing'
    BY <1>4 DEF ViewUnlocks, Goto, Removing, TypeOK, Procs, Numbered,
       ReadersKnown
  <2> QED BY <2>1, <2>2, <2>3, <2>4, <2>5, <2>6
<1>5. ASSUME NEW p \in Procs, RemoveTx(p) PROVE IInv'
  <2>1. TypeOK'
    BY <1>5 DEF RemoveTx, Goto, TypeOK, Procs
  <2>2. LocksOwned'
    BY <1>5 DEF RemoveTx, Goto, LocksOwned, TypeOK, Procs, Updating
  <2>3. Numbered'
    BY <1>5 DEF RemoveTx, Goto, Numbered, TypeOK, Procs
  <2>4. RemapExcludes'
    BY <1>5 DEF RemoveTx, Goto, RemapExcludes, TypeOK, Procs, LocksOwned,
       Updating
  <2>5. ReadersKnown'
    BY <1>5 DEF RemoveTx, Goto, ReadersKnown, TypeOK, Procs, Removing, Numbered
  <2>6. Removing'
    BY <1>5 DEF RemoveTx, Goto, Removing, TypeOK, Procs, Numbered, ReadersKnown
  <2> QED BY <2>1, <2>2, <2>3, <2>4, <2>5, <2>6
<1>6. ASSUME NEW p \in Procs, FindAllReturns(p) PROVE IInv'
  <2>1. TypeOK'
    BY <1>6 DEF FindAllReturns, Goto, TypeOK, Procs
  <2>2. LocksOwned'
    BY <1>6 DEF FindAllReturns, Goto, LocksOwned, TypeOK, Procs, Updating
  <2>3. Numbered'
    BY <1>6 DEF FindAllReturns, Goto, Numbered, TypeOK, Procs
  <2>4. RemapExcludes'
    BY <1>6 DEF FindAllReturns, Goto, RemapExcludes, TypeOK, Procs, LocksOwned,
       Updating
  <2>5. ReadersKnown'
    BY <1>6 DEF FindAllReturns, Goto, ReadersKnown, TypeOK, Procs, Removing,
       Numbered
  <2>6. Removing'
    BY <1>6 DEF FindAllReturns, Goto, Removing, TypeOK, Procs, Numbered,
       ReadersKnown
  <2> QED BY <2>1, <2>2, <2>3, <2>4, <2>5, <2>6
<1>7. ASSUME NEW p \in Procs, UpdateBegins(p) PROVE IInv'
  <2>1. TypeOK'
    BY <1>7 DEF UpdateBegins, Goto, Call, TypeOK, Procs
  <2>2. LocksOwned'
    BY <1>7 DEF UpdateBegins, Goto, Call, LocksOwned, TypeOK, Procs, Updating
  <2>3. Numbered'
    BY <1>7 DEF UpdateBegins, Goto, Call, Numbered, TypeOK, Procs
  <2>4. RemapExcludes'
    BY <1>7 DEF UpdateBegins, Goto, Call, RemapExcludes, TypeOK, Procs,
       LocksOwned, Updating
  <2>5. ReadersKnown'
    BY <1>7 DEF UpdateBegins, Goto, Call, ReadersKnown, TypeOK, Procs,
       Removing, Numbered
  <2>6. Removing'
    BY <1>7 DEF UpdateBegins, Goto, Call, Removing, TypeOK, Procs, Numbered,
       ReadersKnown
  <2> QED BY <2>1, <2>2, <2>3, <2>4, <2>5, <2>6
<1>8. ASSUME NEW p \in Procs, UpdateSetsUp(p) PROVE IInv'
  <2>1. TypeOK'
    BY <1>8 DEF UpdateSetsUp, Goto, TypeOK, Procs
  <2>2. LocksOwned'
    BY <1>8 DEF UpdateSetsUp, Goto, LocksOwned, TypeOK, Procs, Updating
  <2>3. Numbered'
    BY <1>8 DEF UpdateSetsUp, Goto, Numbered, TypeOK, Procs
  <2>4. RemapExcludes'
    BY <1>8 DEF UpdateSetsUp, Goto, RemapExcludes, TypeOK, Procs, LocksOwned,
       Updating
  <2>5. ReadersKnown'
    BY <1>8 DEF UpdateSetsUp, Goto, ReadersKnown, TypeOK, Procs, Removing,
       Numbered
  <2>6. Removing'
    BY <1>8 DEF UpdateSetsUp, Goto, Removing, TypeOK, Procs, Numbered,
       ReadersKnown
  <2> QED BY <2>1, <2>2, <2>3, <2>4, <2>5, <2>6
<1>9. ASSUME NEW p \in Procs, UpdateRefused(p) PROVE IInv'
  <2>1. TypeOK'
    BY <1>9 DEF UpdateRefused, Goto, TypeOK, Procs
  <2>2. LocksOwned'
    BY <1>9 DEF UpdateRefused, Goto, LocksOwned, TypeOK, Procs, Updating
  <2>3. Numbered'
    BY <1>9 DEF UpdateRefused, Goto, Numbered, TypeOK, Procs
  <2>4. RemapExcludes'
    BY <1>9 DEF UpdateRefused, Goto, RemapExcludes, TypeOK, Procs, LocksOwned,
       Updating
  <2>5. ReadersKnown'
    BY <1>9 DEF UpdateRefused, Goto, ReadersKnown, TypeOK, Procs, Removing,
       Numbered
  <2>6. Removing'
    BY <1>9 DEF UpdateRefused, Goto, Removing, TypeOK, Procs, Numbered,
       ReadersKnown
  <2> QED BY <2>1, <2>2, <2>3, <2>4, <2>5, <2>6
<1>10. ASSUME NEW p \in Procs, UpdateGrows(p) PROVE IInv'
  <2>1. TypeOK'
    BY <1>10 DEF UpdateGrows, Goto, TypeOK, Procs
  <2>2. LocksOwned'
    BY <1>10 DEF UpdateGrows, Goto, LocksOwned, TypeOK, Procs, Updating
  <2>3. Numbered'
    BY <1>10 DEF UpdateGrows, Goto, Numbered, TypeOK, Procs
  <2>4. RemapExcludes'
    BY <1>10 DEF UpdateGrows, Goto, RemapExcludes, TypeOK, Procs, LocksOwned,
       Updating
  <2>5. ReadersKnown'
    BY <1>10 DEF UpdateGrows, Goto, ReadersKnown, TypeOK, Procs, Removing,
       Numbered
  <2>6. Removing'
    BY <1>10 DEF UpdateGrows, Goto, Removing, TypeOK, Procs, Numbered,
       ReadersKnown
  <2> QED BY <2>1, <2>2, <2>3, <2>4, <2>5, <2>6
<1>11. ASSUME NEW p \in Procs, UpdateUnmaps(p) PROVE IInv'
  <2>1. TypeOK'
    BY <1>11 DEF UpdateUnmaps, Goto, TypeOK, Procs
  <2>2. LocksOwned'
    BY <1>11 DEF UpdateUnmaps, Goto, LocksOwned, TypeOK, Procs, Updating
  <2>3. Numbered'
    BY <1>11 DEF UpdateUnmaps, Goto, Numbered, TypeOK, Procs
  <2>4. RemapExcludes'
    BY <1>11 DEF UpdateUnmaps, Goto, RemapExcludes, TypeOK, Procs, LocksOwned,
       Updating
  <2>5. ReadersKnown'
    BY <1>11 DEF UpdateUnmaps, Goto, ReadersKnown, TypeOK, Procs, Removing,
       Numbered
  <2>6. Removing'
    BY <1>11 DEF UpdateUnmaps, Goto, Removing, TypeOK, Procs, Numbered,
       ReadersKnown
  <2> QED BY <2>1, <2>2, <2>3, <2>4, <2>5, <2>6
<1>12. ASSUME NEW p \in Procs, UpdateMaps(p) PROVE IInv'
  <2>1. TypeOK'
    BY <1>12 DEF UpdateMaps, Goto, TypeOK, Procs
  <2>2. LocksOwned'
    BY <1>12 DEF UpdateMaps, Goto, LocksOwned, TypeOK, Procs, Updating
  <2>3. Numbered'
    BY <1>12 DEF UpdateMaps, Goto, Numbered, TypeOK, Procs
  <2>4. RemapExcludes'
    BY <1>12 DEF UpdateMaps, Goto, RemapExcludes, TypeOK, Procs, LocksOwned,
       Updating
  <2>5. ReadersKnown'
    BY <1>12 DEF UpdateMaps, Goto, ReadersKnown, TypeOK, Procs, Removing,
       Numbered
  <2>6. Removing'
    BY <1>12 DEF UpdateMaps, Goto, Removing, TypeOK, Procs, Numbered,
       ReadersKnown
  <2> QED BY <2>1, <2>2, <2>3, <2>4, <2>5, <2>6
<1>19. ASSUME NEW p \in Procs, UpdateMapFails(p) PROVE IInv'
  <2>1. TypeOK'
    BY <1>19 DEF UpdateMapFails, Goto, TypeOK, Procs
  <2>2. LocksOwned'
    BY <1>19 DEF UpdateMapFails, Goto, LocksOwned, TypeOK, Procs, Updating
  <2>3. Numbered'
    BY <1>19 DEF UpdateMapFails, Goto, Numbered, TypeOK, Procs
  <2>4. RemapExcludes'
    BY <1>19 DEF UpdateMapFails, Goto, RemapExcludes, TypeOK, Procs, LocksOwned,
       Updating
  <2>5. ReadersKnown'
    BY <1>19 DEF UpdateMapFails, Goto, ReadersKnown, TypeOK, Procs, Removing,
       Numbered
  <2>6. Removing'
    BY <1>19 DEF UpdateMapFails, Goto, Removing, TypeOK, Procs, Numbered,
       ReadersKnown
  <2> QED BY <2>1, <2>2, <2>3, <2>4, <2>5, <2>6
<1>13. ASSUME NEW p \in Procs, UpdateEnds(p) PROVE IInv'
  <2>1. TypeOK'
    BY <1>13 DEF UpdateEnds, Goto, TypeOK, Procs
  <2>2. LocksOwned'
    BY <1>13 DEF UpdateEnds, Goto, LocksOwned, TypeOK, Procs, Updating
  <2>3. Numbered'
    BY <1>13 DEF UpdateEnds, Goto, Numbered, TypeOK, Procs
  <2>4. RemapExcludes'
    BY <1>13 DEF UpdateEnds, Goto, RemapExcludes, TypeOK, Procs, LocksOwned,
       Updating
  <2>5. ReadersKnown'
    BY <1>13 DEF UpdateEnds, Goto, ReadersKnown, TypeOK, Procs, Removing,
       Numbered
  <2>6. Removing'
    BY <1>13 DEF UpdateEnds, Goto, Removing, TypeOK, Procs, Numbered,
       ReadersKnown
  <2> QED BY <2>1, <2>2, <2>3, <2>4, <2>5, <2>6
<1>14. ASSUME NEW p \in Procs, Faults(p) PROVE IInv'
  <2>1. TypeOK'
    BY <1>14 DEF Faults, TypeOK, Procs
  <2>2. LocksOwned'
    BY <1>14 DEF Faults, LocksOwned, TypeOK, Procs, Updating
  <2>3. Numbered'
    BY <1>14 DEF Faults, Numbered, TypeOK, Procs
  <2>4. RemapExcludes'
    BY <1>14 DEF Faults, RemapExcludes, TypeOK, Procs, LocksOwned, Updating
  <2>5. ReadersKnown'
    BY <1>14 DEF Faults, ReadersKnown, TypeOK, Procs, Removing, Numbered
  <2>6. Removing'
    BY <1>14 DEF Faults, Removing, TypeOK, Procs, Numbered, ReadersKnown
  <2> QED BY <2>1, <2>2, <2>3, <2>4, <2>5, <2>6
<1>15. ASSUME NEW p \in Procs, UpdatePanics(p) PROVE IInv'
  <2>1. TypeOK'
    BY <1>15 DEF UpdatePanics, TypeOK, Procs
  <2>2. LocksOwned'
    BY <1>15 DEF UpdatePanics, LocksOwned, TypeOK, Procs, Updating
  <2>3. Numbered'
    BY <1>15 DEF UpdatePanics, Numbered, TypeOK, Procs
  <2>4. RemapExcludes'
    BY <1>15 DEF UpdatePanics, RemapExcludes, TypeOK, Procs, LocksOwned,
       Updating
  <2>5. ReadersKnown'
    BY <1>15 DEF UpdatePanics, ReadersKnown, TypeOK, Procs, Removing, Numbered
  <2>6. Removing'
    BY <1>15 DEF UpdatePanics, Removing, TypeOK, Procs, Numbered, ReadersKnown
  <2> QED BY <2>1, <2>2, <2>3, <2>4, <2>5, <2>6
<1>16. ASSUME CloseDB PROVE IInv'
  <2>1. TypeOK'
    BY <1>16 DEF CloseDB, TypeOK, Procs
  <2>2. LocksOwned'
    BY <1>16 DEF CloseDB, LocksOwned, TypeOK, Procs, Updating
  <2>3. Numbered'
    BY <1>16 DEF CloseDB, Numbered, TypeOK, Procs
  <2>4. RemapExcludes'
    BY <1>16 DEF CloseDB, RemapExcludes, TypeOK, Procs, LocksOwned, Updating
  <2>5. ReadersKnown'
    BY <1>16 DEF CloseDB, ReadersKnown, TypeOK, Procs, Removing, Numbered
  <2>6. Removing'
    BY <1>16 DEF CloseDB, Removing, TypeOK, Procs, Numbered, ReadersKnown
  <2> QED BY <2>1, <2>2, <2>3, <2>4, <2>5, <2>6
<1>17. ASSUME Exits PROVE IInv'
  <2>1. TypeOK'
    BY <1>17 DEF Exits, TypeOK, Procs
  <2>2. LocksOwned'
    BY <1>17 DEF Exits, LocksOwned, TypeOK, Procs, Updating
  <2>3. Numbered'
    BY <1>17 DEF Exits, Numbered, TypeOK, Procs
  <2>4. RemapExcludes'
    BY <1>17 DEF Exits, RemapExcludes, TypeOK, Procs, LocksOwned, Updating
  <2>5. ReadersKnown'
    BY <1>17 DEF Exits, ReadersKnown, TypeOK, Procs, Removing, Numbered
  <2>6. Removing'
    BY <1>17 DEF Exits, Removing, TypeOK, Procs, Numbered, ReadersKnown
  <2> QED BY <2>1, <2>2, <2>3, <2>4, <2>5, <2>6
<1>18. CASE UNCHANGED vars
  BY <1>18 DEF vars, TypeOK, LocksOwned, Numbered, RemapExcludes, ReadersKnown,
     Removing
<1> QED
  BY <1>1, <1>2, <1>3, <1>4, <1>5, <1>6, <1>7, <1>8, <1>9, <1>10, <1>11, <1>12,
     <1>13, <1>14, <1>15, <1>16, <1>17, <1>18, <1>19
     DEF Next, Step, Calls, Rests

LEMMA Invariance == Spec => []IInv
BY InitInvariant, StepInvariant, PTL DEF Spec

\* Every state of every behaviour has its type.
THEOREM TypeCorrect == Spec => []TypeOK
<1>1. IInv => TypeOK
  BY DEF IInv
<1> QED BY <1>1, Invariance, PTL

\* bolt knows every transaction that reads or holds a share of mmaplock.
THEOREM OpenReadersKnown == Spec => []ReadersKnown
<1>1. IInv => ReadersKnown
  BY DEF IInv
<1> QED BY <1>1, Invariance, PTL

\* Until Close nobody reads from a file that is not mapped: no growth unmaps
\* it under a reader, and none begins to read after one that failed.
THEOREM OpenReadersMapped == Spec => []ReadersMapped
<1>1. IInv => ReadersMapped
  BY DEF IInv, ReadersMapped, RemapExcludes, ReadersKnown
<1> QED BY <1>1, Invariance, PTL

-----------------------------------------------------------------------------
(* Nobody waits in a circle.                                               *)

\* A goroutine in the middle of an operation.
Inside(p) == pc[p] \notin {"idle", "panicked"}

\* The guards of Step(p): every place but these four can be left at once.
CanStep(p) ==
  /\ Inside(p)
  /\ pc[p] \in {"rw", "remove"} => metalock = Nobody
  /\ pc[p] = "rlock" => mwait = Nobody
  /\ pc[p] = "grow" => rlocks = {}

\* p cannot go on before q has given a lock back.
WaitsFor(p, q) ==
  \/ pc[p] \in {"rw", "remove"} /\ metalock = q
  \/ pc[p] = "rlock" /\ mwait = q
  \/ pc[p] = "grow" /\ pc[q] = "read" /\ tx[q] \in rlocks

\* How far from a step that waits for nobody.
Rank(p) == CASE pc[p] \in {"rw", "remove"} -> 3
             [] pc[p] = "rlock" -> 2
             [] pc[p] = "grow" -> 1
             [] OTHER -> 0

\* Whoever is inside can go on, or waits for somebody who is inside and nearer
\* to a step, unless FindAll or Count has left a transaction open.
NobodyStuck ==
  \A p \in Procs :
    Inside(p) => \/ CanStep(p)
                 \/ LeftOpen
                 \/ \E q \in Procs : Inside(q) /\ WaitsFor(p, q) /\ Rank(q) < Rank(p)

LEMMA WaitingHasReason == IInv => NobodyStuck
<1> SUFFICES ASSUME IInv, ~LeftOpen, NEW p \in Procs, Inside(p), ~CanStep(p)
             PROVE  \E q \in Procs : Inside(q) /\ WaitsFor(p, q) /\ Rank(q) < Rank(p)
  BY DEF NobodyStuck
<1> USE DEF IInv
<1>1. CASE pc[p] \in {"rw", "remove"}
  <2>1. PICK q \in Procs : metalock = q
    BY <1>1 DEF CanStep, TypeOK
  <2>2. pc[q] = "rlock"
    BY <2>1 DEF LocksOwned
  <2>3. Rank(p) = 3 /\ Rank(q) = 2
    BY <1>1, <2>2 DEF Rank
  <2> QED BY <1>1, <2>1, <2>2, <2>3 DEF Inside, WaitsFor
<1>2. CASE pc[p] = "rlock"
  <2>1. PICK q \in Procs : mwait = q
    BY <1>2 DEF CanStep, TypeOK
  <2>2. pc[q] \in {"grow", "remap"}
    BY <2>1 DEF LocksOwned
  <2>3. Rank(p) = 2 /\ Rank(q) \in {0, 1}
    BY <1>2, <2>2 DEF Rank
  <2> QED BY <1>2, <2>1, <2>2, <2>3 DEF Inside, WaitsFor
<1>3. CASE pc[p] = "grow"
  <2>1. PICK t \in rlocks : TRUE
    BY <1>3 DEF CanStep
  <2>2. PICK q \in Procs : tx[q] = t /\ pc[q] # "idle"
    BY <2>1 DEF LeftOpen
  <2>3. pc[q] = "read"
    BY <2>1, <2>2 DEF Removing
  <2>4. Rank(p) = 1 /\ Rank(q) = 0
    BY <1>3, <2>3 DEF Rank
  <2> QED BY <1>3, <2>1, <2>2, <2>3, <2>4 DEF Inside, WaitsFor
<1> QED BY <1>1, <1>2, <1>3 DEF CanStep

\* db.beginTx, removeTx, beginRWTx and mmap take rwlock, metalock and mmaplock
\* so that no goroutine waits for one that waits for it: whoever is blocked
\* waits for somebody of a lower rank, and somebody of the lowest can go on.
\* This is what ReadsReturn and UpdatesFinishAlone need besides fairness.
THEOREM LocksTakenInOrder == Spec => []NobodyStuck
BY WaitingHasReason, Invariance, PTL

\* "to block and be serialized until the current write transaction finishes"
\* (bolt/db.go:322-324): at most one goroutine is in a read-write transaction,
\* from db.beginRWTx to tx.close, growth of the file and Close included.
OneUpdate == \A p, q \in Procs : pc[p] \in Updating /\ pc[q] \in Updating => p = q

THEOREM UpdatesSerialized == Spec => []OneUpdate
<1>1. IInv => OneUpdate
  BY DEF IInv, OneUpdate, LocksOwned
<1> QED BY <1>1, Invariance, PTL
=============================================================================
