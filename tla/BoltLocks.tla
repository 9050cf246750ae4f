----------------------------- MODULE BoltLocks -----------------------------
(***************************************************************************)
(* The locks behind the store.  Every operation of rucksack/db.go is a     *)
(* bolt transaction: FindOne, FindAll and Count begin a read-only one, the *)
(* Writer's update and Delete a read-write one.  bolt guards them with     *)
(* three locks:                                                            *)
(*   rwlock    held by the one read-write transaction;                     *)
(*   metalock  held while a transaction is set up or removed, and by Close;*)
(*   mmaplock  a sync.RWMutex: shared by every open read-only transaction, *)
(*             exclusive while the file is mapped anew because it grew.  A *)
(*             goroutine that waits for the exclusive side keeps new       *)
(*             readers out.                                                *)
(* FindOne goes through View, which closes its transaction.  FindAll and   *)
(* Count begin one and return with it open: they return early when the     *)
(* bucket is missing, and otherwise call Commit, which refuses a read-only *)
(* transaction and leaves it open.                                         *)
(***************************************************************************)
EXTENDS Naturals, FiniteSets

CONSTANTS Handlers,   \* goroutines of the HTTP server
          Writer,     \* the goroutine of Rucksack.Writer
          Nobody,     \* a free lock
          ReadOps,    \* the reads that are called: some of AllReadOps
          MaxCalls    \* bound on the calls of a behaviour

AllReadOps == {"FindOne", "FindAll", "Count"}

ASSUME NamesAssumption == Writer \notin Handlers /\ Nobody \notin Handlers \cup {Writer}
ASSUME ReadOpsAssumption == ReadOps \subseteq AllReadOps
ASSUME MaxCallsAssumption == MaxCalls \in Nat

Procs == Handlers \cup {Writer}

VARIABLES
  pc,        \* each goroutine's place
  op,        \* the read a goroutine is in
  tx,        \* the number of a goroutine's transaction; calls are numbered
  rwlock,    \* holder of the writer lock
  metalock,  \* holder of the meta lock
  rlocks,    \* transactions that hold mmaplock shared
  mwait,     \* who waits for, or holds, mmaplock exclusively
  txs,       \* db.txs: the read-only transactions bolt knows to be open
  opened,    \* db.opened
  mapped,    \* is the file mapped?
  up,        \* is the process alive?
  calls      \* history: how many calls were made

vars == <<pc, op, tx, rwlock, metalock, rlocks, mwait, txs, opened, mapped, up,
          calls>>

TypeOK ==
  /\ pc \in [Procs -> {"idle", "rlock", "read", "remove", "rw", "update", "grow",
                       "remap", "failed", "commit", "panicked"}]
  /\ op \in [Procs -> AllReadOps]
  /\ tx \in [Procs -> 0..calls]
  /\ rwlock \in Procs \cup {Nobody}
  /\ metalock \in Procs \cup {Nobody}
  /\ rlocks \in SUBSET (1..calls)
  /\ mwait \in Procs \cup {Nobody}
  /\ txs \in SUBSET (1..calls)
  /\ opened \in BOOLEAN /\ mapped \in BOOLEAN /\ up \in BOOLEAN
  /\ calls \in Nat

Init ==
  /\ pc = [p \in Procs |-> "idle"]
  /\ op = [p \in Procs |-> "FindOne"]
  /\ tx = [p \in Procs |-> 0]
  /\ rwlock = Nobody /\ metalock = Nobody /\ mwait = Nobody
  /\ rlocks = {} /\ txs = {}
  /\ opened = TRUE /\ mapped = TRUE /\ up = TRUE
  /\ calls = 0

Goto(p, from, to) == up /\ pc[p] = from /\ pc' = [pc EXCEPT ![p] = to]

\* Mistake: transactions are not told apart.
CallUnnumbered(p) == /\ calls < MaxCalls
                     /\ calls' = calls + 1
                     /\ tx' = [tx EXCEPT ![p] = 0]

Call(p) == /\ calls < MaxCalls
           /\ calls' = calls + 1
           /\ tx' = [tx EXCEPT ![p] = calls + 1]

-----------------------------------------------------------------------------
(* Read-only transactions: db.beginTx, then what the operation does.       *)

\* The meta lock comes first and is kept while waiting for the mmap lock.
ReadBegins(p, o) ==
  /\ Goto(p, "idle", "rlock") /\ Call(p)
  /\ metalock = Nobody
  /\ metalock' = p
  /\ op' = [op EXCEPT ![p] = o]
  /\ UNCHANGED <<rwlock, rlocks, mwait, txs, opened, mapped, up>>

ReadLocks(p) ==
  /\ Goto(p, "rlock", "read")
  /\ opened /\ mapped /\ mwait = Nobody
  /\ rlocks' = rlocks \cup {tx[p]}
  /\ txs' = txs \cup {tx[p]}
  /\ metalock' = Nobody
  /\ UNCHANGED <<op, tx, rwlock, mwait, opened, mapped, up, calls>>

\* ErrDatabaseNotOpen: both locks are given back.
ReadRefused(p) ==
  /\ Goto(p, "rlock", "idle")
  /\ ~opened /\ mwait = Nobody
  /\ metalock' = Nobody
  /\ UNCHANGED <<op, tx, rwlock, rlocks, mwait, txs, opened, mapped, up, calls>>

\* Mistake: the locks of removeTx in the opposite order.
ViewUnlocksMetaFirst(p) ==
  /\ Goto(p, "read", "remove")
  /\ op[p] = "FindOne"
  /\ metalock = Nobody
  /\ rlocks' = rlocks \ {tx[p]}
  /\ UNCHANGED <<op, tx, rwlock, metalock, mwait, txs, opened, mapped, up, calls>>

\* View rolls back when its function returns: removeTx gives the mmap lock
\* back before it asks for the meta lock.
ViewUnlocks(p) ==
  /\ Goto(p, "read", "remove")
  /\ op[p] = "FindOne"
  /\ rlocks' = rlocks \ {tx[p]}
  /\ UNCHANGED <<op, tx, rwlock, metalock, mwait, txs, opened, mapped, up, calls>>

RemoveTx(p) ==
  /\ Goto(p, "remove", "idle")
  /\ metalock = Nobody
  /\ txs' = txs \ {tx[p]}
  /\ UNCHANGED <<op, tx, rwlock, metalock, rlocks, mwait, opened, mapped, up, calls>>

\* FindAll and Count return, with or without a result, and their transaction
\* stays in db.txs with its share of the mmap lock.
FindAllReturns(p) ==
  /\ Goto(p, "read", "idle")
  /\ op[p] \in {"FindAll", "Count"}
  /\ UNCHANGED <<op, tx, rwlock, metalock, rlocks, mwait, txs, opened, mapped, up,
                 calls>>

-----------------------------------------------------------------------------
(* Read-write transactions: db.Update.                                     *)

\* The Writer updates what it received, a handler runs Delete.
UpdateBegins(p) ==
  /\ Goto(p, "idle", "rw") /\ Call(p)
  /\ rwlock = Nobody
  /\ rwlock' = p
  /\ UNCHANGED <<op, metalock, rlocks, mwait, txs, opened, mapped, up>>

UpdateSetsUp(p) ==
  /\ Goto(p, "rw", "update")
  /\ opened /\ metalock = Nobody
  /\ UNCHANGED <<op, tx, rwlock, metalock, rlocks, mwait, txs, opened, mapped, up,
                 calls>>

UpdateRefused(p) ==
  /\ Goto(p, "rw", "idle")
  /\ ~opened /\ metalock = Nobody
  /\ rwlock' = Nobody
  /\ UNCHANGED <<op, tx, metalock, rlocks, mwait, txs, opened, mapped, up, calls>>

\* allocate found no free page below the end of the mapping.  The new
\* mapping is at least twice the old one, so once is enough.
UpdateGrows(p) ==
  /\ Goto(p, "update", "grow")
  /\ opened
  /\ mwait' = p
  /\ UNCHANGED <<op, tx, rwlock, metalock, rlocks, txs, opened, mapped, up, calls>>

\* Mistake: the file is mapped anew without the exclusive lock.
UpdateUnmapsAtOnce(p) ==
  /\ Goto(p, "grow", "remap")
  /\ mapped' = FALSE
  /\ UNCHANGED <<op, tx, rwlock, metalock, rlocks, mwait, txs, opened, up, calls>>

\* Mistake: the file is mapped anew under the meta lock.
UpdateUnmapsMeta(p) ==
  /\ Goto(p, "grow", "remap")
  /\ rlocks = {} /\ metalock = Nobody
  /\ mapped' = FALSE
  /\ UNCHANGED <<op, tx, rwlock, metalock, rlocks, mwait, txs, opened, up, calls>>

\* The exclusive lock is granted when the last reader is gone.
UpdateUnmaps(p) ==
  /\ Goto(p, "grow", "remap")
  /\ rlocks = {}
  /\ mapped' = FALSE
  /\ UNCHANGED <<op, tx, rwlock, metalock, rlocks, mwait, txs, opened, up, calls>>

\* Also when a meta page of the new mapping is found to be invalid, which
\* makes the update fail.
UpdateMaps(p) ==
  /\ Goto(p, "remap", "commit")
  /\ opened
  /\ mapped' = TRUE
  /\ mwait' = Nobody
  /\ UNCHANGED <<op, tx, rwlock, metalock, rlocks, txs, opened, up, calls>>

\* Stat or the system call fails after the old mapping is gone: mmap returns
\* the error and its lock, and the file is not mapped.
UpdateMapFails(p) ==
  /\ Goto(p, "remap", "failed")
  /\ opened
  /\ mwait' = Nobody
  /\ UNCHANGED <<op, tx, rwlock, metalock, rlocks, txs, opened, mapped, up, calls>>

\* The commit, and as well the rollback after an error or a panic: tx.close.
UpdateEnds(p) ==
  /\ Goto(p, "update", "idle") \/ Goto(p, "commit", "idle")
  /\ opened
  /\ rwlock' = Nobody
  /\ UNCHANGED <<op, tx, metalock, rlocks, mwait, txs, opened, mapped, up, calls>>

-----------------------------------------------------------------------------
(* Close, the transactions it overtakes, and a file that is not mapped.    *)

CloseDB ==
  /\ up /\ opened /\ metalock = Nobody
  /\ opened' = FALSE
  /\ mapped' = FALSE
  /\ UNCHANGED <<pc, op, tx, rwlock, metalock, rlocks, mwait, txs, up, calls>>

\* Touching the unmapped file, or a panic in the Writer, ends the process.
\* After a growth that failed it is the rollback that touches it first, by
\* db.meta, or a reader that begins in between.
Faults(p) ==
  /\ up
  /\ \/ ~opened /\ pc[p] \in {"read", "update", "remap", "commit"}
     \/ pc[p] = "failed"
     \/ opened /\ ~mapped /\ mwait = Nobody /\ pc[p] = "rlock"
  /\ up' = FALSE
  /\ UNCHANGED <<pc, op, tx, rwlock, metalock, rlocks, mwait, txs, opened, mapped,
                 calls>>

\* A nil dereference in a handler is recovered by net/http; the rollback
\* itself fails, so the writer lock is not given back.  In mmap the deferred
\* Unlock does give the mmap lock back.
UpdatePanics(p) ==
  /\ up /\ ~opened /\ p \in Handlers
  /\ pc[p] \in {"update", "remap", "failed", "commit"}
  /\ pc' = [pc EXCEPT ![p] = "panicked"]
  /\ mwait' = IF mwait = p THEN Nobody ELSE mwait
  /\ UNCHANGED <<op, tx, rwlock, metalock, rlocks, txs, opened, mapped, up, calls>>

\* os.Exit after Close.
Exits ==
  /\ up /\ ~opened
  /\ up' = FALSE
  /\ UNCHANGED <<pc, op, tx, rwlock, metalock, rlocks, mwait, txs, opened, mapped,
                 calls>>

-----------------------------------------------------------------------------
Step(p) ==
  \/ ReadLocks(p) \/ ReadRefused(p) \/ ViewUnlocks(p) \/ RemoveTx(p)
  \/ FindAllReturns(p)
  \/ UpdateSetsUp(p) \/ UpdateRefused(p) \/ UpdateUnmaps(p) \/ UpdateMaps(p)
  \/ UpdateMapFails(p) \/ UpdateEnds(p) \/ Faults(p) \/ UpdatePanics(p)

Calls(p) == (p \in Handlers /\ \E o \in ReadOps : ReadBegins(p, o))
            \/ UpdateBegins(p)

\* A behaviour ends when the process is gone or no call is left to make.
Rests == \/ ~up
         \/ calls = MaxCalls /\ \A p \in Procs : pc[p] = "idle"

Next == \/ \E p \in Procs : Step(p) \/ Calls(p) \/ UpdateGrows(p)
        \/ CloseDB
        \/ Exits
        \/ Rests /\ UNCHANGED vars

Spec == Init /\ [][Next]_vars

\* A goroutine inside an operation goes on: whoever finds its locks free
\* takes them.  No one has to call, to grow the file, to close it or to exit.
Fairness == \A p \in Procs : WF_vars(Step(p))
FairSpec == Spec /\ Fairness

-----------------------------------------------------------------------------
(* Properties *)

\* Until Close, which waits for nobody, no reader reads from a file that is not
\* mapped: a growth takes the mapping away under none, and if it cannot map
\* the file again the process ends before somebody reads.
ReadersMapped == opened => \A p \in Procs : pc[p] = "read" => mapped

\* A transaction that reads is known to bolt, which keeps its pages; what holds
\* a share of the mmap lock is known, and nothing is known for longer than
\* View needs to remove it.
ReadersKnown ==
  /\ \A p \in Procs : pc[p] = "read" => tx[p] \in rlocks
  /\ rlocks \subseteq txs
  /\ \A t \in txs : \/ t \in rlocks
                    \/ \E p \in Procs : pc[p] = "remove" /\ tx[p] = t

Updating == {"rw", "update", "grow", "remap", "failed", "commit"}

\* A call has returned and left its transaction open.
LeftOpen == \E t \in rlocks : \A p \in Procs : tx[p] = t => pc[p] = "idle"

\* Unless FindAll or Count has left a transaction open, every read that began
\* returns, or the process ends: the three locks are taken in an order in which
\* nobody waits for somebody who waits for him.
ReadsReturn ==
  \A p \in Procs :
    pc[p] \in {"rlock", "read", "remove"} ~> pc[p] = "idle" \/ ~up \/ LeftOpen

Ended(p) == pc[p] \in {"idle", "panicked"} \/ ~up

\* And so does every update, growth of the file and Close included.
UpdatesFinishAlone ==
  \A p \in Procs : pc[p] \in Updating ~> Ended(p) \/ LeftOpen

\* "Starting multiple write transactions will cause the calls to block and be
\* serialized until the current write transaction finishes"
\* (bolt/db.go:322-324): the current one does finish.
UpdatesFinish == \A p \in Procs : pc[p] \in Updating ~> Ended(p)
=============================================================================
