----------------------------- MODULE Rucksack -----------------------------
(***************************************************************************)
(* The write-behind store of rucksack/db.go.  HTTP handlers (and the boot) *)
(* call Insert and Delete; Insert only sends to the buffered channel       *)
(* writerChan, and one goroutine, Writer, turns what it receives into bolt *)
(* transactions, while Delete runs a transaction of its own in the         *)
(* caller's goroutine.  Close closes the channel and then the database,    *)
(* and the signal handler of wlapp/app.go exits the process after it.      *)
(*                                                                         *)
(* A bolt read-write transaction is its begin, which takes the writer lock *)
(* and looks at db.opened, sometimes the growth of the file, which waits   *)
(* for the readers, and its end: the atomic commit, or a failure that      *)
(* leaves the disk as it was and is only logged.  Reads are the subject of *)
(* BoltLocks; all that is kept of them here is whether FindAll or Count    *)
(* left a transaction open, for which a growth waits for ever.             *)
(***************************************************************************)
EXTENDS Naturals, Sequences, FiniteSets

CONSTANTS Clients,   \* goroutines that call the Backpacker
          Buckets, Keys, Values,
          Missing,   \* not a value: the entry is absent
          Nobody,    \* not a client: the lock is free
          Cap,       \* capacity of writerChan (100 in the code)
          MaxCalls   \* bound on the Insert and Delete calls of a behaviour

ASSUME CapAssumption == Cap \in Nat \ {0}
ASSUME MaxCallsAssumption == MaxCalls \in Nat
ASSUME NamesAssumption == /\ Missing \notin Values
                          /\ Nobody \notin Clients
                          /\ "Writer" \notin Clients \cup {Nobody}

VARIABLES
  proc,      \* the process: "run", "closing" (channel closed), "closed"
             \* (database closed too), "exited" (os.Exit) or "crashed"
  chan,      \* the buffer of writerChan
  sendq,     \* clients blocked in a send, in the order they arrived
  pc, be,    \* each client's place in its call, and the entity of that call
  wpc, data, \* the Writer's place in its loop, and the entity it received
  rwlock,    \* who holds bolt's writer lock
  leaked,    \* has FindAll or Count left its transaction open?
  baskets,   \* the buckets that exist on disk
  disk,      \* the committed contents
  expect,    \* history: what the last completed Insert or Delete asked for
  late,      \* history: was that a Delete which overtook a queued Insert?
  failed,    \* history: did the update or the Delete it rests on fail?
  calls      \* history: how many calls were made

disks   == <<baskets, disk>>
history == <<expect, late, failed>>
writer  == <<wpc, data>>
vars == <<proc, chan, sendq, pc, be, writer, rwlock, leaked, disks, history,
          calls>>

Entries == Buckets \X Keys
bEntity == [at : Entries, data : Values]
\* What a call carries: Delete leaves the data nil.
Request == [at : Entries, data : Values \cup {Missing}]
NoRequest == [at |-> Missing, data |-> Missing]
dbOpen   == proc \in {"run", "closing"}
chanOpen == proc = "run"
running  == proc \in {"run", "closing", "closed"}

\* The Writer, or the Delete of c, is in its transaction.
Updating == wpc \in {"commit", "grow"}
Deleting(c) == pc[c] \in {"delete", "grow"}

\* Somebody has to grow the file; it waits until no read is open.
Growing == wpc = "grow" \/ \E c \in Clients : pc[c] = "grow"
Jammed  == leaked /\ Growing

\* What was accepted and has not been written: the Writer's hand, then the
\* buffer.
Pending == IF wpc \in {"update", "commit", "grow"} THEN <<data>> \o chan ELSE chan

TypeOK ==
  /\ proc \in {"run", "closing", "closed", "exited", "crashed"}
  /\ chan \in Seq(bEntity)
  /\ sendq \in Seq(Clients)
  /\ pc \in [Clients -> {"idle", "send", "delete", "grow", "panicked"}]
  /\ be \in [Clients -> Request \cup {NoRequest}]
  /\ wpc \in {"recv", "update", "commit", "grow", "ended"}
  /\ data \in bEntity \cup {NoRequest}
  /\ rwlock \in Clients \cup {Nobody, "Writer"}
  /\ leaked \in BOOLEAN
  /\ baskets \in SUBSET Buckets
  /\ disk \in [Entries -> Values \cup {Missing}]
  /\ expect \in [Entries -> Values \cup {Missing}]
  /\ late \in [Entries -> BOOLEAN]
  /\ failed \in [Entries -> BOOLEAN]
  /\ calls \in Nat

Fresh == [c \in Clients |-> "idle"]

Init ==
  /\ proc = "run"
  /\ chan = <<>> /\ sendq = <<>>
  /\ pc = Fresh /\ be = [c \in Clients |-> NoRequest]
  /\ wpc = "recv" /\ data = NoRequest
  /\ rwlock = Nobody
  /\ leaked = FALSE
  /\ baskets = {}
  /\ disk = [e \in Entries |-> Missing]
  /\ expect = disk
  /\ late = [e \in Entries |-> FALSE]
  /\ failed = late
  /\ calls = 0

-----------------------------------------------------------------------------
(* Insert: r.writerChan <- be, then nil whatever becomes of the entity.    *)

Call(c) == running /\ pc[c] = "idle" /\ calls < MaxCalls /\ calls' = calls + 1

\* The entity e enters the buffer, and its Insert is as good as returned.
Acknowledge(e) ==
  /\ expect' = [expect EXCEPT ![e.at] = e.data]
  /\ late' = [late EXCEPT ![e.at] = FALSE]
  /\ failed' = [failed EXCEPT ![e.at] = FALSE]

InsertSends(c, e) ==
  /\ Call(c)
  /\ chanOpen /\ Len(chan) < Cap
  /\ chan' = Append(chan, e)
  /\ Acknowledge(e)
  /\ UNCHANGED <<proc, sendq, pc, be, writer, rwlock, leaked, disks>>

\* Mistake: the blocked goroutine does not keep what it sends.
InsertBlocksEmpty(c, e) ==
  /\ Call(c)
  /\ chanOpen /\ Len(chan) >= Cap
  /\ sendq' = Append(sendq, c)
  /\ pc' = [pc EXCEPT ![c] = "send"]
  /\ UNCHANGED <<proc, chan, be, writer, rwlock, leaked, disks, history>>

InsertBlocks(c, e) ==
  /\ Call(c)
  /\ chanOpen /\ Len(chan) >= Cap
  /\ sendq' = Append(sendq, c)
  /\ pc' = [pc EXCEPT ![c] = "send"]
  /\ be' = [be EXCEPT ![c] = e]
  /\ UNCHANGED <<proc, chan, writer, rwlock, leaked, disks, history>>

\* A send on a closed channel panics; net/http recovers it.
InsertPanics(c) ==
  /\ Call(c)
  /\ ~chanOpen
  /\ pc' = [pc EXCEPT ![c] = "panicked"]
  /\ UNCHANGED <<proc, chan, sendq, be, writer, rwlock, leaked, disks, history>>

-----------------------------------------------------------------------------
(* Writer: for data := range r.writerChan { r.db.Update(...) }             *)

\* A receive from a full buffer also takes in the oldest blocked sender.
Receive ==
  /\ running /\ wpc = "recv" /\ chan # <<>>
  /\ data' = Head(chan)
  /\ wpc' = "update"
  /\ IF sendq = <<>>
     THEN /\ chan' = Tail(chan)
          /\ UNCHANGED <<sendq, pc, history>>
     ELSE LET c == Head(sendq) IN
          /\ chan' = Append(Tail(chan), be[c])
          /\ sendq' = Tail(sendq)
          /\ pc' = [pc EXCEPT ![c] = "idle"]
          /\ Acknowledge(be[c])
  /\ UNCHANGED <<proc, be, rwlock, leaked, disks, calls>>

\* The range loop ends when the channel is closed and drained.
WriterEnds ==
  /\ running /\ wpc = "recv" /\ chan = <<>> /\ ~chanOpen
  /\ wpc' = "ended"
  /\ UNCHANGED <<proc, chan, sendq, pc, be, data, rwlock, leaked, disks,
                 history, calls>>

\* db.Update begins: the writer lock, then the look at db.opened.
UpdateBegins ==
  /\ running /\ wpc = "update" /\ rwlock = Nobody /\ dbOpen
  /\ rwlock' = "Writer"
  /\ wpc' = "commit"
  /\ UNCHANGED <<proc, chan, sendq, pc, be, data, leaked, disks, history, calls>>

\* ErrDatabaseNotOpen is logged and the entity is dropped.
UpdateRefused ==
  /\ running /\ wpc = "update" /\ rwlock = Nobody /\ ~dbOpen
  /\ wpc' = "recv"
  /\ UNCHANGED <<proc, chan, sendq, pc, be, data, rwlock, leaked, disks,
                 history, calls>>

\* The pages do not fit into the file: mmap waits until no read is open.
UpdateGrows ==
  /\ dbOpen /\ wpc = "commit"
  /\ wpc' = "grow"
  /\ UNCHANGED <<proc, chan, sendq, pc, be, data, rwlock, leaked, disks,
                 history, calls>>

\* What the transaction of the Writer, or of the Delete of c, waits for.
UpdateCanEnd    == dbOpen /\ (wpc = "commit" \/ (wpc = "grow" /\ ~leaked))
DeleteCanEnd(c) == dbOpen /\ (pc[c] = "delete" \/ (pc[c] = "grow" /\ ~leaked))

\* Mistake: Put keeps the value of a key that exists.
StoredOnce(e) ==
  /\ baskets' = baskets \cup {e.at[1]}
  /\ disk' = [disk EXCEPT ![e.at] = IF @ = Missing THEN e.data ELSE @]

Stored(e) ==
  /\ baskets' = baskets \cup {e.at[1]}
  /\ disk' = [disk EXCEPT ![e.at] = e.data]

UpdateCommits ==
  /\ UpdateCanEnd
  /\ Stored(data)
  /\ rwlock' = Nobody
  /\ wpc' = "recv"
  /\ UNCHANGED <<proc, chan, sendq, pc, be, data, leaked, history, calls>>

IsIn(q, at) == \E i \in DOMAIN q : q[i].at = at

\* Mistake: the Writer returns when an update fails.
UpdateFailsReturns ==
  /\ UpdateCanEnd
  /\ rwlock' = Nobody
  /\ wpc' = "ended"
  /\ failed' = [failed EXCEPT ![data.at] = @ \/ ~IsIn(chan, data.at)]
  /\ UNCHANGED <<proc, chan, sendq, pc, be, data, leaked, disks, expect, late,
                 calls>>

\* CreateBucketIfNotExists, Put or Commit fails: rolled back, logged, and the
\* loop goes on to the next entity.
UpdateFails ==
  /\ UpdateCanEnd
  /\ rwlock' = Nobody
  /\ wpc' = "recv"
  /\ failed' = [failed EXCEPT ![data.at] = @ \/ ~IsIn(chan, data.at)]
  /\ UNCHANGED <<proc, chan, sendq, pc, be, data, leaked, disks, expect, late,
                 calls>>

-----------------------------------------------------------------------------
(* Delete: a transaction in the caller's goroutine; its error is swallowed.*)

DeleteBegins(c, at) ==
  /\ Call(c)
  /\ rwlock = Nobody /\ dbOpen
  /\ rwlock' = c
  /\ pc' = [pc EXCEPT ![c] = "delete"]
  /\ be' = [be EXCEPT ![c] = [at |-> at, data |-> Missing]]
  /\ UNCHANGED <<proc, chan, sendq, writer, leaked, disks, history>>

DeleteRefused(c) ==
  /\ Call(c)
  /\ rwlock = Nobody /\ ~dbOpen
  /\ UNCHANGED <<proc, chan, sendq, pc, be, writer, rwlock, leaked, disks,
                 history>>

DeleteGrows(c) ==
  /\ dbOpen /\ pc[c] = "delete" /\ be[c].at[1] \in baskets
  /\ pc' = [pc EXCEPT ![c] = "grow"]
  /\ UNCHANGED <<proc, chan, sendq, be, writer, rwlock, leaked, disks, history,
                 calls>>

\* Delete returns nil: the caller takes the entry for gone.
DeleteReturns(c) ==
  LET at == be[c].at IN
  /\ DeleteCanEnd(c) /\ at[1] \in baskets
  /\ expect' = [expect EXCEPT ![at] = Missing]
  /\ rwlock' = Nobody
  /\ pc' = [pc EXCEPT ![c] = "idle"]
  /\ UNCHANGED <<proc, chan, sendq, be, writer, leaked, baskets, calls>>

DeleteCommits(c) ==
  LET at == be[c].at IN
  /\ DeleteReturns(c)
  /\ disk' = [disk EXCEPT ![at] = Missing]
  /\ late' = [late EXCEPT ![at] = IsIn(Pending, at)]
  /\ failed' = [failed EXCEPT ![at] = FALSE]

\* The commit fails; the error is logged, not returned.
DeleteFails(c) ==
  /\ DeleteReturns(c)
  /\ failed' = [failed EXCEPT ![be[c].at] = TRUE]
  /\ UNCHANGED <<disk, late>>

\* Mistake: the panic leaves the transaction open.
DeletePanicsLocked(c) ==
  /\ dbOpen /\ pc[c] = "delete" /\ be[c].at[1] \notin baskets
  /\ pc' = [pc EXCEPT ![c] = "panicked"]
  /\ UNCHANGED <<proc, chan, sendq, be, writer, rwlock, leaked, disks, history,
                 calls>>

\* tx.Bucket returned nil and b.Delete dereferences it; the deferred
\* rollback of Update gives the lock back before net/http recovers.
DeletePanics(c) ==
  /\ dbOpen /\ pc[c] = "delete" /\ be[c].at[1] \notin baskets
  /\ rwlock' = Nobody
  /\ pc' = [pc EXCEPT ![c] = "panicked"]
  /\ UNCHANGED <<proc, chan, sendq, be, writer, leaked, disks, history, calls>>

\* net/http closes the connection; the goroutine serves no more of the call.
Recover(c) ==
  /\ running /\ pc[c] = "panicked"
  /\ pc' = [pc EXCEPT ![c] = "idle"]
  /\ UNCHANGED <<proc, chan, sendq, be, writer, rwlock, leaked, disks, history,
                 calls>>

\* FindAll or Count: the transaction they begin is never closed.  It begins
\* only while nobody waits to grow the file.
ReadLeavesOpen ==
  /\ dbOpen /\ ~leaked /\ ~Growing
  /\ leaked' = TRUE
  /\ UNCHANGED <<proc, chan, sendq, pc, be, writer, rwlock, disks, history,
                 calls>>

-----------------------------------------------------------------------------
(* Close, the exit after it, a crash at any moment, and the next start.    *)

\* Mistake: closing the channel throws the buffer away.
CloseChanEmptied ==
  /\ proc = "run"
  /\ proc' = "closing"
  /\ chan' = <<>> /\ sendq' = <<>>
  /\ pc' = [c \in Clients |-> IF pc[c] = "send" THEN "panicked" ELSE pc[c]]
  /\ UNCHANGED <<be, writer, rwlock, leaked, disks, history, calls>>

\* close(r.writerChan): every blocked sender panics.
CloseChan ==
  /\ proc = "run"
  /\ proc' = "closing"
  /\ sendq' = <<>>
  /\ pc' = [c \in Clients |-> IF pc[c] = "send" THEN "panicked" ELSE pc[c]]
  /\ UNCHANGED <<chan, be, writer, rwlock, leaked, disks, history, calls>>

\* db.Close takes the meta lock only, so it does not wait for a transaction
\* that holds the writer lock.
CloseDB ==
  /\ proc = "closing"
  /\ proc' = "closed"
  /\ UNCHANGED <<chan, sendq, pc, be, writer, rwlock, leaked, disks, history,
                 calls>>

Halt(how) ==
  /\ proc' = how
  /\ chan' = <<>> /\ sendq' = <<>>
  /\ pc' = Fresh /\ be' = [c \in Clients |-> NoRequest]
  /\ wpc' = "recv" /\ data' = NoRequest
  /\ rwlock' = Nobody
  /\ leaked' = FALSE
  /\ UNCHANGED <<history, calls>>

Exit == proc = "closed" /\ Halt("exited") /\ UNCHANGED disks

\* Also what a growth does that unmapped the file and cannot map it again.
Crash == running /\ Halt("crashed") /\ UNCHANGED disks

\* The Writer is inside a transaction whose database has been unmapped: it
\* faults, with the meta page already written or not.  No recover is above
\* it on the stack.
UpdateFaults ==
  /\ proc = "closed" /\ (wpc = "commit" \/ (wpc = "grow" /\ ~leaked))
  /\ Halt("crashed")
  /\ Stored(data) \/ UNCHANGED disks

\* The same for a Delete: a nil dereference is recovered by net/http, with
\* the writer lock still held; a fault in the unmapped pages is not.
DeleteFaults(c) ==
  /\ proc = "closed" /\ (pc[c] = "delete" \/ (pc[c] = "grow" /\ ~leaked))
  /\ \/ Halt("crashed")
     \/ /\ pc' = [pc EXCEPT ![c] = "panicked"]
        /\ UNCHANGED <<proc, chan, sendq, be, writer, rwlock, leaked, history,
                       calls>>
  /\ \/ UNCHANGED disk
     \/ be[c].at[1] \in baskets /\ disk' = [disk EXCEPT ![be[c].at] = Missing]
  /\ UNCHANGED baskets

\* New opens the same file and starts a Writer.
Restart ==
  /\ proc \in {"exited", "crashed"}
  /\ proc' = "run"
  /\ expect' = disk
  /\ late' = [e \in Entries |-> FALSE]
  /\ failed' = [e \in Entries |-> FALSE]
  /\ UNCHANGED <<chan, sendq, pc, be, writer, rwlock, leaked, disks, calls>>

-----------------------------------------------------------------------------
WriterStep == Receive \/ WriterEnds \/ UpdateBegins \/ UpdateRefused
              \/ UpdateGrows \/ UpdateCommits \/ UpdateFails \/ UpdateFaults

DeleteStep(c) == DeleteGrows(c) \/ DeleteCommits(c) \/ DeleteFails(c)
                 \/ DeletePanics(c) \/ DeleteFaults(c)

ClientStep(c) ==
  \/ \E e \in bEntity : InsertSends(c, e) \/ InsertBlocks(c, e)
  \/ InsertPanics(c)
  \/ \E at \in Entries : DeleteBegins(c, at)
  \/ DeleteRefused(c) \/ DeleteStep(c)
  \/ Recover(c)

Next == WriterStep \/ (\E c \in Clients : ClientStep(c)) \/ ReadLeavesOpen
        \/ CloseChan \/ CloseDB \/ Exit \/ Crash \/ Restart

\* The Writer is never descheduled for good, and a handler inside a
\* transaction goes on with it; a growth behind an open read is not enabled,
\* and nothing is assumed of it.  Nobody is obliged to call, close or restart.
Fairness ==
  /\ WF_vars(WriterStep)
  /\ \A c \in Clients : WF_vars(DeleteStep(c))

Spec == Init /\ [][Next]_vars
FairSpec == Spec /\ Fairness
-----------------------------------------------------------------------------
(* Properties *)

\* At most one read-write transaction is open: the Writer's update and the
\* Deletes of the handlers exclude one another, panics included.
OneWriteTransaction ==
  /\ Updating <=> rwlock = "Writer"
  /\ \A c \in Clients : Deleting(c) => rwlock = c
  /\ dbOpen => \A c \in Clients : rwlock = c => Deleting(c)

\* Once the writes of the queue q have reached the map m, at holds v.
SettlesIn(q, m, at, v) ==
  \/ \E i \in DOMAIN q : /\ q[i].at = at /\ q[i].data = v
                         /\ \A j \in DOMAIN q : j > i => q[j].at # at
  \/ ~IsIn(q, at) /\ m[at] = v

\* While the database is open the queue and the disk together hold, for
\* every entry, what the last completed Insert or Delete of it asked for,
\* unless that was a Delete that ran while an Insert of the entry was queued,
\* or the update or the Delete it rests on failed (db.go:121 and 196 log it
\* and tell nobody).  A failure excuses its own entry only, and only until
\* the next call on it.
LastCallSettles ==
  dbOpen => \A at \in Entries :
              late[at] \/ failed[at] \/ SettlesIn(Pending, disk, at, expect[at])

\* Backpacker's promise (WriteBehind), with the Writer's hand and the buffer
\* as the pending writes.
Promise == INSTANCE WriteBehind
             WITH store <- disk, pending <- Pending, open <- dbOpen,
                  jammed <- Jammed
KeepsPromise == Promise!Spec

\* Its safety part alone: every step of the code settles or drops the oldest
\* accepted write, removes an entry at once, accepts, jams, shuts, dies or
\* changes nothing that a caller could tell.
KeepsOrder == Promise!Safety

\* A blocked Insert gets its place in the buffer, or panics, or dies with
\* the process: the Writer cannot leave it waiting, however many updates
\* fail, unless it waits itself for a read that was left open.
SendReturns == \A c \in Clients : pc[c] = "send" ~> pc[c] # "send" \/ Jammed

\* "catchSysCall ends the program correctly when receiving a sys call"
\* (wlapp/app.go:148): the exit after Close leaves no accepted write behind.
ShutdownKeepsWrites == [][proc' = "exited" => Pending = <<>>]_vars
=============================================================================
