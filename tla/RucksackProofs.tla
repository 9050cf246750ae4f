--------------------------- MODULE RucksackProofs ---------------------------
(***************************************************************************)
(* Proofs about Rucksack for every number of clients, every set of buckets,*)
(* keys and values, every capacity of writerChan and every MaxCalls.       *)
(***************************************************************************)
EXTENDS Rucksack, TLAPS

\* What the Writer holds between the receive and the end of its transaction.
WriterHolds == wpc \in {"update", "commit", "grow"} => data \in bEntity

\* A sender waits only while the buffer is full, and whoever waits is in the
\* queue the Writer serves.
SendersAccountedFor ==
  /\ sendq # <<>> => chanOpen /\ Len(chan) = Cap
  /\ \A i, j \in DOMAIN sendq : sendq[i] = sendq[j] => i = j
  /\ \A c \in Clients : pc[c] = "send" <=> \E i \in DOMAIN sendq : sendq[i] = c
  /\ \A c \in Clients : pc[c] = "send" => be[c] \in bEntity

\* A process that is not running holds nothing; a Delete names an entry.
Halted == /\ ~running => rwlock = Nobody /\ pc = Fresh /\ wpc = "recv"
                         /\ chan = <<>> /\ sendq = <<>> /\ ~leaked
          /\ \A c \in Clients : Deleting(c) => be[c] \in Request

\* The buffer never exceeds its capacity.
BufferBound == Len(chan) <= Cap

\* The inductive invariant.
IInv == TypeOK /\ BufferBound /\ WriterHolds /\ Halted /\ SendersAccountedFor
        /\ OneWriteTransaction

-----------------------------------------------------------------------------
(* The queue and the map *)

\* A write appended to the queue decides its own entry and no other.
LEMMA AppendDecides ==
  ASSUME NEW q \in Seq(bEntity), NEW e \in bEntity, NEW m
  PROVE  /\ SettlesIn(Append(q, e), m, e.at, e.data)
         /\ \A at, v : at # e.at /\ SettlesIn(q, m, at, v)
                         => SettlesIn(Append(q, e), m, at, v)
<1> DEFINE r == Append(q, e)
<1>1. r \in Seq(bEntity) /\ Len(r) = Len(q) + 1 /\ r[Len(r)] = e
      /\ \A i \in 1..Len(q) : r[i] = q[i]
  OBVIOUS
<1>2. DOMAIN r = 1..Len(r) /\ DOMAIN q = 1..Len(q) /\ Len(q) \in Nat
  OBVIOUS
<1> HIDE DEF r
<1>3. SettlesIn(r, m, e.at, e.data)
  BY <1>1, <1>2 DEF SettlesIn
<1>4. ASSUME NEW at, NEW v, at # e.at, SettlesIn(q, m, at, v)
      PROVE  SettlesIn(r, m, at, v)
  <2>1. CASE \E i \in DOMAIN q : /\ q[i].at = at /\ q[i].data = v
                                 /\ \A j \in DOMAIN q : j > i => q[j].at # at
    BY <2>1, <1>1, <1>2, <1>4 DEF SettlesIn
  <2>2. CASE ~IsIn(q, at) /\ m[at] = v
    BY <2>2, <1>1, <1>2, <1>4 DEF SettlesIn, IsIn
  <2> QED BY <1>4, <2>1, <2>2 DEF SettlesIn
<1> QED BY <1>3, <1>4 DEF r

\* Writing the oldest entity of the queue to the map decides nothing anew.
LEMMA SettlingDecides ==
  ASSUME NEW q \in Seq(bEntity), q # <<>>,
         NEW m \in [Entries -> Values \cup {Missing}],
         NEW at \in Entries, NEW v, SettlesIn(q, m, at, v)
  PROVE  SettlesIn(Tail(q), [m EXCEPT ![Head(q).at] = Head(q).data], at, v)
<1> DEFINE r == Tail(q)
           n == [m EXCEPT ![Head(q).at] = Head(q).data]
<1>1. Head(q) = q[1] /\ q[1] \in bEntity /\ Len(q) \in Nat /\ Len(q) >= 1
  OBVIOUS
<1>2. r \in Seq(bEntity) /\ Len(r) = Len(q) - 1
      /\ \A i \in 1..Len(r) : r[i] = q[i+1]
  OBVIOUS
<1>3. DOMAIN r = 1..Len(r) /\ DOMAIN q = 1..Len(q)
  OBVIOUS
<1>b. \A j \in DOMAIN r : j + 1 \in DOMAIN q /\ r[j] = q[j + 1] /\ j + 1 > 1
  BY <1>1, <1>2, <1>3
<1>4. /\ q[1].at = at => n[at] = q[1].data
      /\ q[1].at # at => n[at] = m[at]
  BY <1>1 DEF bEntity
<1>a. SettlesIn(r, n, at, v) => SettlesIn(Tail(q), [m EXCEPT ![Head(q).at] = Head(q).data], at, v)
  OBVIOUS
<1> HIDE DEF r, n
<1>5. ASSUME \E i \in DOMAIN q : /\ q[i].at = at /\ q[i].data = v
                                /\ \A j \in DOMAIN q : j > i => q[j].at # at
      PROVE  SettlesIn(r, n, at, v)
  <2>1. PICK i \in DOMAIN q : /\ q[i].at = at /\ q[i].data = v
                              /\ \A j \in DOMAIN q : j > i => q[j].at # at
    BY <1>5
  <2>2. CASE i = 1
    <3>1. ~IsIn(r, at)
      BY <2>1, <2>2, <1>b DEF IsIn
    <3>2. n[at] = v
      BY <2>1, <2>2, <1>4
    <3> QED BY <3>1, <3>2 DEF SettlesIn
  <2>3. CASE i # 1
    <3>1. i - 1 \in DOMAIN r /\ r[i - 1] = q[i]
      BY <2>3, <1>1, <1>2, <1>3
    <3>2. ASSUME NEW j \in DOMAIN r, j > i - 1
          PROVE  r[j].at # at
      <4>1. j + 1 > i
        BY <3>2, <1>1, <1>3
      <4> QED BY <4>1, <2>1, <1>b
    <3> QED BY <3>1, <3>2, <2>1 DEF SettlesIn
  <2> QED BY <2>2, <2>3
<1>6. ASSUME ~IsIn(q, at), m[at] = v
      PROVE  SettlesIn(r, n, at, v)
  <2>1. q[1].at # at
    BY <1>6, <1>1, <1>3 DEF IsIn
  <2>2. ~IsIn(r, at)
    BY <1>6, <1>b DEF IsIn
  <2> QED BY <2>1, <2>2, <1>4, <1>6 DEF SettlesIn
<1> QED BY <1>5, <1>6, <1>a DEF SettlesIn

\* Dropping the oldest entity of the queue decides nothing for the other
\* entries, nor for its own if a later write of it is queued.
LEMMA DroppingDecides ==
  ASSUME NEW q \in Seq(bEntity), q # <<>>, NEW m, NEW at \in Entries, NEW v,
         SettlesIn(q, m, at, v), Head(q).at # at \/ IsIn(Tail(q), at)
  PROVE  SettlesIn(Tail(q), m, at, v)
<1> DEFINE r == Tail(q)
<1>1. Head(q) = q[1] /\ Len(q) \in Nat /\ Len(q) >= 1
      /\ r \in Seq(bEntity) /\ Len(r) = Len(q) - 1
      /\ \A i \in 1..Len(r) : r[i] = q[i+1]
      /\ DOMAIN r = 1..Len(r) /\ DOMAIN q = 1..Len(q)
  OBVIOUS
<1>2. \A j \in DOMAIN r : j + 1 \in DOMAIN q /\ r[j] = q[j + 1] /\ j + 1 > 1
  BY <1>1
<1>3. q[1].at # at \/ IsIn(r, at)
  BY <1>1
<1> HIDE DEF r
<1>4. ASSUME NEW i \in DOMAIN q, q[i].at = at, q[i].data = v,
             \A j \in DOMAIN q : j > i => q[j].at # at
      PROVE  SettlesIn(r, m, at, v)
  <2>1. i # 1
    BY <1>2, <1>3, <1>4 DEF IsIn
  <2>2. i - 1 \in DOMAIN r /\ r[i - 1] = q[i]
    BY <2>1, <1>1
  <2>3. ASSUME NEW j \in DOMAIN r, j > i - 1
        PROVE  r[j].at # at
    <3>1. j + 1 > i
      BY <2>3, <1>1
    <3> QED BY <3>1, <1>2, <1>4
  <2> QED BY <2>2, <2>3, <1>4 DEF SettlesIn
<1>5. ASSUME ~IsIn(q, at), m[at] = v
      PROVE  SettlesIn(r, m, at, v)
  BY <1>2, <1>5 DEF SettlesIn, IsIn
<1>6. SettlesIn(r, m, at, v)
  BY <1>4, <1>5 DEF SettlesIn
<1> QED BY <1>6 DEF r
-----------------------------------------------------------------------------
(* The inductive invariant *)

LEMMA InitInvariant == Init => IInv
<1> SUFFICES ASSUME Init PROVE IInv
  OBVIOUS
<1>1. TypeOK
  <2>1. /\ disk \in [Entries -> Values \cup {Missing}] /\ expect = disk
        /\ late \in [Entries -> BOOLEAN] /\ failed = late
    BY DEF Init
  <2>2. /\ pc \in [Clients -> {"idle", "send", "delete", "grow", "panicked"}]
        /\ be \in [Clients -> Request \cup {NoRequest}]
        /\ chan \in Seq(bEntity) /\ sendq \in Seq(Clients)
    BY DEF Init, Fresh
  <2> QED BY <2>1, <2>2 DEF Init, TypeOK
<1>2. BufferBound /\ WriterHolds /\ Halted /\ SendersAccountedFor
  BY CapAssumption DEF Init, BufferBound, WriterHolds, Halted, Deleting,
     SendersAccountedFor, Fresh, running
<1>3. OneWriteTransaction
  BY NamesAssumption DEF Init, OneWriteTransaction, Updating, Deleting, Fresh
<1> QED BY <1>1, <1>2, <1>3 DEF IInv

LEMMA StepInvariant == IInv /\ [Next]_vars => IInv'
<1> SUFFICES ASSUME IInv, [Next]_vars
             PROVE  IInv'
  OBVIOUS
<1> USE CapAssumption, NamesAssumption
    DEF IInv, disks, history, writer, Updating, Deleting
<1>h. ASSUME NEW how \in {"exited", "crashed"}, Halt(how),
             baskets' \in SUBSET Buckets, disk' \in [Entries -> Values \cup {Missing}]
      PROVE  TypeOK'
  <2>1. /\ pc' \in [Clients -> {"idle", "send", "delete", "grow", "panicked"}]
        /\ be' \in [Clients -> Request \cup {NoRequest}]
    BY <1>h DEF Halt, Fresh
  <2>2. chan' \in Seq(bEntity) /\ sendq' \in Seq(Clients)
    BY <1>h DEF Halt
  <2> QED BY <1>h, <2>1, <2>2 DEF Halt, TypeOK
<1>1. ASSUME NEW c \in Clients, NEW e \in bEntity, InsertSends(c, e) PROVE IInv'
  <2>1. TypeOK'
    BY <1>1 DEF InsertSends, Call, Acknowledge, TypeOK, bEntity, Request,
       Entries, dbOpen, chanOpen, running
  <2>2. WriterHolds'
    BY <1>1 DEF InsertSends, Call, Acknowledge, TypeOK, WriterHolds
  <2>5. Halted'
    BY <1>1 DEF InsertSends, Call, Acknowledge, TypeOK, Halted, Fresh, running,
       dbOpen, chanOpen, Request
  <2>6. BufferBound'
    BY <1>1 DEF InsertSends, Call, Acknowledge, TypeOK, BufferBound
  <2>3. SendersAccountedFor'
    BY <1>1 DEF InsertSends, Call, Acknowledge, TypeOK, SendersAccountedFor,
       chanOpen
  <2>4. OneWriteTransaction'
    BY <1>1 DEF InsertSends, Call, Acknowledge, TypeOK, OneWriteTransaction,
       dbOpen
  <2> QED BY <2>1, <2>2, <2>3, <2>4, <2>5, <2>6
<1>2. ASSUME NEW c \in Clients, NEW e \in bEntity, InsertBlocks(c, e) PROVE IInv'
  <2>1. TypeOK'
    BY <1>2 DEF InsertBlocks, Call, TypeOK, bEntity, Request, Entries, dbOpen,
       chanOpen, running
  <2>2. WriterHolds'
    BY <1>2 DEF InsertBlocks, Call, TypeOK, WriterHolds
  <2>5. Halted'
    BY <1>2 DEF InsertBlocks, Call, TypeOK, Halted, Fresh, running, dbOpen,
       chanOpen, Request
  <2>6. BufferBound'
    BY <1>2 DEF InsertBlocks, Call, TypeOK, BufferBound
  <2>3. SendersAccountedFor'
    <3> DEFINE q == Append(sendq, c)
    <3>1. /\ q \in Seq(Clients) /\ Len(q) = Len(sendq) + 1 /\ q[Len(q)] = c
          /\ \A i \in 1..Len(sendq) : q[i] = sendq[i]
          /\ Len(sendq) \in Nat
          /\ DOMAIN q = 1..Len(q) /\ DOMAIN sendq = 1..Len(sendq)
      BY DEF TypeOK
    <3>2. sendq' = q /\ pc' = [pc EXCEPT ![c] = "send"]
          /\ be' = [be EXCEPT ![c] = e] /\ chan' = chan /\ proc' = proc
      BY <1>2 DEF InsertBlocks
    <3>3. pc[c] = "idle" /\ chanOpen /\ Len(chan) = Cap
      <4>1. Len(chan) <= Cap
        BY DEF TypeOK, BufferBound
      <4> QED BY <4>1, <1>2 DEF InsertBlocks, Call, TypeOK
    <3>4. \A i \in DOMAIN sendq : sendq[i] # c
      BY <3>3 DEF SendersAccountedFor
    <3> HIDE DEF q
    <3>5. \A i, j \in DOMAIN q : q[i] = q[j] => i = j
      BY <3>1, <3>4 DEF SendersAccountedFor
    <3>6. ASSUME NEW x \in Clients
          PROVE  pc'[x] = "send" <=> \E i \in DOMAIN q : q[i] = x
      <4>1. CASE x = c
        BY <4>1, <3>1, <3>2 DEF TypeOK
      <4>2. CASE x # c
        <5>1. pc'[x] = pc[x]
          BY <4>2, <3>2 DEF TypeOK
        <5>2. (\E i \in DOMAIN q : q[i] = x) <=> \E i \in DOMAIN sendq : sendq[i] = x
          BY <4>2, <3>1
        <5> QED BY <5>1, <5>2 DEF SendersAccountedFor
      <4> QED BY <4>1, <4>2
    <3>7. \A x \in Clients : pc'[x] = "send" => be'[x] \in bEntity
      BY <3>2 DEF TypeOK, SendersAccountedFor
    <3> QED BY <3>2, <3>3, <3>5, <3>6, <3>7 DEF SendersAccountedFor, chanOpen
  <2>4. OneWriteTransaction'
    BY <1>2 DEF InsertBlocks, Call, TypeOK, OneWriteTransaction, dbOpen
  <2> QED BY <2>1, <2>2, <2>3, <2>4, <2>5, <2>6
<1>3. ASSUME NEW c \in Clients, InsertPanics(c) PROVE IInv'
  <2>1. TypeOK'
    BY <1>3 DEF InsertPanics, Call, TypeOK, bEntity, Request, Entries, dbOpen,
       chanOpen, running
  <2>2. WriterHolds'
    BY <1>3 DEF InsertPanics, Call, TypeOK, WriterHolds
  <2>5. Halted'
    BY <1>3 DEF InsertPanics, Call, TypeOK, Halted, Fresh, running, dbOpen,
       chanOpen, Request
  <2>6. BufferBound'
    BY <1>3 DEF InsertPanics, Call, TypeOK, BufferBound
  <2>3. SendersAccountedFor'
    BY <1>3 DEF InsertPanics, Call, TypeOK, SendersAccountedFor, chanOpen
  <2>4. OneWriteTransaction'
    BY <1>3 DEF InsertPanics, Call, TypeOK, OneWriteTransaction, dbOpen
  <2> QED BY <2>1, <2>2, <2>3, <2>4, <2>5, <2>6
<1>4. ASSUME Receive PROVE IInv'
  <2>1. chan # <<>> /\ wpc = "recv" /\ data' = Head(chan) /\ wpc' = "update"
        /\ UNCHANGED <<proc, be, rwlock, leaked, disks, calls>> /\ running
    BY <1>4 DEF Receive
  <2>2. data' \in bEntity /\ Tail(chan) \in Seq(bEntity)
        /\ Len(Tail(chan)) = Len(chan) - 1 /\ Len(chan) \in Nat
    BY <2>1 DEF TypeOK
  <2>3. CASE sendq = <<>>
    <3>1. chan' = Tail(chan) /\ UNCHANGED <<sendq, pc, history>>
      BY <1>4, <2>3 DEF Receive
    <3>2. TypeOK' /\ BufferBound' /\ WriterHolds'
      BY <2>1, <2>2, <3>1 DEF TypeOK, BufferBound, WriterHolds
    <3>3. Halted' /\ OneWriteTransaction'
      BY <2>1, <3>1 DEF Halted, OneWriteTransaction, running, dbOpen
    <3>4. SendersAccountedFor'
      BY <2>1, <2>3, <3>1 DEF SendersAccountedFor
    <3> QED BY <3>2, <3>3, <3>4
  <2>4. CASE sendq # <<>>
    <3> DEFINE h == Head(sendq)
               r == Tail(sendq)
    <3>1. /\ h \in Clients /\ h = sendq[1] /\ r \in Seq(Clients)
          /\ Len(sendq) \in Nat /\ Len(sendq) >= 1 /\ Len(r) = Len(sendq) - 1
          /\ \A i \in 1..Len(r) : r[i] = sendq[i + 1]
          /\ DOMAIN r = 1..Len(r) /\ DOMAIN sendq = 1..Len(sendq)
      BY <2>4 DEF TypeOK
    <3>2. /\ chan' = Append(Tail(chan), be[h]) /\ sendq' = r
          /\ pc' = [pc EXCEPT ![h] = "idle"] /\ Acknowledge(be[h])
      BY <1>4, <2>4 DEF Receive
    <3>3. 1 \in DOMAIN sendq
      BY <3>1
    <3>4. pc[h] = "send" /\ be[h] \in bEntity
      BY <3>1, <3>3 DEF SendersAccountedFor
    <3> HIDE DEF h, r
    <3>5. chan' \in Seq(bEntity) /\ Len(chan') = Len(chan)
      BY <2>2, <3>2, <3>4
    <3>6. expect' \in [Entries -> Values \cup {Missing}]
          /\ late' \in [Entries -> BOOLEAN] /\ failed' \in [Entries -> BOOLEAN]
      BY <3>2, <3>4 DEF Acknowledge, TypeOK, bEntity
    <3>7. pc' \in [Clients -> {"idle", "send", "delete", "grow", "panicked"}]
      BY <3>2 DEF TypeOK
    <3>8. TypeOK' /\ BufferBound' /\ WriterHolds'
      BY <2>1, <2>2, <3>1, <3>2, <3>5, <3>6, <3>7 DEF TypeOK, BufferBound,
         WriterHolds
    <3>9. OneWriteTransaction'
      <4>1. \A c \in Clients : Deleting(c)' <=> Deleting(c)
        BY <3>2, <3>4 DEF TypeOK
      <4>2. proc' = proc /\ rwlock' = rwlock /\ ~Updating' /\ ~Updating
        BY <2>1
      <4> QED BY <4>1, <4>2 DEF OneWriteTransaction, dbOpen
    <3>10. Halted'
      BY <2>1, <3>2 DEF Halted, running, TypeOK
    <3>11. \A i, j \in DOMAIN r : r[i] = r[j] => i = j
      <4>1. ASSUME NEW i \in DOMAIN r, NEW j \in DOMAIN r, r[i] = r[j]
            PROVE  i = j
        <5>1. i + 1 \in DOMAIN sendq /\ j + 1 \in DOMAIN sendq
              /\ sendq[i + 1] = sendq[j + 1]
          BY <3>1, <4>1
        <5>2. i + 1 = j + 1
          BY <5>1 DEF SendersAccountedFor
        <5> QED BY <5>2, <3>1
      <4> QED BY <4>1
    <3>12. ASSUME NEW x \in Clients
           PROVE  pc'[x] = "send" <=> \E i \in DOMAIN r : r[i] = x
      <4>1. \A i \in DOMAIN r : i + 1 \in DOMAIN sendq /\ r[i] = sendq[i + 1]
                                 /\ i + 1 # 1
        BY <3>1
      <4>2. \A i \in DOMAIN sendq : i # 1 => i - 1 \in DOMAIN r /\ r[i - 1] = sendq[i]
        BY <3>1
      <4>3. CASE x = h
        <5>1. pc'[x] = "idle"
          BY <4>3, <3>2 DEF TypeOK
        <5>2. \A i \in DOMAIN r : r[i] # x
          <6>1. ASSUME NEW i \in DOMAIN r, r[i] = x
                PROVE  FALSE
            <7>1. i + 1 \in DOMAIN sendq /\ sendq[i + 1] = sendq[1] /\ i + 1 # 1
              BY <6>1, <4>1, <4>3, <3>1
            <7> QED BY <7>1, <3>3 DEF SendersAccountedFor
          <6> QED BY <6>1
        <5> QED BY <5>1, <5>2
      <4>4. CASE x # h
        <5>1. pc'[x] = pc[x]
          BY <4>4, <3>2 DEF TypeOK
        <5>2. (\E i \in DOMAIN r : r[i] = x) <=> \E i \in DOMAIN sendq : sendq[i] = x
          BY <4>1, <4>2, <4>4, <3>1
        <5> QED BY <5>1, <5>2 DEF SendersAccountedFor
      <4> QED BY <4>3, <4>4
    <3>13. \A x \in Clients : pc'[x] = "send" => be'[x] \in bEntity
      BY <2>1, <3>2 DEF TypeOK, SendersAccountedFor
    <3>14. SendersAccountedFor'
      <4>1. chanOpen' /\ Len(chan') = Cap
        BY <2>1, <2>4, <3>5 DEF SendersAccountedFor, chanOpen
      <4> QED BY <4>1, <3>2, <3>11, <3>12, <3>13 DEF SendersAccountedFor
    <3> QED BY <3>8, <3>9, <3>10, <3>14
  <2> QED BY <2>3, <2>4
<1>5. ASSUME WriterEnds PROVE IInv'
  <2>1. TypeOK'
    BY <1>5 DEF WriterEnds, TypeOK, bEntity, Request, Entries, dbOpen,
       chanOpen, running
  <2>2. WriterHolds'
    BY <1>5 DEF WriterEnds, TypeOK, WriterHolds
  <2>5. Halted'
    BY <1>5 DEF WriterEnds, TypeOK, Halted, Fresh, running, dbOpen, chanOpen,
       Request
  <2>6. BufferBound'
    BY <1>5 DEF WriterEnds, TypeOK, BufferBound
  <2>3. SendersAccountedFor'
    BY <1>5 DEF WriterEnds, TypeOK, SendersAccountedFor, chanOpen
  <2>4. OneWriteTransaction'
    BY <1>5 DEF WriterEnds, TypeOK, OneWriteTransaction, dbOpen
  <2> QED BY <2>1, <2>2, <2>3, <2>4, <2>5, <2>6
<1>6. ASSUME UpdateBegins PROVE IInv'
  <2>1. TypeOK'
    BY <1>6 DEF UpdateBegins, TypeOK, bEntity, Request, Entries, dbOpen,
       chanOpen, running
  <2>2. WriterHolds'
    BY <1>6 DEF UpdateBegins, TypeOK, WriterHolds
  <2>5. Halted'
    BY <1>6 DEF UpdateBegins, TypeOK, Halted, Fresh, running, dbOpen, chanOpen,
       Request
  <2>6. BufferBound'
    BY <1>6 DEF UpdateBegins, TypeOK, BufferBound
  <2>3. SendersAccountedFor'
    BY <1>6 DEF UpdateBegins, TypeOK, SendersAccountedFor, chanOpen
  <2>4. OneWriteTransaction'
    BY <1>6 DEF UpdateBegins, TypeOK, OneWriteTransaction, dbOpen
  <2> QED BY <2>1, <2>2, <2>3, <2>4, <2>5, <2>6
<1>7. ASSUME UpdateRefused PROVE IInv'
  <2>1. TypeOK'
    BY <1>7 DEF UpdateRefused, TypeOK, bEntity, Request, Entries, dbOpen,
       chanOpen, running
  <2>2. WriterHolds'
    BY <1>7 DEF UpdateRefused, TypeOK, WriterHolds
  <2>5. Halted'
    BY <1>7 DEF UpdateRefused, TypeOK, Halted, Fresh, running, dbOpen,
       chanOpen, Request
  <2>6. BufferBound'
    BY <1>7 DEF UpdateRefused, TypeOK, BufferBound
  <2>3. SendersAccountedFor'
    BY <1>7 DEF UpdateRefused, TypeOK, SendersAccountedFor, chanOpen
  <2>4. OneWriteTransaction'
    BY <1>7 DEF UpdateRefused, TypeOK, OneWriteTransaction, dbOpen
  <2> QED BY <2>1, <2>2, <2>3, <2>4, <2>5, <2>6
<1>8. ASSUME UpdateCommits PROVE IInv'
  <2>1. TypeOK'
    <3>1. data \in bEntity
      BY <1>8 DEF UpdateCommits, UpdateCanEnd, WriterHolds
    <3>2. baskets' \in SUBSET Buckets /\ disk' \in [Entries -> Values \cup {Missing}]
      BY <1>8, <3>1 DEF UpdateCommits, Stored, TypeOK, bEntity, Entries
    <3> QED BY <1>8, <3>2 DEF UpdateCommits, TypeOK
  <2>2. WriterHolds'
    BY <1>8 DEF UpdateCommits, Stored, TypeOK, WriterHolds
  <2>5. Halted'
    BY <1>8 DEF UpdateCommits, Stored, TypeOK, Halted, Fresh, running, dbOpen, Request,
       UpdateCanEnd, DeleteCanEnd
  <2>6. BufferBound'
    BY <1>8 DEF UpdateCommits, Stored, TypeOK, BufferBound
  <2>3. SendersAccountedFor'
    BY <1>8 DEF UpdateCommits, Stored, TypeOK, SendersAccountedFor, chanOpen, UpdateCanEnd,
       DeleteCanEnd
  <2>4. OneWriteTransaction'
    BY <1>8 DEF UpdateCommits, Stored, TypeOK, OneWriteTransaction, dbOpen, UpdateCanEnd,
       DeleteCanEnd
  <2> QED BY <2>1, <2>2, <2>3, <2>4, <2>5, <2>6
<1>22. ASSUME UpdateGrows PROVE IInv'
  <2>1. TypeOK'
    BY <1>22 DEF UpdateGrows, TypeOK, UpdateCanEnd, DeleteCanEnd
  <2>2. WriterHolds'
    BY <1>22 DEF UpdateGrows, TypeOK, WriterHolds
  <2>5. Halted'
    BY <1>22 DEF UpdateGrows, TypeOK, Halted, Fresh, running, dbOpen, Request,
       UpdateCanEnd, DeleteCanEnd
  <2>6. BufferBound'
    BY <1>22 DEF UpdateGrows, TypeOK, BufferBound
  <2>3. SendersAccountedFor'
    BY <1>22 DEF UpdateGrows, TypeOK, SendersAccountedFor, chanOpen, UpdateCanEnd,
       DeleteCanEnd
  <2>4. OneWriteTransaction'
    BY <1>22 DEF UpdateGrows, TypeOK, OneWriteTransaction, dbOpen, UpdateCanEnd,
       DeleteCanEnd
  <2> QED BY <2>1, <2>2, <2>3, <2>4, <2>5, <2>6
<1>23. ASSUME UpdateFails PROVE IInv'
  <2>1. TypeOK'
    <3>1. \A at \in Entries : (failed[at] \/ ~IsIn(chan, data.at)) \in BOOLEAN
      BY Zenon DEF TypeOK
    <3>2. failed' \in [Entries -> BOOLEAN]
      BY <1>23, <3>1 DEF UpdateFails, TypeOK
    <3> QED BY <1>23, <3>2 DEF UpdateFails, TypeOK
  <2>2. WriterHolds'
    BY <1>23 DEF UpdateFails, TypeOK, WriterHolds
  <2>5. Halted'
    BY <1>23 DEF UpdateFails, TypeOK, Halted, Fresh, running, dbOpen, Request,
       UpdateCanEnd, DeleteCanEnd
  <2>6. BufferBound'
    BY <1>23 DEF UpdateFails, TypeOK, BufferBound
  <2>3. SendersAccountedFor'
    BY <1>23 DEF UpdateFails, TypeOK, SendersAccountedFor, chanOpen, UpdateCanEnd,
       DeleteCanEnd
  <2>4. OneWriteTransaction'
    BY <1>23 DEF UpdateFails, TypeOK, OneWriteTransaction, dbOpen, UpdateCanEnd,
       DeleteCanEnd
  <2> QED BY <2>1, <2>2, <2>3, <2>4, <2>5, <2>6
<1>9. ASSUME NEW c \in Clients, NEW at \in Entries, DeleteBegins(c, at) PROVE IInv'
  <2>1. TypeOK'
    BY <1>9 DEF DeleteBegins, Call, TypeOK, bEntity, Request, Entries, dbOpen,
       chanOpen, running
  <2>2. WriterHolds'
    BY <1>9 DEF DeleteBegins, Call, TypeOK, WriterHolds
  <2>5. Halted'
    BY <1>9 DEF DeleteBegins, Call, TypeOK, Halted, Fresh, running, dbOpen,
       chanOpen, Request
  <2>6. BufferBound'
    BY <1>9 DEF DeleteBegins, Call, TypeOK, BufferBound
  <2>3. SendersAccountedFor'
    BY <1>9 DEF DeleteBegins, Call, TypeOK, SendersAccountedFor, chanOpen
  <2>4. OneWriteTransaction'
    BY <1>9 DEF DeleteBegins, Call, TypeOK, OneWriteTransaction, dbOpen
  <2> QED BY <2>1, <2>2, <2>3, <2>4, <2>5, <2>6
<1>10. ASSUME NEW c \in Clients, DeleteRefused(c) PROVE IInv'
  <2>1. TypeOK'
    BY <1>10 DEF DeleteRefused, Call, TypeOK, bEntity, Request, Entries,
       dbOpen, chanOpen, running
  <2>2. WriterHolds'
    BY <1>10 DEF DeleteRefused, Call, TypeOK, WriterHolds
  <2>5. Halted'
    BY <1>10 DEF DeleteRefused, Call, TypeOK, Halted, Fresh, running, dbOpen,
       chanOpen, Request
  <2>6. BufferBound'
    BY <1>10 DEF DeleteRefused, Call, TypeOK, BufferBound
  <2>3. SendersAccountedFor'
    BY <1>10 DEF DeleteRefused, Call, TypeOK, SendersAccountedFor, chanOpen
  <2>4. OneWriteTransaction'
    BY <1>10 DEF DeleteRefused, Call, TypeOK, OneWriteTransaction, dbOpen
  <2> QED BY <2>1, <2>2, <2>3, <2>4, <2>5, <2>6
<1>11. ASSUME NEW c \in Clients, DeleteCommits(c) PROVE IInv'
  <2>1. TypeOK'
    <3>1. IsIn(Pending, be[c].at) \in BOOLEAN
      BY Zenon DEF IsIn
    <3>2. late' \in [Entries -> BOOLEAN]
      BY <1>11, <3>1 DEF DeleteCommits, TypeOK
    <3> QED BY <1>11, <3>2 DEF DeleteCommits, DeleteReturns, TypeOK
  <2>2. WriterHolds'
    BY <1>11 DEF DeleteCommits, DeleteReturns, TypeOK, WriterHolds
  <2>5. Halted'
    BY <1>11 DEF DeleteCommits, DeleteReturns, TypeOK, Halted, Fresh, running, dbOpen, Request,
       UpdateCanEnd, DeleteCanEnd
  <2>6. BufferBound'
    BY <1>11 DEF DeleteCommits, DeleteReturns, TypeOK, BufferBound
  <2>3. SendersAccountedFor'
    BY <1>11 DEF DeleteCommits, DeleteReturns, TypeOK, SendersAccountedFor, chanOpen, UpdateCanEnd,
       DeleteCanEnd
  <2>4. OneWriteTransaction'
    BY <1>11 DEF DeleteCommits, DeleteReturns, TypeOK, OneWriteTransaction, dbOpen, UpdateCanEnd,
       DeleteCanEnd
  <2> QED BY <2>1, <2>2, <2>3, <2>4, <2>5, <2>6
<1>24. ASSUME NEW c \in Clients, DeleteGrows(c) PROVE IInv'
  <2>1. TypeOK'
    BY <1>24 DEF DeleteGrows, TypeOK, UpdateCanEnd, DeleteCanEnd
  <2>2. WriterHolds'
    BY <1>24 DEF DeleteGrows, TypeOK, WriterHolds
  <2>5. Halted'
    BY <1>24 DEF DeleteGrows, TypeOK, Halted, Fresh, running, dbOpen, Request,
       UpdateCanEnd, DeleteCanEnd
  <2>6. BufferBound'
    BY <1>24 DEF DeleteGrows, TypeOK, BufferBound
  <2>3. SendersAccountedFor'
    BY <1>24 DEF DeleteGrows, TypeOK, SendersAccountedFor, chanOpen, UpdateCanEnd,
       DeleteCanEnd
  <2>4. OneWriteTransaction'
    BY <1>24 DEF DeleteGrows, TypeOK, OneWriteTransaction, dbOpen, UpdateCanEnd,
       DeleteCanEnd
  <2> QED BY <2>1, <2>2, <2>3, <2>4, <2>5, <2>6
<1>25. ASSUME NEW c \in Clients, DeleteFails(c) PROVE IInv'
  <2>1. TypeOK'
    BY <1>25 DEF DeleteFails, DeleteReturns, TypeOK, UpdateCanEnd, DeleteCanEnd
  <2>2. WriterHolds'
    BY <1>25 DEF DeleteFails, DeleteReturns, TypeOK, WriterHolds
  <2>5. Halted'
    BY <1>25 DEF DeleteFails, DeleteReturns, TypeOK, Halted, Fresh, running, dbOpen, Request,
       UpdateCanEnd, DeleteCanEnd
  <2>6. BufferBound'
    BY <1>25 DEF DeleteFails, DeleteReturns, TypeOK, BufferBound
  <2>3. SendersAccountedFor'
    BY <1>25 DEF DeleteFails, DeleteReturns, TypeOK, SendersAccountedFor, chanOpen, UpdateCanEnd,
       DeleteCanEnd
  <2>4. OneWriteTransaction'
    BY <1>25 DEF DeleteFails, DeleteReturns, TypeOK, OneWriteTransaction, dbOpen, UpdateCanEnd,
       DeleteCanEnd
  <2> QED BY <2>1, <2>2, <2>3, <2>4, <2>5, <2>6
<1>26. ASSUME ReadLeavesOpen PROVE IInv'
  <2>1. TypeOK'
    BY <1>26 DEF ReadLeavesOpen, TypeOK, UpdateCanEnd, DeleteCanEnd
  <2>2. WriterHolds'
    BY <1>26 DEF ReadLeavesOpen, TypeOK, WriterHolds
  <2>5. Halted'
    BY <1>26 DEF ReadLeavesOpen, TypeOK, Halted, Fresh, running, dbOpen, Request,
       UpdateCanEnd, DeleteCanEnd
  <2>6. BufferBound'
    BY <1>26 DEF ReadLeavesOpen, TypeOK, BufferBound
  <2>3. SendersAccountedFor'
    BY <1>26 DEF ReadLeavesOpen, TypeOK, SendersAccountedFor, chanOpen, UpdateCanEnd,
       DeleteCanEnd
  <2>4. OneWriteTransaction'
    BY <1>26 DEF ReadLeavesOpen, TypeOK, OneWriteTransaction, dbOpen, UpdateCanEnd,
       DeleteCanEnd
  <2> QED BY <2>1, <2>2, <2>3, <2>4, <2>5, <2>6
<1>12. ASSUME NEW c \in Clients, DeletePanics(c) PROVE IInv'
  <2>1. TypeOK'
    BY <1>12 DEF DeletePanics, TypeOK, bEntity, Request, Entries, dbOpen,
       chanOpen, running
  <2>2. WriterHolds'
    BY <1>12 DEF DeletePanics, TypeOK, WriterHolds
  <2>5. Halted'
    BY <1>12 DEF DeletePanics, TypeOK, Halted, Fresh, running, dbOpen,
       chanOpen, Request
  <2>6. BufferBound'
    BY <1>12 DEF DeletePanics, TypeOK, BufferBound
  <2>3. SendersAccountedFor'
    BY <1>12 DEF DeletePanics, TypeOK, SendersAccountedFor, chanOpen
  <2>4. OneWriteTransaction'
    BY <1>12 DEF DeletePanics, TypeOK, OneWriteTransaction, dbOpen
  <2> QED BY <2>1, <2>2, <2>3, <2>4, <2>5, <2>6
<1>13. ASSUME NEW c \in Clients, Recover(c) PROVE IInv'
  <2>1. TypeOK'
    BY <1>13 DEF Recover, TypeOK, bEntity, Request, Entries, dbOpen, chanOpen,
       running
  <2>2. WriterHolds'
    BY <1>13 DEF Recover, TypeOK, WriterHolds
  <2>5. Halted'
    BY <1>13 DEF Recover, TypeOK, Halted, Fresh, running, dbOpen, chanOpen,
       Request
  <2>6. BufferBound'
    BY <1>13 DEF Recover, TypeOK, BufferBound
  <2>3. SendersAccountedFor'
    BY <1>13 DEF Recover, TypeOK, SendersAccountedFor, chanOpen
  <2>4. OneWriteTransaction'
    BY <1>13 DEF Recover, TypeOK, OneWriteTransaction, dbOpen
  <2> QED BY <2>1, <2>2, <2>3, <2>4, <2>5, <2>6
<1>14. ASSUME CloseChan PROVE IInv'
  <2>1. TypeOK'
    BY <1>14 DEF CloseChan, TypeOK, bEntity, Request, Entries, dbOpen,
       chanOpen, running
  <2>2. WriterHolds'
    BY <1>14 DEF CloseChan, TypeOK, WriterHolds
  <2>5. Halted'
    BY <1>14 DEF CloseChan, TypeOK, Halted, Fresh, running, dbOpen, chanOpen,
       Request
  <2>6. BufferBound'
    BY <1>14 DEF CloseChan, TypeOK, BufferBound
  <2>3. SendersAccountedFor'
    BY <1>14 DEF CloseChan, TypeOK, SendersAccountedFor, chanOpen
  <2>4. OneWriteTransaction'
    BY <1>14 DEF CloseChan, TypeOK, OneWriteTransaction, dbOpen
  <2> QED BY <2>1, <2>2, <2>3, <2>4, <2>5, <2>6
<1>15. ASSUME CloseDB PROVE IInv'
  <2>1. TypeOK'
    BY <1>15 DEF CloseDB, TypeOK, bEntity, Request, Entries, dbOpen, chanOpen,
       running
  <2>2. WriterHolds'
    BY <1>15 DEF CloseDB, TypeOK, WriterHolds
  <2>5. Halted'
    BY <1>15 DEF CloseDB, TypeOK, Halted, Fresh, running, dbOpen, chanOpen,
       Request
  <2>6. BufferBound'
    BY <1>15 DEF CloseDB, TypeOK, BufferBound
  <2>3. SendersAccountedFor'
    BY <1>15 DEF CloseDB, TypeOK, SendersAccountedFor, chanOpen
  <2>4. OneWriteTransaction'
    BY <1>15 DEF CloseDB, TypeOK, OneWriteTransaction, dbOpen
  <2> QED BY <2>1, <2>2, <2>3, <2>4, <2>5, <2>6
<1>16. ASSUME Exit PROVE IInv'
  <2>1. TypeOK'
    BY <1>h, <1>16 DEF Exit, TypeOK
  <2>2. WriterHolds'
    BY <1>16 DEF Exit, Halt, Fresh, TypeOK, WriterHolds
  <2>5. Halted'
    BY <1>16 DEF Exit, Halt, Fresh, TypeOK, Halted, running, dbOpen, chanOpen,
       Request
  <2>6. BufferBound'
    BY <1>16 DEF Exit, Halt, Fresh, TypeOK, BufferBound
  <2>3. SendersAccountedFor'
    BY <1>16 DEF Exit, Halt, Fresh, TypeOK, SendersAccountedFor, chanOpen
  <2>4. OneWriteTransaction'
    BY <1>16 DEF Exit, Halt, Fresh, TypeOK, OneWriteTransaction, dbOpen
  <2> QED BY <2>1, <2>2, <2>3, <2>4, <2>5, <2>6
<1>17. ASSUME Crash PROVE IInv'
  <2>1. TypeOK'
    BY <1>h, <1>17 DEF Crash, TypeOK
  <2>2. WriterHolds'
    BY <1>17 DEF Crash, Halt, Fresh, TypeOK, WriterHolds
  <2>5. Halted'
    BY <1>17 DEF Crash, Halt, Fresh, TypeOK, Halted, running, dbOpen, chanOpen,
       Request
  <2>6. BufferBound'
    BY <1>17 DEF Crash, Halt, Fresh, TypeOK, BufferBound
  <2>3. SendersAccountedFor'
    BY <1>17 DEF Crash, Halt, Fresh, TypeOK, SendersAccountedFor, chanOpen
  <2>4. OneWriteTransaction'
    BY <1>17 DEF Crash, Halt, Fresh, TypeOK, OneWriteTransaction, dbOpen
  <2> QED BY <2>1, <2>2, <2>3, <2>4, <2>5, <2>6
<1>18. ASSUME UpdateFaults PROVE IInv'
  <2>1. TypeOK'
    <3>1. data \in bEntity
      BY <1>18 DEF UpdateFaults, WriterHolds
    <3>2. baskets' \in SUBSET Buckets /\ disk' \in [Entries -> Values \cup {Missing}]
      BY <1>18, <3>1 DEF UpdateFaults, Stored, TypeOK, bEntity, Entries
    <3> QED BY <1>h, <1>18, <3>2 DEF UpdateFaults
  <2>2. WriterHolds'
    BY <1>18 DEF UpdateFaults, Stored, Halt, Fresh, TypeOK, WriterHolds
  <2>5. Halted'
    BY <1>18 DEF UpdateFaults, Stored, Halt, Fresh, TypeOK, Halted, running,
       dbOpen, chanOpen, Request
  <2>6. BufferBound'
    BY <1>18 DEF UpdateFaults, Stored, Halt, Fresh, TypeOK, BufferBound
  <2>3. SendersAccountedFor'
    BY <1>18 DEF UpdateFaults, Stored, Halt, Fresh, TypeOK,
       SendersAccountedFor, chanOpen
  <2>4. OneWriteTransaction'
    BY <1>18 DEF UpdateFaults, Stored, Halt, Fresh, TypeOK,
       OneWriteTransaction, dbOpen
  <2> QED BY <2>1, <2>2, <2>3, <2>4, <2>5, <2>6
<1>19. ASSUME NEW c \in Clients, DeleteFaults(c) PROVE IInv'
  <2>1. TypeOK'
    <3>1. disk' \in [Entries -> Values \cup {Missing}]
      BY <1>19 DEF DeleteFaults, TypeOK
    <3>2. CASE Halt("crashed")
      BY <1>h, <3>1, <3>2, <1>19 DEF DeleteFaults, TypeOK
    <3>3. CASE ~Halt("crashed")
      BY <3>1, <3>3, <1>19 DEF DeleteFaults, TypeOK
    <3> QED BY <3>2, <3>3
  <2>2. WriterHolds'
    BY <1>19 DEF DeleteFaults, Halt, Fresh, TypeOK, WriterHolds
  <2>5. Halted'
    BY <1>19 DEF DeleteFaults, Halt, Fresh, TypeOK, Halted, running, dbOpen,
       chanOpen, Request
  <2>6. BufferBound'
    BY <1>19 DEF DeleteFaults, Halt, Fresh, TypeOK, BufferBound
  <2>3. SendersAccountedFor'
    BY <1>19 DEF DeleteFaults, Halt, Fresh, TypeOK, SendersAccountedFor,
       chanOpen
  <2>4. OneWriteTransaction'
    BY <1>19 DEF DeleteFaults, Halt, Fresh, TypeOK, OneWriteTransaction, dbOpen
  <2> QED BY <2>1, <2>2, <2>3, <2>4, <2>5, <2>6
<1>20. ASSUME Restart PROVE IInv'
  <2>1. TypeOK'
    BY <1>20 DEF Restart, TypeOK, bEntity, Request, Entries, dbOpen, chanOpen,
       running
  <2>2. WriterHolds'
    BY <1>20 DEF Restart, TypeOK, WriterHolds
  <2>5. Halted'
    BY <1>20 DEF Restart, TypeOK, Halted, Fresh, running, dbOpen, chanOpen,
       Request
  <2>6. BufferBound'
    BY <1>20 DEF Restart, TypeOK, BufferBound
  <2>3. SendersAccountedFor'
    BY <1>20 DEF Restart, TypeOK, SendersAccountedFor, chanOpen
  <2>4. OneWriteTransaction'
    BY <1>20 DEF Restart, TypeOK, OneWriteTransaction, Halted, Fresh, dbOpen,
       running
  <2> QED BY <2>1, <2>2, <2>3, <2>4, <2>5, <2>6
<1>21. CASE UNCHANGED vars
  BY <1>21 DEF vars, TypeOK, BufferBound, WriterHolds, Halted, Fresh, running,
     SendersAccountedFor, OneWriteTransaction, dbOpen, chanOpen
<1> QED
  BY <1>1, <1>2, <1>3, <1>4, <1>5, <1>6, <1>7, <1>8, <1>9, <1>10, <1>11, <1>12,
     <1>13, <1>14, <1>15, <1>16, <1>17, <1>18, <1>19, <1>20, <1>21, <1>22, <1>23,
     <1>24, <1>25, <1>26
     DEF Next, WriterStep, ClientStep, DeleteStep
-----------------------------------------------------------------------------
(* The theorems *)

LEMMA Invariance == Spec => []IInv
BY InitInvariant, StepInvariant, PTL DEF Spec

\* Every state of every behaviour has its type.
THEOREM TypeCorrect == Spec => []TypeOK
<1>1. IInv => TypeOK
  BY DEF IInv
<1> QED BY <1>1, Invariance, PTL

\* The channel forgets no sender, and senders wait on a full buffer only.
LEMMA SendersNotForgotten == Spec => []SendersAccountedFor
<1>1. IInv => SendersAccountedFor
  BY DEF IInv
<1> QED BY <1>1, Invariance, PTL

\* Read-write transactions exclude one another.
THEOREM WritersExclude == Spec => []OneWriteTransaction
<1>1. IInv => OneWriteTransaction
  BY DEF IInv
<1> QED BY <1>1, Invariance, PTL

-----------------------------------------------------------------------------
(* Every step is one of Backpacker's, together with what it records. *)

Accepts == \E e \in bEntity : Promise!Accept(e) /\ Acknowledge(e)

Settles == Promise!Settle /\ UNCHANGED history

Drops == LET at == Head(Pending).at IN
         /\ Promise!Drop /\ dbOpen
         /\ failed' = [failed EXCEPT ![at] = @ \/ ~IsIn(Tail(Pending), at)]
         /\ UNCHANGED <<dbOpen, expect, late>>

Deletes == \E at \in Entries :
             /\ Promise!Remove(at)
             /\ expect' = [expect EXCEPT ![at] = Missing]
             /\ late' = [late EXCEPT ![at] = IsIn(Pending, at)]
             /\ failed' = [failed EXCEPT ![at] = FALSE]

\* A Delete that failed and returned nil.
Forgets == \E at \in Entries :
             /\ expect' = [expect EXCEPT ![at] = Missing]
             /\ failed' = [failed EXCEPT ![at] = TRUE]
             /\ UNCHANGED <<Pending, disk, dbOpen, Jammed, late>>

Jams == Promise!Jam /\ UNCHANGED history

Quiet == UNCHANGED <<Pending, disk, dbOpen, Jammed, history>>

\* Steps into or within a state whose database is not open.
Closed == /\ ~dbOpen'
          /\ \/ Promise!Shut \/ Promise!Drop \/ Promise!Die
             \/ UNCHANGED <<Pending, disk, dbOpen, Jammed>>
             \/ \E at \in Entries : Promise!LateRemove(at)

Reopens == /\ Promise!Reopen
           /\ expect' = disk
           /\ late' = [at \in Entries |-> FALSE]

StepKind == Accepts \/ Settles \/ Drops \/ Deletes \/ Forgets \/ Jams \/ Quiet
            \/ Closed \/ Reopens

\* Who grows the file holds the writer lock.
LEMMA GrowerHolds ==
  ASSUME IInv, Growing
  PROVE  /\ wpc = "grow" => rwlock = "Writer"
         /\ \A c \in Clients : pc[c] = "grow" => rwlock = c
         /\ rwlock # Nobody
         /\ rwlock = "Writer" => wpc = "grow"
         /\ \A c \in Clients : rwlock = c => pc[c] = "grow"
BY NamesAssumption DEF IInv, OneWriteTransaction, Growing, Updating, Deleting

LEMMA StepKinds == IInv /\ [Next]_vars => StepKind
<1> SUFFICES ASSUME IInv, [Next]_vars
             PROVE  StepKind
  OBVIOUS
<1> USE NamesAssumption DEF StepKind, disks, history, writer, Jammed
<1>a. IInv'
  BY StepInvariant
<1>b. (rwlock = Nobody => ~Jammed) /\ (rwlock' = Nobody => ~Jammed')
  BY <1>a DEF IInv, OneWriteTransaction, Jammed, Growing, Updating, Deleting
<1>c. wpc \in {"commit", "grow"} /\ Growing => wpc = "grow"
  BY GrowerHolds DEF IInv, OneWriteTransaction, Updating
<1>d. \A c \in Clients : pc[c] \in {"delete", "grow"} /\ Growing => pc[c] = "grow"
  BY GrowerHolds DEF IInv, OneWriteTransaction, Deleting
<1>1. ASSUME NEW c \in Clients, NEW e \in bEntity, InsertSends(c, e) PROVE Accepts
  BY <1>1 DEF InsertSends, Accepts, Promise!Accept, Pending, IInv, TypeOK,
     WriterHolds, dbOpen, Jammed, Growing
<1>2. ASSUME NEW c \in Clients, NEW e \in bEntity, InsertBlocks(c, e) PROVE Quiet
  <2>1. Growing' <=> Growing
    BY <1>2 DEF InsertBlocks, Call, Growing, IInv, TypeOK
  <2> QED BY <1>2, <2>1 DEF InsertBlocks, Quiet, Pending, dbOpen, Jammed
<1>3. ASSUME NEW c \in Clients, InsertPanics(c) PROVE Quiet
  <2>1. Growing' <=> Growing
    BY <1>3 DEF InsertPanics, Call, Growing, IInv, TypeOK
  <2> QED BY <1>3, <2>1 DEF InsertPanics, Quiet, Pending, dbOpen, Jammed
<1>4. ASSUME Receive PROVE StepKind
  <2>1. chan # <<>> /\ chan \in Seq(bEntity) /\ wpc = "recv" /\ wpc' = "update"
        /\ data' = Head(chan) /\ UNCHANGED <<proc, disk, leaked>>
    BY <1>4 DEF Receive, IInv, TypeOK
  <2>2. Pending = chan
    BY <2>1 DEF Pending
  <2>3. <<Head(chan)>> \o Tail(chan) = chan
    BY <2>1
  <2>4. CASE sendq = <<>>
    <3>1. Pending' = <<Head(chan)>> \o Tail(chan) /\ UNCHANGED <<pc, history>>
      BY <1>4, <2>1, <2>4 DEF Receive, Pending
    <3>2. Jammed' <=> Jammed
      BY <2>1, <3>1 DEF Jammed, Growing
    <3> QED BY <2>1, <2>2, <2>3, <3>1, <3>2 DEF Quiet, dbOpen
  <2>5. CASE sendq # <<>>
    <3> DEFINE e == be[Head(sendq)]
    <3>1. 1 \in DOMAIN sendq /\ Head(sendq) = sendq[1] /\ Head(sendq) \in Clients
      BY <2>5 DEF IInv, TypeOK
    <3>2. e \in bEntity /\ pc[Head(sendq)] = "send"
      BY <3>1 DEF IInv, SendersAccountedFor
    <3>3. chan' = Append(Tail(chan), e) /\ Acknowledge(e)
          /\ pc' = [pc EXCEPT ![Head(sendq)] = "idle"]
      BY <1>4, <2>5 DEF Receive
    <3>4. Pending' = <<Head(chan)>> \o Append(Tail(chan), e)
      BY <2>1, <3>3 DEF Pending
    <3>6. Jammed' <=> Jammed
      BY <2>1, <3>2, <3>3 DEF Jammed, Growing, IInv, TypeOK
    <3> HIDE DEF e
    <3>5. <<Head(chan)>> \o Append(Tail(chan), e) = Append(chan, e)
      BY <2>1, <3>2
    <3> QED BY <2>1, <2>2, <3>2, <3>3, <3>4, <3>5, <3>6 DEF Accepts,
       Promise!Accept, dbOpen
  <2> QED BY <2>4, <2>5
<1>5. ASSUME WriterEnds PROVE Quiet
  BY <1>5 DEF WriterEnds, Quiet, Pending, dbOpen, Jammed, Growing
<1>6. ASSUME UpdateBegins PROVE Quiet
  BY <1>6 DEF UpdateBegins, Quiet, Pending, dbOpen, Jammed, Growing
<1>7. ASSUME wpc \in {"update", "commit", "grow"}
      PROVE  /\ Pending # <<>> /\ Head(Pending) = data /\ Tail(Pending) = chan
  BY <1>7 DEF Pending, IInv, TypeOK, WriterHolds
<1>8. ASSUME UpdateRefused PROVE Closed
  BY <1>7, <1>8, <1>b DEF UpdateRefused, Closed, Promise!Drop, Pending, dbOpen
<1>e. UpdateCanEnd => ~Jammed /\ wpc \in {"commit", "grow"} /\ dbOpen
  BY <1>c DEF UpdateCanEnd, Jammed
<1>9. ASSUME UpdateCommits PROVE Settles
  <2>1. rwlock' = Nobody /\ UpdateCanEnd
    BY <1>9 DEF UpdateCommits
  <2> QED BY <1>7, <1>9, <1>b, <1>e, <2>1 DEF UpdateCommits, Stored, Settles,
     Promise!Settle, Promise!Settled, Pending, dbOpen
<1>24. ASSUME UpdateFails PROVE Drops
  <2>1. rwlock' = Nobody /\ UpdateCanEnd
    BY <1>24 DEF UpdateFails
  <2> QED BY <1>7, <1>24, <1>b, <1>e, <2>1 DEF UpdateFails, Drops, Promise!Drop,
     Pending, dbOpen
<1>25. ASSUME UpdateGrows PROVE Jams \/ Quiet
  <2>1. dbOpen /\ dbOpen' /\ wpc = "commit" /\ wpc' = "grow"
        /\ UNCHANGED <<Pending, disk, dbOpen, leaked, history>>
    BY <1>25 DEF UpdateGrows, Pending, dbOpen
  <2>2. ~Jammed /\ Jammed' = leaked
    BY <1>c, <2>1 DEF Jammed, Growing, IInv, TypeOK
  <2> QED BY <2>1, <2>2 DEF Jams, Quiet, Promise!Jam, IInv, TypeOK
<1>10. ASSUME UpdateFaults PROVE Closed
  <2>1. ~Jammed'
    BY <1>10 DEF UpdateFaults, Halt, Jammed
  <2> QED BY <1>7, <1>10, <2>1 DEF UpdateFaults, Stored, Halt, Closed, Promise!Die,
     Promise!Settled, Pending, dbOpen
<1>11. ASSUME NEW c \in Clients, NEW at \in Entries, DeleteBegins(c, at) PROVE Quiet
  <2>1. Growing' <=> Growing
    BY <1>11 DEF DeleteBegins, Call, Growing, IInv, TypeOK
  <2> QED BY <1>11, <2>1 DEF DeleteBegins, Quiet, Pending, dbOpen, Jammed
<1>12. ASSUME NEW c \in Clients, DeleteRefused(c) PROVE Quiet
  BY <1>12 DEF DeleteRefused, Quiet, Pending, dbOpen, Jammed, Growing
<1>13. ASSUME NEW c \in Clients, Deleting(c) PROVE be[c].at \in Entries
  BY <1>13 DEF IInv, Halted, Request
<1>f. ASSUME NEW c \in Clients, DeleteCanEnd(c)
      PROVE  ~Jammed /\ dbOpen /\ be[c].at \in Entries
  BY <1>d, <1>f, <1>13 DEF DeleteCanEnd, Jammed, Deleting
<1>14. ASSUME NEW c \in Clients, DeleteCommits(c) PROVE Deletes
  <2>1. rwlock' = Nobody /\ DeleteCanEnd(c)
    BY <1>14 DEF DeleteCommits, DeleteReturns
  <2>2. ~Jammed /\ ~Jammed' /\ dbOpen /\ be[c].at \in Entries
    BY <1>b, <1>f, <2>1
  <2> QED BY <1>14, <2>2 DEF DeleteCommits, DeleteReturns, Deletes,
     Promise!Remove, Pending, dbOpen
<1>26. ASSUME NEW c \in Clients, DeleteFails(c) PROVE Forgets
  <2>1. rwlock' = Nobody /\ DeleteCanEnd(c)
    BY <1>26 DEF DeleteFails, DeleteReturns
  <2>2. ~Jammed /\ ~Jammed' /\ dbOpen /\ be[c].at \in Entries
    BY <1>b, <1>f, <2>1
  <2> QED BY <1>26, <2>2 DEF DeleteFails, DeleteReturns, Forgets, Pending, dbOpen
<1>27. ASSUME NEW c \in Clients, DeleteGrows(c) PROVE Jams \/ Quiet
  <2>1. dbOpen /\ pc[c] = "delete" /\ pc'[c] = "grow"
        /\ UNCHANGED <<Pending, disk, dbOpen, leaked, history>>
    BY <1>27 DEF DeleteGrows, Pending, dbOpen, IInv, TypeOK
  <2>2. ~Jammed /\ Jammed' = leaked
    BY <1>d, <2>1 DEF Jammed, Growing, IInv, TypeOK
  <2> QED BY <2>1, <2>2 DEF Jams, Quiet, Promise!Jam, IInv, TypeOK
<1>15. ASSUME NEW c \in Clients, DeletePanics(c) PROVE Quiet
  <2>1. rwlock' = Nobody /\ DeleteCanEnd(c)
    BY <1>15 DEF DeletePanics, DeleteCanEnd
  <2>2. ~Jammed /\ ~Jammed'
    BY <1>b, <1>f, <2>1
  <2> QED BY <1>15, <2>2 DEF DeletePanics, Quiet, Pending, dbOpen
<1>16. ASSUME NEW c \in Clients, DeleteFaults(c) PROVE Closed
  <2>1. Deleting(c) /\ be[c].at \in Entries /\ ~dbOpen /\ ~Jammed
    BY <1>d, <1>13, <1>16 DEF DeleteFaults, Deleting, dbOpen, Jammed
  <2>2. CASE Halt("crashed")
    <3>1. ~Jammed'
      BY <2>2 DEF Halt, Jammed
    <3> QED BY <1>16, <2>1, <2>2, <3>1 DEF DeleteFaults, Halt, Closed,
       Promise!Die, Pending, dbOpen
  <2>3. CASE ~Halt("crashed")
    <3>1. UNCHANGED <<proc, chan, wpc, data, leaked>>
          /\ pc' = [pc EXCEPT ![c] = "panicked"]
      BY <1>16, <2>3 DEF DeleteFaults
    <3>2. ~Jammed'
      BY <2>1, <3>1 DEF Jammed, Growing, IInv, TypeOK
    <3> QED BY <1>16, <2>1, <3>1, <3>2 DEF DeleteFaults, Closed,
       Promise!LateRemove, Pending, dbOpen
  <2> QED BY <2>2, <2>3
<1>17. ASSUME NEW c \in Clients, Recover(c) PROVE Quiet
  <2>1. Growing' <=> Growing
    BY <1>17 DEF Recover, Growing, IInv, TypeOK
  <2> QED BY <1>17, <2>1 DEF Recover, Quiet, Pending, dbOpen, Jammed
<1>28. ASSUME ReadLeavesOpen PROVE Quiet
  BY <1>28 DEF ReadLeavesOpen, Quiet, Pending, dbOpen, Jammed, Growing
<1>18. ASSUME CloseChan PROVE Quiet
  <2>1. Growing' <=> Growing
    BY <1>18 DEF CloseChan, Growing, IInv, TypeOK
  <2> QED BY <1>18, <2>1 DEF CloseChan, Quiet, Pending, dbOpen, Jammed
<1>19. ASSUME CloseDB PROVE Closed
  BY <1>19 DEF CloseDB, Closed, Promise!Shut, Pending, dbOpen, Jammed, Growing
<1>20. ASSUME Exit PROVE Closed
  BY <1>20 DEF Exit, Halt, Closed, Promise!Die, Pending, dbOpen, Jammed
<1>21. ASSUME Crash PROVE Closed
  BY <1>21 DEF Crash, Halt, Closed, Promise!Die, Pending, dbOpen, Jammed
<1>22. ASSUME Restart PROVE Reopens
  <2>1. ~Jammed'
    BY <1>22 DEF Restart, Jammed, IInv, Halted, running
  <2> QED BY <1>22, <2>1 DEF Restart, Reopens, Promise!Reopen, Pending, dbOpen,
     IInv, Halted, running
<1>23. CASE UNCHANGED vars
  BY <1>23 DEF vars, Quiet, Pending, dbOpen, Jammed, Growing
<1> QED
  BY <1>1, <1>2, <1>3, <1>4, <1>5, <1>6, <1>8, <1>9, <1>10, <1>11, <1>12, <1>14,
     <1>15, <1>16, <1>17, <1>18, <1>19, <1>20, <1>21, <1>22, <1>23, <1>24, <1>25,
     <1>26, <1>27, <1>28
     DEF Next, WriterStep, ClientStep, DeleteStep

\* Accepting the entity e: it goes to the end of what is pending, and the
\* history records it.
LEMMA AcceptStep ==
  ASSUME IInv, NEW e \in bEntity, Pending' = Append(Pending, e),
         Acknowledge(e), UNCHANGED <<disk, dbOpen>>, LastCallSettles
  PROVE  LastCallSettles'
<1>1. Pending \in Seq(bEntity)
  BY DEF IInv, TypeOK, WriterHolds, Pending
<1>2. SUFFICES ASSUME dbOpen, NEW at \in Entries, ~late'[at], ~failed'[at]
               PROVE  SettlesIn(Append(Pending, e), disk, at, expect'[at])
  BY DEF LastCallSettles
<1>3. CASE at = e.at
  <2>1. expect'[at] = e.data
    BY <1>3 DEF Acknowledge, IInv, TypeOK
  <2> QED BY <1>1, <1>3, <2>1, AppendDecides
<1>4. CASE at # e.at
  <2>1. /\ expect'[at] = expect[at] /\ late'[at] = late[at]
        /\ failed'[at] = failed[at]
    BY <1>4 DEF Acknowledge, IInv, TypeOK
  <2>2. SettlesIn(Pending, disk, at, expect[at])
    BY <1>2, <2>1 DEF LastCallSettles
  <2> QED BY <1>1, <1>4, <2>1, <2>2, AppendDecides
<1> QED BY <1>3, <1>4

LEMMA InitLastCall == Init => LastCallSettles
BY DEF Init, LastCallSettles, SettlesIn, IsIn, Pending

LEMMA StepLastCall == IInv /\ LastCallSettles /\ [Next]_vars => LastCallSettles'
<1> SUFFICES ASSUME IInv, LastCallSettles, StepKind
             PROVE  LastCallSettles'
  BY StepKinds
<1>0. Pending \in Seq(bEntity)
  BY DEF IInv, TypeOK, WriterHolds, Pending
<1>1. CASE Accepts
  <2>1. PICK e \in bEntity : Promise!Accept(e) /\ Acknowledge(e)
    BY <1>1 DEF Accepts
  <2> QED BY <2>1, AcceptStep DEF Promise!Accept
<1>2. CASE Settles
  <2>1. ASSUME NEW at \in Entries, ~late[at], ~failed[at]
        PROVE  SettlesIn(Pending', disk', at, expect[at])
    <3>1. SettlesIn(Pending, disk, at, expect[at])
      BY <1>2, <2>1 DEF LastCallSettles, Settles, Promise!Settle
    <3> QED BY <1>0, <1>2, <3>1, SettlingDecides
         DEF Settles, Promise!Settle, Promise!Settled, IInv, TypeOK
  <2> QED BY <1>2, <2>1 DEF LastCallSettles, Settles, history
<1>7. CASE Drops
  <2> DEFINE h == Head(Pending)
  <2>1. /\ Pending # <<>> /\ Pending' = Tail(Pending) /\ UNCHANGED <<disk, expect, late>>
        /\ failed' = [failed EXCEPT ![h.at] = @ \/ ~IsIn(Tail(Pending), h.at)]
        /\ dbOpen
    BY <1>7 DEF Drops, Promise!Drop
  <2>2. h \in bEntity
    BY <1>0, <2>1
  <2>a. h.at \in Entries
    BY <2>2 DEF bEntity
  <2>3. ASSUME NEW at \in Entries, ~late[at], ~failed'[at]
        PROVE  SettlesIn(Pending', disk, at, expect[at])
    <3>1. ~failed[at] /\ (h.at # at \/ IsIn(Tail(Pending), at))
      BY <2>1, <2>a, <2>3 DEF IInv, TypeOK
    <3>2. SettlesIn(Pending, disk, at, expect[at])
      BY <2>1, <2>3, <3>1 DEF LastCallSettles
    <3> QED BY <1>0, <2>1, <3>1, <3>2, DroppingDecides
  <2> QED BY <2>1, <2>3 DEF LastCallSettles
<1>3. CASE Deletes
  <2>1. PICK at \in Entries :
          /\ Promise!Remove(at)
          /\ expect' = [expect EXCEPT ![at] = Missing]
          /\ late' = [late EXCEPT ![at] = IsIn(Pending, at)]
          /\ failed' = [failed EXCEPT ![at] = FALSE]
    BY <1>3 DEF Deletes
  <2>2. Pending' = Pending /\ disk' = [disk EXCEPT ![at] = Missing] /\ dbOpen
    BY <2>1 DEF Promise!Remove
  <2>3. ASSUME NEW x \in Entries, ~late'[x], ~failed'[x]
        PROVE  SettlesIn(Pending, disk', x, expect'[x])
    <3>1. CASE x = at
      <4>1. ~IsIn(Pending, at) /\ disk'[at] = Missing /\ expect'[at] = Missing
        BY <2>1, <2>2, <2>3, <3>1 DEF IInv, TypeOK
      <4> QED BY <3>1, <4>1 DEF SettlesIn
    <3>2. CASE x # at
      <4>1. ~late[x] /\ ~failed[x] /\ disk'[x] = disk[x] /\ expect'[x] = expect[x]
        BY <2>1, <2>2, <2>3, <3>2 DEF IInv, TypeOK
      <4> QED BY <2>2, <4>1 DEF LastCallSettles, SettlesIn
    <3> QED BY <3>1, <3>2
  <2> QED BY <2>2, <2>3 DEF LastCallSettles
<1>8. CASE Forgets
  <2>1. PICK at \in Entries :
          /\ expect' = [expect EXCEPT ![at] = Missing]
          /\ failed' = [failed EXCEPT ![at] = TRUE]
          /\ UNCHANGED <<Pending, disk, dbOpen, Jammed, late>>
    BY <1>8 DEF Forgets
  <2>2. failed'[at]
    BY <2>1 DEF IInv, TypeOK
  <2>3. \A x \in Entries : x # at => failed'[x] = failed[x] /\ expect'[x] = expect[x]
    BY <2>1 DEF IInv, TypeOK
  <2> QED BY <2>1, <2>2, <2>3 DEF LastCallSettles
<1>9. CASE Jams
  BY <1>9 DEF Jams, Promise!Jam, LastCallSettles, history
<1>4. CASE Quiet
  BY <1>4 DEF Quiet, LastCallSettles, history
<1>5. CASE Closed
  BY <1>5 DEF Closed, LastCallSettles
<1>6. CASE Reopens
  BY <1>6 DEF Reopens, Promise!Reopen, LastCallSettles, SettlesIn, IsIn
<1> QED BY <1>1, <1>2, <1>3, <1>4, <1>5, <1>6, <1>7, <1>8, <1>9 DEF StepKind

\* The queue and the disk together hold what the last completed call on each
\* entry asked for, unless that call was a Delete that overtook an Insert, or
\* its update or its Delete failed, which the code logs and tells nobody: a
\* failure loses the entry it was about and no other.
THEOREM LastCallWins == Spec => []LastCallSettles
<1>1. Init => LastCallSettles
  BY InitLastCall
<1> QED BY <1>1, StepLastCall, Invariance, PTL DEF Spec

\* The write-behind store keeps Backpacker's promise: it implements
\* WriteBehind, with the Writer's hand and the channel as the pending writes,
\* failed updates, failed Deletes and reads left open included.
THEOREM RucksackKeepsOrder == Spec => KeepsOrder
<1>1. Init => Promise!Init
  <2>1. Init => ~Jammed
    BY DEF Init, Jammed
  <2>2. Init => Pending = <<>> /\ dbOpen /\ disk = [e \in Entries |-> Missing]
    BY DEF Init, Pending, dbOpen
  <2> QED BY <2>1, <2>2 DEF Promise!Init
<1>2. IInv /\ [Next]_vars => [Promise!Next]_(Promise!wbvars)
  <2> SUFFICES ASSUME IInv, StepKind
               PROVE  Promise!Next \/ UNCHANGED Promise!wbvars
    BY StepKinds
  <2>1. Promise!Write = bEntity
    BY DEF Promise!Write, bEntity
  <2> QED BY <2>1 DEF StepKind, Accepts, Settles, Drops, Deletes, Forgets, Jams,
     Quiet, Closed, Reopens, Promise!Next, Promise!wbvars
<1> QED BY <1>1, <1>2, Invariance, PTL DEF Spec, KeepsOrder, Promise!Safety

-----------------------------------------------------------------------------
(* What SendReturns rests on besides fairness.                             *)

\* The range loop of Writer ends only after close(r.writerChan), and only a
\* Delete that found its bucket grows the file.
EndedClosed == wpc = "ended" => ~chanOpen
GrowsInBasket == \A c \in Clients : pc[c] = "grow" => be[c].at[1] \in baskets
Served == EndedClosed /\ GrowsInBasket

LEMMA StepServed == IInv /\ Served /\ [Next]_vars => Served'
<1> SUFFICES ASSUME IInv, Served, [Next]_vars PROVE Served'
  OBVIOUS
<1> USE DEF Served, EndedClosed, GrowsInBasket, chanOpen, disks, history, writer
<1>1. CASE Receive
  <2>1. \A c \in Clients : pc'[c] = "grow" => pc[c] = "grow"
    BY <1>1 DEF Receive, IInv, TypeOK
  <2> QED BY <1>1, <2>1 DEF Receive
<1>2. CASE WriterEnds \/ UpdateBegins \/ UpdateRefused \/ UpdateGrows
           \/ UpdateCommits \/ UpdateFails
  BY <1>2 DEF WriterEnds, UpdateBegins, UpdateRefused, UpdateGrows,
     UpdateCommits, Stored, UpdateFails
<1>3. ASSUME NEW how \in {"exited", "crashed"}, Halt(how)
      PROVE  Served'
  BY <1>3 DEF Halt, Fresh
<1>4. CASE UpdateFaults \/ Exit \/ Crash
  BY <1>3, <1>4 DEF UpdateFaults, Exit, Crash
<1>5. ASSUME NEW c \in Clients, ClientStep(c) PROVE Served'
  <2>1. ASSUME NEW e \in bEntity, InsertSends(c, e) \/ InsertBlocks(c, e)
        PROVE  Served'
    BY <2>1 DEF InsertSends, InsertBlocks, Call, IInv, TypeOK
  <2>2. ASSUME NEW at \in Entries, DeleteBegins(c, at)
        PROVE  Served'
    BY <2>2 DEF DeleteBegins, Call, IInv, TypeOK
  <2>3. CASE InsertPanics(c) \/ DeleteRefused(c) \/ DeletePanics(c) \/ Recover(c)
    BY <2>3 DEF InsertPanics, DeleteRefused, DeletePanics, Recover, Call, IInv,
       TypeOK
  <2>4. CASE DeleteGrows(c) \/ DeleteCommits(c) \/ DeleteFails(c)
    BY <2>4 DEF DeleteGrows, DeleteCommits, DeleteFails, DeleteReturns, IInv,
       TypeOK
  <2>5. CASE DeleteFaults(c)
    <3>1. CASE ~Halt("crashed")
      BY <2>5, <3>1 DEF DeleteFaults, IInv, TypeOK
    <3> QED BY <1>3, <3>1
  <2> QED BY <1>5, <2>1, <2>2, <2>3, <2>4, <2>5 DEF ClientStep, DeleteStep
<1>6. CASE ReadLeavesOpen \/ CloseDB
  BY <1>6 DEF ReadLeavesOpen, CloseDB
<1>7. CASE CloseChan
  BY <1>7 DEF CloseChan
<1>8. CASE Restart
  BY <1>8 DEF Restart, IInv, Halted, Fresh, running
<1>9. CASE UNCHANGED vars
  BY <1>9 DEF vars
<1> QED BY <1>1, <1>2, <1>4, <1>5, <1>6, <1>7, <1>8, <1>9 DEF Next, WriterStep

\* What the next step of the Writer, and of the Delete of c, waits for: the
\* guards of WriterStep and of DeleteStep.  A growth behind a read that was
\* left open has none.
WriterCanStep ==
  /\ running
  /\ \/ wpc = "recv" /\ (chan # <<>> \/ ~chanOpen)
     \/ wpc = "update" /\ rwlock = Nobody
     \/ UpdateCanEnd

DeleteCanStep(c) == DeleteCanEnd(c) /\ (pc[c] = "grow" => be[c].at[1] \in baskets)

\* While an Insert is blocked, the Writer can go on, or waits for the writer
\* lock of a Delete that can go on, or the store is jammed: whoever holds the
\* lock has to grow the file and waits for a read that was left open.
SenderHasServer ==
  \A c \in Clients :
    pc[c] = "send" =>
      \/ WriterCanStep
      \/ \E d \in Clients : rwlock = d /\ DeleteCanStep(d)
      \/ Jammed

\* A blocked Insert never waits for a Writer that has left its loop or for a
\* lock that nobody will give back (Insert and Writer of rucksack/db.go, over
\* the lock of db.Update) but for the one wait without end, a growth behind a
\* read left open by FindAll or Count: what SendReturns needs besides fairness.
THEOREM NoSenderStranded == Spec => []SenderHasServer
<1>1. Init => Served
  BY DEF Init, Served, EndedClosed, GrowsInBasket, Fresh
<1>2. ASSUME IInv, Served, NEW c \in Clients, pc[c] = "send", ~Jammed
      PROVE  WriterCanStep \/ \E d \in Clients : rwlock = d /\ DeleteCanStep(d)
  <2> USE <1>2 DEF IInv, Served
  <2>1. proc = "run" /\ Len(chan) = Cap
    BY DEF SendersAccountedFor, TypeOK, chanOpen
  <2>2. chan # <<>> /\ wpc # "ended"
    BY <2>1, CapAssumption DEF EndedClosed, chanOpen
  <2>3. CASE rwlock = "Writer"
    BY <2>1, <2>3 DEF OneWriteTransaction, Updating, WriterCanStep, UpdateCanEnd,
       running, dbOpen, Jammed, Growing
  <2>4. CASE rwlock = Nobody
    <3>1. wpc \in {"recv", "update"}
      BY <2>2, <2>4, NamesAssumption DEF OneWriteTransaction, Updating, TypeOK
    <3> QED BY <2>1, <2>2, <2>4, <3>1 DEF WriterCanStep, running
  <2>5. CASE rwlock \in Clients
    <3>1. Deleting(rwlock)
      BY <2>1, <2>5 DEF OneWriteTransaction, dbOpen
    <3>2. DeleteCanStep(rwlock)
      BY <2>1, <2>5, <3>1 DEF Deleting, DeleteCanStep, DeleteCanEnd, Jammed,
         Growing, GrowsInBasket, dbOpen
    <3> QED BY <2>5, <3>2
  <2> QED BY <2>3, <2>4, <2>5 DEF TypeOK
<1>3. IInv /\ Served => SenderHasServer
  BY <1>2 DEF SenderHasServer
<1> QED BY <1>1, <1>3, StepServed, Invariance, PTL DEF Spec

\* A step takes one Insert at most out of the line, the first; its entity is in
\* the buffer by then.  The others keep their places, and who comes stands
\* behind them; only close(r.writerChan) and the end of the process dissolve
\* the line.
InTurn ==
  /\ \/ sendq' = sendq
     \/ \E c \in Clients : sendq' = Append(sendq, c)
     \/ /\ sendq # <<>> /\ sendq' = Tail(sendq)
        /\ chan' = Append(Tail(chan), be[Head(sendq)])
     \/ sendq' = <<>> /\ ~chanOpen'
  /\ \A c \in Clients :
       pc[c] = "send" /\ pc'[c] # "send" /\ chanOpen'
         => sendq # <<>> /\ c = Head(sendq) /\ sendq' = Tail(sendq)

\* Inserts that find the buffer full are served in the order they arrived, and
\* none returns before its entity is queued: the acknowledgement of Insert
\* means that much.
THEOREM SendersServedInTurn == Spec => [][InTurn]_vars
<1>1. ASSUME IInv, [Next]_vars PROVE InTurn \/ UNCHANGED vars
  <2> USE <1>1 DEF disks, history, writer
  <2>1. CASE Receive
    <3>1. CASE sendq = <<>>
      BY <2>1, <3>1 DEF Receive, InTurn
    <3>2. CASE sendq # <<>>
      <4>1. /\ sendq' = Tail(sendq) /\ pc' = [pc EXCEPT ![Head(sendq)] = "idle"]
            /\ chan' = Append(Tail(chan), be[Head(sendq)])
        BY <2>1, <3>2 DEF Receive
      <4> QED BY <3>2, <4>1 DEF InTurn, IInv, TypeOK
    <3> QED BY <3>1, <3>2
  <2>2. CASE WriterEnds \/ UpdateBegins \/ UpdateRefused \/ UpdateGrows
             \/ UpdateCommits \/ UpdateFails
    BY <2>2 DEF WriterEnds, UpdateBegins, UpdateRefused, UpdateGrows,
       UpdateCommits, UpdateFails, InTurn
  <2>3. ASSUME NEW c \in Clients, NEW e \in bEntity,
               InsertSends(c, e) \/ InsertBlocks(c, e)
        PROVE  InTurn
    BY <2>3 DEF InsertSends, InsertBlocks, Call, InTurn, IInv, TypeOK
  <2>4. ASSUME NEW c \in Clients, NEW at \in Entries, DeleteBegins(c, at)
        PROVE  InTurn
    BY <2>4 DEF DeleteBegins, Call, InTurn, IInv, TypeOK
  <2>5. ASSUME NEW c \in Clients,
               InsertPanics(c) \/ DeleteRefused(c) \/ DeleteGrows(c)
                 \/ DeleteReturns(c) \/ DeletePanics(c) \/ Recover(c)
        PROVE  InTurn
    <3>1. sendq' = sendq
      BY <2>5 DEF InsertPanics, DeleteRefused, DeleteGrows, DeleteReturns,
         DeletePanics, Recover
    <3>2. \A d \in Clients : pc[d] = "send" => pc'[d] = "send"
      BY <2>5 DEF InsertPanics, DeleteRefused, DeleteGrows, DeleteReturns,
         DeleteCanEnd, DeletePanics, Recover, Call, IInv, TypeOK
    <3> QED BY <3>1, <3>2 DEF InTurn
  <2>6. ASSUME NEW how \in {"exited", "crashed"}, Halt(how)
        PROVE  InTurn
    BY <2>6 DEF Halt, InTurn, chanOpen
  <2>7. ASSUME NEW c \in Clients, DeleteFaults(c)
        PROVE  InTurn
    BY <2>6, <2>7 DEF DeleteFaults, InTurn, IInv, TypeOK
  <2>8. CASE UpdateFaults \/ Exit \/ Crash
    BY <2>6, <2>8 DEF UpdateFaults, Exit, Crash
  <2>9. CASE CloseChan
    BY <2>9 DEF CloseChan, InTurn, chanOpen
  <2>10. CASE CloseDB \/ Restart \/ ReadLeavesOpen
    BY <2>10 DEF CloseDB, Restart, ReadLeavesOpen, InTurn
  <2> QED BY <2>1, <2>2, <2>3, <2>4, <2>5, <2>7, <2>8, <2>9, <2>10
          DEF Next, WriterStep, ClientStep, DeleteStep, DeleteCommits, DeleteFails
<1> QED BY <1>1, Invariance, PTL DEF Spec
=============================================================================
