---------------------------- MODULE BrotzeitProofs ----------------------------
(***************************************************************************)
(* Proofs about Brotzeit for any provisioners, schedules, handlers and     *)
(* number of requests.                                                     *)
(***************************************************************************)
EXTENDS Brotzeit, TLAPS, SequenceTheorems

\* What a place may hold: a schedule, or a provisioner's data.
Fits(e, d) == /\ e[2] = "cron" => d \in Schedules
              /\ e[2] = "config" => d \in {Complete, Partial}

\* The store and its queue hold at a place what belongs there.
Stored ==
  /\ store \in [Places -> Data \cup {Missing}]
  /\ \A e \in Places : store[e] # Missing => Fits(e, store[e])
  /\ pending \in Seq(Bp!Write) /\ Len(pending) <= Capacity
  /\ \A k \in 1 .. Len(pending) : Fits(pending[k].at, pending[k].data)
  /\ open \in BOOLEAN /\ jammed \in BOOLEAN /\ bucket \in BOOLEAN
  /\ held \in [Places -> SUBSET (Data \cup {Missing})]

\* The handlers: who inserts has what belongs at the place.
Handling ==
  /\ pc \in [Handlers -> {"idle", "add", "del", "insert", "delete"}]
  /\ req \in [Handlers -> [at : Places, data : Data \cup {Missing}]
                          \cup {NoRequest}]
  /\ \A h \in Handlers : pc[h] # "idle" => req[h].at \in Places
  /\ \A h \in Handlers : pc[h] \in {"add", "insert"} =>
       req[h] \in Bp!Write /\ Fits(req[h].at, req[h].data)
  /\ addq \in {0, 1} /\ delq \in {0, 1} /\ calls \in Nat

\* BootCron.
Booting ==
  /\ boot \in {"find", "complete", "judge", "add", "done"}
  /\ at \in 1 .. Len(Routes) + 1
  /\ boot \in {"complete", "judge", "add"} =>
       at \in 1 .. Len(Routes) /\ found # Missing
  /\ found \in Schedules \cup {Missing} /\ conf \in {Complete, Partial, Missing}
  /\ loose \subseteq Slices /\ muddled \subseteq Names
  /\ entries \in [Names -> Schedules \cup {Missing}]

\* The process: the database is open until bp.Close closes it, and the runner
\* runs only after BootCron.
Living ==
  /\ proc \in {"up", "close", "store", "stop", "stopped", "exit", "down"}
  /\ running \in BOOLEAN
  /\ open <=> proc \in {"up", "close"}
  /\ boot # "done" => ~running
  /\ proc = "down" => boot = "find" /\ at = 1 /\ entries = Unsaved

\* What the store holds it held.
HeldNow == \A e \in Places : proc # "down" => store[e] \in held[e]

\* What BootCron found, it found in the store.
FoundHeld ==
  /\ boot \in {"complete", "judge", "add"} => found \in held[Cron(Routes[at])]
  /\ boot = "judge" => conf \in held[Config(Routes[at])]
  /\ boot = "add" /\ Routes[at] \notin muddled =>
       Complete \in held[Config(Routes[at])]

Entered == \A r \in Names \ muddled : entries[r] # Missing =>
             entries[r] \in held[Cron(r)] /\ Complete \in held[Config(r)]

\* Why a provisioner may have no entry.
Excused(r) == \/ Missing \in held[Cron(r)]
              \/ held[Config(r)] # {Complete}
              \/ r \in muddled
              \/ ~open

\* The provisioners BootCron has dealt with.
Passed == \A k \in 1 .. Len(Routes) :
            (k < at \/ boot = "done") /\ entries[Routes[k]] = Missing
              => Excused(Routes[k])

IInv == Stored /\ Handling /\ Booting /\ Living /\ HeldNow /\ FoundHeld
        /\ Entered /\ Passed /\ RunsAfterBoot

-----------------------------------------------------------------------------
LEMMA RoutesNamed == /\ Len(Routes) \in Nat
                     /\ DOMAIN Routes = 1 .. Len(Routes)
                     /\ \A k \in 1 .. Len(Routes) : Routes[k] \in Names
                     /\ \A r \in Names : \E k \in 1 .. Len(Routes) : r = Routes[k]
<1>1. Routes \in Seq(Names)
  BY BrotzeitAssumption DEF Names
<1>2. Len(Routes) \in Nat /\ DOMAIN Routes = 1 .. Len(Routes)
  BY <1>1, LenProperties
<1> QED BY <1>2 DEF Names

LEMMA PlacesOf == \A r \in Names : Cron(r) \in Places /\ Config(r) \in Places
                                   /\ Cron(r)[2] = "cron" /\ Config(r)[2] # "cron"
BY DEF Cron, Config, Places

LEMMA InitInvariant == Init => IInv
<1> SUFFICES ASSUME Init PROVE IInv
  OBVIOUS
<1> USE RoutesNamed, BrotzeitAssumption DEF Init
<1>1. /\ store = [e \in Places |-> Missing] /\ pending = <<>> /\ open = TRUE
      /\ jammed = FALSE /\ held = [e \in Places |-> {Missing}]
  BY DEF Bp!Init, Holding
<1>2. pending \in Seq(Bp!Write) /\ Len(pending) = 0
  BY <1>1, EmptySeq
<1>3. Stored
  <2>1. store \in [Places -> Data \cup {Missing}]
        /\ held \in [Places -> SUBSET (Data \cup {Missing})]
    BY <1>1
  <2>2. \A e \in Places : store[e] = Missing
    BY <1>1
  <2>3. open \in BOOLEAN /\ bucket \in BOOLEAN /\ jammed \in BOOLEAN
    BY <1>1
  <2> QED BY <1>2, <2>1, <2>2, <2>3 DEF Stored
<1>4. Handling
  BY DEF Handling
<1>5. entries = [r \in Names |-> Missing]
  BY DEF Unsaved
<1>6. Booting /\ Living /\ RunsAfterBoot
  <2>1. Booting
    BY <1>5 DEF Booting
  <2>2. Living
    BY <1>1 DEF Living
  <2> QED BY <2>1, <2>2 DEF RunsAfterBoot
<1>7. HeldNow /\ FoundHeld /\ Entered /\ Passed
  BY <1>1, <1>5 DEF HeldNow, FoundHeld, Entered, Passed
<1> QED BY <1>3, <1>4, <1>6, <1>7 DEF IInv

-----------------------------------------------------------------------------
(* What a step leaves true of the boot when it only adds to what was held. *)
LEMMA BootKept ==
  ASSUME IInv, Stored', Handling', UNCHANGED <<bootVars, proc, running>>,
         open' = open,
         \A e \in Places : (held[e] \subseteq held'[e] /\ store'[e] \in held'[e])
                           \/ (proc = "down" /\ held'[e] = held[e])
  PROVE  IInv'
<1> USE RoutesNamed, PlacesOf DEF IInv, bootVars
<1>1. \A e \in Places : held[e] \subseteq held'[e]
  OBVIOUS
<1>2. Booting' /\ Living' /\ RunsAfterBoot'
  BY DEF Booting, Living, RunsAfterBoot, Slices
<1>3. HeldNow'
  BY DEF HeldNow
<1>4. FoundHeld'
  BY <1>1 DEF FoundHeld, Booting
<1>5. Entered'
  BY <1>1 DEF Entered
<1>6. ASSUME NEW k \in 1 .. Len(Routes), k < at \/ boot = "done",
             entries[Routes[k]] = Missing
      PROVE  Excused(Routes[k])'
  <2> DEFINE r == Routes[k]
  <2>1. Excused(r) /\ r \in Names
    BY <1>6 DEF Passed
  <2>2. CASE Missing \in held[Cron(r)]
    BY <1>1, <2>1, <2>2 DEF Excused
  <2>3. CASE held[Config(r)] # {Complete} /\ open
    <3>1. store[Config(r)] \in held[Config(r)]
      BY <2>1, <2>3 DEF HeldNow, Living
    <3>2. \E x \in held[Config(r)] : x # Complete
      BY <2>3, <3>1
    <3>3. held'[Config(r)] # {Complete}
      BY <1>1, <2>1, <3>2
    <3> QED BY <3>3 DEF Excused
  <2> QED BY <1>6, <2>1, <2>2, <2>3 DEF Excused
<1>7. Passed'
  BY <1>6 DEF Passed, Excused
<1> QED BY <1>2, <1>3, <1>4, <1>5, <1>7

\* A write that is appended to the queue, or one less in it.
LEMMA Queued ==
  ASSUME Stored, NEW w \in Bp!Write, Fits(w.at, w.data), Bp!Accept(w),
         Len(pending) < Capacity, UNCHANGED <<bucket, held>>
  PROVE  Stored'
<1>1. pending' = Append(pending, w) /\ UNCHANGED <<store, open, jammed>>
  BY DEF Bp!Accept
<1>2. /\ pending' \in Seq(Bp!Write) /\ Len(pending') = Len(pending) + 1
      /\ \A k \in 1 .. Len(pending) : pending'[k] = pending[k]
      /\ pending'[Len(pending) + 1] = w /\ Len(pending) \in Nat
  BY <1>1, AppendProperties, LenProperties DEF Stored
<1>3. \A k \in 1 .. Len(pending') : Fits(pending'[k].at, pending'[k].data)
  BY <1>2 DEF Stored
<1> QED BY <1>1, <1>2, <1>3, BrotzeitAssumption DEF Stored

LEMMA Dequeued ==
  ASSUME Stored, pending # <<>>
  PROVE  /\ Tail(pending) \in Seq(Bp!Write) /\ Len(Tail(pending)) <= Capacity
         /\ \A k \in 1 .. Len(Tail(pending)) :
              Fits(Tail(pending)[k].at, Tail(pending)[k].data)
         /\ Head(pending).at \in Places /\ Head(pending).data \in Data
         /\ Fits(Head(pending).at, Head(pending).data)
<1>1. pending \in Seq(Bp!Write) /\ Len(pending) \in Nat \ {0}
  BY EmptySeq DEF Stored
<1>2. /\ Head(pending) \in Bp!Write /\ Tail(pending) \in Seq(Bp!Write)
      /\ Len(Tail(pending)) = Len(pending) - 1
      /\ \A i \in 1 .. Len(Tail(pending)) : Tail(pending)[i] = pending[i + 1]
      /\ Head(pending) = pending[1]
  BY <1>1, HeadTailProperties
<1>3. \A k \in 1 .. Len(Tail(pending)) :
        Fits(Tail(pending)[k].at, Tail(pending)[k].data)
  BY <1>1, <1>2 DEF Stored
<1>4. Len(Tail(pending)) <= Capacity
  BY <1>1, <1>2, BrotzeitAssumption DEF Stored
<1> QED BY <1>1, <1>2, <1>3, <1>4 DEF Stored, Bp!Write

-----------------------------------------------------------------------------
LEMMA WriterKeeps ==
  ASSUME IInv, Writer
  PROVE  IInv'
<1> USE DEF IInv
<1>1. /\ pending # <<>> /\ pending' = Tail(pending) /\ proc # "down"
      /\ UNCHANGED <<open, jammed>>
  BY DEF Writer, Bp!Settle, Bp!Drop, up
<1>2. /\ bucket' \in BOOLEAN
      /\ held' = [e \in Places |-> held[e] \cup {store'[e]}]
      /\ UNCHANGED <<saveVars, bootVars, proc, addq, delq, running>>
  BY DEF Writer, Held, Stored
<1>3. \/ store' = [store EXCEPT ![Head(pending).at] = Head(pending).data]
      \/ store' = store
  BY DEF Writer, Bp!Settle, Bp!Drop, Bp!Settled
<1>4. /\ store' \in [Places -> Data \cup {Missing}]
      /\ \A e \in Places : store'[e] # Missing => Fits(e, store'[e])
  BY <1>1, <1>3, Dequeued DEF Stored
<1>5. held' \in [Places -> SUBSET (Data \cup {Missing})]
  BY <1>2, <1>4 DEF Stored
<1>6. Stored'
  BY <1>1, <1>2, <1>4, <1>5, Dequeued DEF Stored
<1>7. Handling'
  BY <1>2 DEF Handling, saveVars
<1>8. \A e \in Places : (held[e] \subseteq held'[e] /\ store'[e] \in held'[e])
                          \/ (proc = "down" /\ held'[e] = held[e])
  <2> TAKE e \in Places
  <2>1. held'[e] = held[e] \cup {store'[e]}
    BY <1>2
  <2> QED BY <2>1
<1> QED BY <1>1, <1>2, <1>6, <1>7, <1>8, BootKept

\* The steps of a handler, the queue and the store left aside.
LEMMA HandlerKeeps ==
  ASSUME IInv, Stored', Handling', UNCHANGED <<bootVars, proc, running, held>>,
         UNCHANGED store, open' = open
  PROVE  IInv'
<1>1. \A e \in Places : (held[e] \subseteq held'[e] /\ store'[e] \in held'[e])
                          \/ (proc = "down" /\ held'[e] = held[e])
  BY DEF IInv, HeldNow
<1> QED BY <1>1, BootKept

LEMMA SaveKeeps ==
  ASSUME IInv, NEW h \in Handlers, NEW r \in Names,
         \/ \E s \in Schedules \cup {Missing} : SaveBegins(h, r, s)
         \/ \E d \in {Complete, Partial} : FormSave(h, r, d)
  PROVE  IInv'
<1> USE BrotzeitAssumption DEF IInv
<1>1. ASSUME NEW e \in Places, NEW d \in Data \cup {Missing},
             NEW place \in {"add", "del", "insert"},
             place # "del" => d \in Data /\ Fits(e, d), Begins(h, e, d, place)
      PROVE  IInv'
  <2>1. UNCHANGED <<bpVars, addq, delq, bootVars, proc, running>>
    BY <1>1 DEF Begins, Rests
  <2>2. Stored'
    BY <2>1 DEF Stored, bpVars, backpack
  <2> DEFINE q == [at |-> e, data |-> d]
  <2>3. /\ pc' = [pc EXCEPT ![h] = place] /\ req' = [req EXCEPT ![h] = q]
        /\ calls' = calls + 1
    BY <1>1 DEF Begins, Goto
  <2>4. /\ q \in [at : Places, data : Data \cup {Missing}] /\ q.at = e
        /\ place # "del" => q \in Bp!Write /\ Fits(q.at, q.data)
    BY <1>1 DEF Bp!Write
  <2> HIDE DEF q
  <2>5. Handling'
    BY <2>1, <2>3, <2>4 DEF Handling
  <2> QED BY <2>1, <2>2, <2>5, HandlerKeeps DEF bpVars, backpack
<1>2. ASSUME NEW s \in Schedules \cup {Missing}, SaveBegins(h, r, s) PROVE IInv'
  <2> DEFINE place == IF s = Missing THEN "del" ELSE "add"
  <2>1. Begins(h, Cron(r), s, place) /\ Cron(r) \in Places
    BY <1>2, PlacesOf DEF SaveBegins
  <2>2. place # "del" => s \in Data /\ Fits(Cron(r), s)
    BY PlacesOf DEF Fits, Data
  <2> QED BY <1>1, <2>1, <2>2 DEF Data
<1>3. ASSUME NEW d \in {Complete, Partial}, FormSave(h, r, d) PROVE IInv'
  <2>1. Begins(h, Config(r), d, "insert") /\ Config(r) \in Places
    BY <1>3, PlacesOf DEF FormSave
  <2>2. d \in Data /\ Fits(Config(r), d)
    BY PlacesOf DEF Fits, Data
  <2> QED BY <1>1, <2>1, <2>2
<1> QED BY <1>2, <1>3

LEMMA ServeKeeps ==
  ASSUME IInv, NEW h \in Handlers, Serve(h)
  PROVE  IInv'
<1> USE BrotzeitAssumption DEF IInv
<1>1. CASE SendAdd(h) \/ SendDel(h)
  <2>1. UNCHANGED <<bpVars, req, calls, bootVars, proc, running>>
    BY <1>1 DEF SendAdd, SendDel, Rests
  <2>2. Stored'
    BY <2>1 DEF Stored, bpVars, backpack
  <2>3. /\ addq' \in {0, 1} /\ delq' \in {0, 1}
        /\ \/ pc[h] = "add" /\ pc' \in {[pc EXCEPT ![h] = "insert"],
                                        [pc EXCEPT ![h] = "idle"]}
           \/ pc[h] = "del" /\ pc' = [pc EXCEPT ![h] = "delete"]
    BY <1>1 DEF SendAdd, SendDel, Goto, Handling
  <2>4. Handling'
    BY <2>1, <2>3 DEF Handling
  <2> QED BY <2>1, <2>2, <2>4, HandlerKeeps DEF bpVars, backpack
<1>2. CASE Inserts(h)
  <2>1. req[h] \in Bp!Write /\ Fits(req[h].at, req[h].data)
    BY <1>2 DEF Inserts, Handling
  <2>2. /\ (Bp!Accept(req[h]) /\ Len(pending) < Capacity) \/ UNCHANGED backpack
        /\ UNCHANGED <<bucket, held, req, calls, addq, delq, bootVars, proc, running>>
        /\ pc' = [pc EXCEPT ![h] = "idle"]
    BY <1>2 DEF Inserts, Goto, Rests
  <2>3. Stored'
    <3>1. CASE UNCHANGED backpack
      BY <2>2, <3>1 DEF Stored, backpack
    <3> QED BY <2>1, <2>2, <3>1, Queued
  <2>4. UNCHANGED <<store, open>>
    BY <2>2 DEF Bp!Accept, backpack
  <2>5. Handling'
    BY <2>2 DEF Handling
  <2> QED BY <2>2, <2>3, <2>4, <2>5, HandlerKeeps
<1>3. CASE Deletes(h)
  <2> DEFINE e == req[h].at
  <2>1. /\ pc' = [pc EXCEPT ![h] = "idle"]
        /\ UNCHANGED <<bucket, req, calls, addq, delq, bootVars, proc, running>>
        /\ held' = [x \in Places |-> held[x] \cup {store'[x]}]
    BY <1>3 DEF Deletes, Goto, Rests, Held
  <2>2. store' = [store EXCEPT ![e] = Missing] \/ store' = store
    BY <1>3 DEF Deletes, Bp!Remove, backpack
  <2>3. UNCHANGED <<pending, open, jammed>>
    BY <1>3 DEF Deletes, Bp!Remove, backpack
  <2> HIDE DEF e
  <2>4. /\ store' \in [Places -> Data \cup {Missing}]
        /\ \A x \in Places : store'[x] # Missing => Fits(x, store'[x])
    BY <2>2 DEF Stored
  <2>5. held' \in [Places -> SUBSET (Data \cup {Missing})]
    BY <2>1, <2>4 DEF Stored
  <2>6. Stored'
    BY <2>1, <2>3, <2>4, <2>5 DEF Stored
  <2>7. Handling'
    BY <2>1 DEF Handling
  <2>8. \A x \in Places : (held[x] \subseteq held'[x] /\ store'[x] \in held'[x])
                            \/ (proc = "down" /\ held'[x] = held[x])
    <3> TAKE x \in Places
    <3>1. held'[x] = held[x] \cup {store'[x]}
      BY <2>1
    <3> QED BY <3>1
  <2> QED BY <2>1, <2>3, <2>6, <2>7, <2>8, BootKept
<1> QED BY <1>1, <1>2, <1>3 DEF Serve, Sends

-----------------------------------------------------------------------------
\* BootCron changes only its own variables.
BootOnly == UNCHANGED <<store, pending, open, jammed, bucket, held, saveVars,
                        addq, delq, proc>>

LEMMA BootOnlyKeeps ==
  ASSUME IInv, BootOnly
  PROVE  Stored' /\ Handling' /\ HeldNow'
BY DEF IInv, BootOnly, Stored, Handling, HeldNow, saveVars

LEMMA BootFindsKeeps ==
  ASSUME IInv, BootFinds
  PROVE  IInv'
<1> USE RoutesNamed, PlacesOf DEF IInv
<1>1. /\ proc # "down" /\ boot = "find" /\ at \in 1 .. Len(Routes)
      /\ found' = IF open THEN store[Cron(Routes[at])] ELSE Missing
      /\ IF found' = Missing
           THEN at' = at + 1 /\ boot' = "find" /\ conf' = Missing /\ loose' = {}
           ELSE boot' = "complete" /\ UNCHANGED <<at, conf, loose>>
      /\ UNCHANGED <<entries, muddled, running>> /\ BootOnly
  BY DEF BootFinds, Takes, NextRoute, FindOne, up, route, Booting, Boots, BootOnly,
         bpVars, backpack
<1>2. Routes[at] \in Names /\ Cron(Routes[at]) \in Places
  BY <1>1
<1>3. found' \in Schedules \cup {Missing}
  BY <1>1, <1>2 DEF Stored, Fits
<1>4. Stored' /\ Handling' /\ HeldNow'
  BY <1>1, BootOnlyKeeps
<1>5. loose = {}
  BY <1>1 DEF Booting, Slices
<1>6. Booting' /\ Living' /\ RunsAfterBoot'
  BY <1>1, <1>3, <1>5 DEF Booting, Living, RunsAfterBoot, BootOnly
<1>7. Entered'
  BY <1>1 DEF Entered, BootOnly
<1>8. FoundHeld'
  BY <1>1, <1>2 DEF FoundHeld, HeldNow, BootOnly
<1>9. Passed'
  <2>1. \A r \in Names : Excused(r)' <=> Excused(r)
    BY <1>1 DEF Excused, BootOnly
  <2>2. ASSUME found' = Missing PROVE Excused(Routes[at])
    BY <1>1, <1>2, <2>2 DEF Excused, HeldNow
  <2> QED BY <1>1, <2>1, <2>2 DEF Passed, Booting
<1> QED BY <1>4, <1>6, <1>7, <1>8, <1>9

LEMMA BootCompletesKeeps ==
  ASSUME IInv, BootCompletes
  PROVE  IInv'
<1> USE RoutesNamed, PlacesOf DEF IInv
<1> DEFINE c == IF open THEN store[Config(Routes[at])] ELSE Missing
<1>1. /\ proc # "down" /\ boot = "complete" /\ at \in 1 .. Len(Routes)
      /\ IF c = Missing
           THEN at' = at + 1 /\ boot' = "find" /\ conf' = Missing /\ loose' = {}
           ELSE boot' = "judge" /\ conf' = c /\ UNCHANGED <<at, loose>>
      /\ UNCHANGED <<found, entries, muddled, running>> /\ BootOnly
  BY DEF BootCompletes, NextRoute, FindOne, up, route, Booting, Boots, BootOnly,
         bpVars, backpack
<1>2. Routes[at] \in Names /\ Config(Routes[at]) \in Places
      /\ Config(Routes[at])[2] = "config"
  BY <1>1 DEF Config
<1>3. c \in {Complete, Partial, Missing}
  BY <1>2 DEF Stored, Fits
<1>4. Stored' /\ Handling' /\ HeldNow'
  BY <1>1, BootOnlyKeeps
<1>5. c # Missing => c \in held[Config(Routes[at])]
  BY <1>1, <1>2 DEF HeldNow
<1>6. c = Missing => Excused(Routes[at])
  <2>1. Missing # Complete
    BY BrotzeitAssumption
  <2>2. c = Missing /\ open => Missing \in held[Config(Routes[at])]
    BY <1>1, <1>2 DEF HeldNow
  <2> QED BY <2>1, <2>2 DEF Excused
<1> HIDE DEF c
<1>7. Booting' /\ Living' /\ RunsAfterBoot'
  <2>1. loose' \subseteq Slices' /\ muddled' \subseteq Names'
    BY <1>1 DEF Booting, Slices, Names
  <2> QED BY <1>1, <1>3, <2>1 DEF Booting, Living, RunsAfterBoot, BootOnly
<1>8. Entered'
  BY <1>1 DEF Entered, BootOnly
<1>9. FoundHeld'
  BY <1>1, <1>2, <1>5 DEF FoundHeld, BootOnly
<1>10. Passed'
  <2>1. \A r \in Names : Excused(r)' <=> Excused(r)
    BY <1>1 DEF Excused, BootOnly
  <2> QED BY <1>1, <1>6, <2>1 DEF Passed, Booting
<1> QED BY <1>4, <1>7, <1>8, <1>9, <1>10

LEMMA BootJudgesKeeps ==
  ASSUME IInv, BootJudges
  PROVE  IInv'
<1> USE RoutesNamed, PlacesOf DEF IInv
<1>1. /\ proc # "down" /\ boot = "judge" /\ at \in 1 .. Len(Routes)
      /\ \/ /\ conf = Complete \/ "conf" \in loose
            /\ boot' = "add" /\ at' = at /\ conf' = Missing
            /\ loose' = loose \ {"conf"}
         \/ /\ conf # Complete \/ "conf" \in loose
            /\ at' = at + 1 /\ boot' = "find" /\ conf' = Missing /\ loose' = {}
      /\ muddled' = IF "conf" \in loose THEN muddled \cup {Routes[at]} ELSE muddled
      /\ UNCHANGED <<found, entries, running>> /\ BootOnly
  BY DEF BootJudges, NextRoute, up, route, Booting, Boots, BootOnly, bpVars, backpack
<1>2. Routes[at] \in Names
  BY <1>1
<1>3. Stored' /\ Handling' /\ HeldNow'
  BY <1>1, BootOnlyKeeps
<1>4. Booting' /\ Living' /\ RunsAfterBoot'
  <2>1. loose' \subseteq Slices' /\ muddled' \subseteq Names'
    BY <1>1, <1>2 DEF Booting, Slices, Names
  <2> QED BY <1>1, <2>1 DEF Booting, Living, RunsAfterBoot, BootOnly
<1>5. Entered'
  BY <1>1 DEF Entered, BootOnly
<1>6. FoundHeld'
  BY <1>1 DEF FoundHeld, BootOnly
<1>7. Passed'
  <2>1. \A r \in Names : Excused(r) => Excused(r)'
    BY <1>1 DEF Excused, BootOnly
  <2>2. ASSUME NEW r \in Names, r = Routes[at], boot' = "find" PROVE Excused(r)'
    <3>1. CASE "conf" \in loose
      BY <1>1, <2>2, <3>1 DEF Excused
    <3>2. CASE conf # Complete
      BY <1>1, <2>2, <3>2 DEF Excused, FoundHeld, BootOnly
    <3> QED BY <1>1, <2>2, <3>1, <3>2
  <2> QED BY <1>1, <2>1, <2>2 DEF Passed, Booting
<1> QED BY <1>3, <1>4, <1>5, <1>6, <1>7

LEMMA BootAddsKeeps ==
  ASSUME IInv, BootAdds
  PROVE  IInv'
<1> USE RoutesNamed, PlacesOf DEF IInv
<1>1. /\ proc # "down" /\ boot = "add" /\ at \in 1 .. Len(Routes)
      /\ at' = at + 1 /\ boot' = "find" /\ conf' = Missing /\ loose' = {}
      /\ muddled' = IF "s" \in loose THEN muddled \cup {Routes[at]} ELSE muddled
      /\ UNCHANGED <<found, running>> /\ BootOnly
  BY DEF BootAdds, up, route, NextRoute, Booting, Boots, BootOnly, bpVars, backpack
<1>2. PICK js \in Schedules \cup {Missing} :
        /\ js = found \/ "s" \in loose
        /\ entries' = IF js = Missing THEN entries
                                      ELSE [entries EXCEPT ![Routes[at]] = js]
  BY DEF BootAdds, route
<1>3. Routes[at] \in Names /\ found # Missing
  BY <1>1 DEF Booting
<1>4. Stored' /\ Handling' /\ HeldNow'
  BY <1>1, BootOnlyKeeps
<1>5. Booting' /\ Living' /\ RunsAfterBoot'
  <2>1. loose' \subseteq Slices' /\ muddled' \subseteq Names'
    BY <1>1, <1>3 DEF Booting, Names
  <2> QED BY <1>1, <1>2, <1>3, <2>1 DEF Booting, Living, RunsAfterBoot, BootOnly
<1>6. FoundHeld'
  BY <1>1 DEF FoundHeld
<1>7. Entered'
  <2> SUFFICES ASSUME NEW r \in Names, r \notin muddled', entries'[r] # Missing
               PROVE  entries'[r] \in held[Cron(r)] /\ Complete \in held[Config(r)]
    BY <1>1 DEF Entered, BootOnly, Names
  <2>1. CASE r = Routes[at]
    <3>1. entries'[r] = found
      BY <1>1, <1>2, <2>1 DEF Booting
    <3> QED BY <1>1, <2>1, <3>1 DEF FoundHeld
  <2>2. CASE r # Routes[at]
    BY <1>1, <1>2, <2>2 DEF Entered, Booting
  <2> QED BY <2>1, <2>2
<1>8. Passed'
  <2>1. \A r \in Names : Excused(r) => Excused(r)'
    BY <1>1 DEF Excused, BootOnly
  <2>2. ASSUME NEW r \in Names, r = Routes[at], entries'[r] = Missing
        PROVE  Excused(r)'
    <3>1. CASE "s" \in loose
      BY <1>1, <2>2, <3>1 DEF Excused
    <3>2. CASE "s" \notin loose
      BY <1>2, <1>3, <2>2, <3>2 DEF Booting
    <3> QED BY <3>1, <3>2
  <2>3. \A r \in Names : r # Routes[at] => entries'[r] = entries[r]
    BY <1>2 DEF Booting
  <2> QED BY <1>1, <1>3, <2>1, <2>2, <2>3 DEF Passed, Booting
<1> QED BY <1>4, <1>5, <1>6, <1>7, <1>8

\* Bytes that BootCron found are overwritten, or a write waits for ever.
LEMMA ReuseKeeps ==
  ASSUME IInv, Reuse \/ Jam
  PROVE  IInv'
<1>1. CASE Reuse
  <2>1. /\ UNCHANGED <<boot, at, found, conf, entries, muddled, running>>
        /\ loose' \subseteq Slices /\ BootOnly
    BY <1>1 DEF Reuse, Boots, BootOnly, bpVars, backpack, IInv, Booting
  <2>2. Stored' /\ Handling' /\ HeldNow'
    BY <2>1, BootOnlyKeeps
  <2>3. Slices' = Slices /\ Names' = Names
    BY <2>1 DEF Slices, Names
  <2>4. Booting' /\ Living' /\ RunsAfterBoot'
    BY <2>1, <2>3 DEF IInv, Booting, Living, RunsAfterBoot, BootOnly
  <2>5. FoundHeld' /\ Entered'
    BY <2>1, <2>3 DEF IInv, FoundHeld, Entered, BootOnly
  <2>6. Passed'
    BY <2>1 DEF IInv, Passed, Excused, BootOnly
  <2> QED BY <2>2, <2>4, <2>5, <2>6 DEF IInv
<1>2. CASE Jam
  <2>1. /\ UNCHANGED <<store, pending, open, bucket, held, saveVars, bootVars, proc,
                       addq, delq, running>>
        /\ jammed' = TRUE
    BY <1>2 DEF Jam, Bp!Jam
  <2>2. Stored' /\ Handling'
    BY <2>1 DEF IInv, Stored, Handling, saveVars
  <2> QED BY <2>1, <2>2, HandlerKeeps
<1> QED BY <1>1, <1>2

LEMMA startCronKeeps ==
  ASSUME IInv, startCron
  PROVE  IInv'
<1> USE RoutesNamed, PlacesOf DEF IInv
<1>1. /\ proc # "down" /\ boot = "find" /\ at = Len(Routes) + 1
      /\ boot' = "done"
      /\ running' = (running \/ entries # Unsaved)
      /\ UNCHANGED <<at, found, conf, loose, entries, muddled>> /\ BootOnly
  BY DEF startCron, up, Booting, Boots, BootOnly, bpVars, backpack
<1>2. Stored' /\ Handling' /\ HeldNow'
  BY <1>1, BootOnlyKeeps
<1>3. Booting'
  BY <1>1 DEF Booting, Slices
<1>4. Living' /\ RunsAfterBoot'
  <2>1. ~running
    BY <1>1 DEF Living
  <2> QED BY <1>1, <2>1 DEF Living, RunsAfterBoot, BootOnly
<1>5. FoundHeld' /\ Entered'
  BY <1>1 DEF FoundHeld, Entered, BootOnly
<1>6. Passed'
  BY <1>1 DEF Passed, Excused, BootOnly
<1> QED BY <1>2, <1>3, <1>4, <1>5, <1>6

-----------------------------------------------------------------------------
\* The shutdown, a crash and a restart.
LEMMA ShutdownKeeps ==
  ASSUME IInv, Signal \/ CloseDb \/ CloseLooks \/ CloseStops \/ CloseChan
  PROVE  IInv'
<1> USE DEF IInv, Closes, bpVars, backpack, saveVars, bootVars
<1>1. /\ proc' \in {"close", "store", "stop", "stopped", "exit"} /\ proc # "down"
      /\ UNCHANGED <<store, pending, jammed, bucket, held, saveVars, addq, delq>>
      /\ UNCHANGED <<boot, at, found, conf, entries, muddled>>
      /\ loose' \in {loose, Slices}
      /\ open' <=> proc' = "close"
      /\ (open' => open) /\ open' \in BOOLEAN
      /\ proc' \in {"close", "store", "stop"} => UNCHANGED running
      /\ running' \in BOOLEAN /\ (running' => running)
      /\ proc' \in {"close", "store", "stop"} => proc \in {"up", "close", "store"}
  <2>1. CASE Signal
    BY <2>1 DEF Signal, Living, Stored
  <2>2. CASE CloseDb
    BY <2>2 DEF CloseDb, Bp!Shut, Living
  <2>3. CASE CloseLooks
    BY <2>3 DEF CloseLooks, Living, Stored
  <2>4. CASE CloseStops
    BY <2>4 DEF CloseStops, Living, Stored
  <2>5. CASE CloseChan
    BY <2>5 DEF CloseChan, Living, Stored
  <2> QED BY <2>1, <2>2, <2>3, <2>4, <2>5
<1>2. Stored' /\ Handling'
  BY <1>1 DEF Stored, Handling
<1>3. Booting'
  <2>1. Slices' = Slices /\ Names' = Names
    BY <1>1 DEF Slices, Names
  <2> QED BY <1>1, <2>1 DEF Booting
<1>4. Living' /\ RunsAfterBoot'
  BY <1>1 DEF Living, RunsAfterBoot
<1>5. HeldNow' /\ FoundHeld' /\ Entered'
  BY <1>1 DEF HeldNow, FoundHeld, Entered
<1>6. Passed'
  BY <1>1 DEF Passed, Excused
<1> QED BY <1>2, <1>3, <1>4, <1>5, <1>6

LEMMA DeathKeeps ==
  ASSUME IInv, Exit \/ Crash
  PROVE  IInv'
<1> USE RoutesNamed, BrotzeitAssumption DEF IInv
<1>1. /\ proc' = "down" /\ open' = FALSE /\ pending' = <<>>
      /\ pc' = [h \in Handlers |-> "idle"]
      /\ req' = [h \in Handlers |-> NoRequest]
      /\ addq' = 0 /\ delq' = 0
      /\ boot' = "find" /\ at' = 1 /\ found' = Missing /\ conf' = Missing
      /\ loose' = {} /\ muddled' = {} /\ jammed' = FALSE
      /\ entries' = Unsaved /\ running' = FALSE
      /\ UNCHANGED <<held, calls>>
  BY DEF Exit, Crash, Halt, Bp!Die
<1>2. /\ bucket' \in BOOLEAN
      /\ \/ store' = store
         \/ /\ pending # <<>>
            /\ store' = [store EXCEPT ![Head(pending).at] = Head(pending).data]
  BY DEF Exit, Crash, Bp!Settled, Stored
<1>3. /\ store' \in [Places -> Data \cup {Missing}]
      /\ \A e \in Places : store'[e] # Missing => Fits(e, store'[e])
  BY <1>2, Dequeued DEF Stored
<1>4. /\ pending' \in Seq(Bp!Write) /\ Len(pending') = 0
      /\ Len(pending') <= Capacity
      /\ \A k \in 1 .. Len(pending') : Fits(pending'[k].at, pending'[k].data)
  BY <1>1, EmptySeq
<1>5. Stored'
  <2>1. held' \in [Places -> SUBSET (Data \cup {Missing})] /\ open' \in BOOLEAN
    BY <1>1 DEF Stored
  <2>2. bucket' \in BOOLEAN
    BY <1>2
  <2> QED BY <1>1, <1>3, <1>4, <2>1, <2>2 DEF Stored
<1>6. Handling'
  BY <1>1 DEF Handling
<1>7. entries' \in [Names -> {Missing}]
  BY <1>1 DEF Unsaved
<1>8. Booting' /\ RunsAfterBoot'
  BY <1>1, <1>7 DEF Booting, RunsAfterBoot
<1>9. Living'
  <2>1. Unsaved' = Unsaved
    BY DEF Unsaved
  <2> QED BY <1>1, <2>1 DEF Living
<1>10. HeldNow' /\ FoundHeld' /\ Entered' /\ Passed'
  BY <1>1, <1>7 DEF HeldNow, FoundHeld, Entered, Passed
<1> QED BY <1>5, <1>6, <1>8, <1>9, <1>10

LEMMA RestartKeeps ==
  ASSUME IInv, Restart
  PROVE  IInv'
<1> USE RoutesNamed, BrotzeitAssumption DEF IInv
<1>1. /\ proc = "down" /\ proc' = "up" /\ open' = TRUE /\ pending' = <<>>
      /\ held' = [e \in Places |-> {store[e]}] /\ jammed' = FALSE
      /\ UNCHANGED <<store, bucket, pc, req, calls, boot, at, found, conf, loose,
                     entries, muddled, addq, delq, running>>
  BY DEF Restart, Bp!Reopen, Holding, bootVars
<1>2. /\ pending' \in Seq(Bp!Write) /\ Len(pending') = 0
      /\ Len(pending') <= Capacity
      /\ \A k \in 1 .. Len(pending') : Fits(pending'[k].at, pending'[k].data)
  BY <1>1, EmptySeq
<1>3. Stored'
  <2>1. held' \in [Places -> SUBSET (Data \cup {Missing})]
    BY <1>1 DEF Stored
  <2> QED BY <1>1, <1>2, <2>1 DEF Stored
<1>4. Handling' /\ Booting'
  BY <1>1 DEF Handling, Booting, Slices
<1>5. Living' /\ RunsAfterBoot'
  BY <1>1 DEF Living, RunsAfterBoot
<1>6. boot' = "find" /\ at' = 1 /\ entries' = [r \in Names |-> Missing]
  BY <1>1 DEF Living, Unsaved
<1>7. HeldNow' /\ FoundHeld' /\ Entered' /\ Passed'
  BY <1>1, <1>6 DEF HeldNow, FoundHeld, Entered, Passed
<1> QED BY <1>3, <1>4, <1>5, <1>7

LEMMA StepInvariant == IInv /\ [Next]_vars => IInv'
<1> SUFFICES ASSUME IInv, [Next]_vars PROVE IInv'
  OBVIOUS
<1>1. CASE BootCronNotifier \/ UNCHANGED vars
  <2>1. /\ UNCHANGED <<bpVars, saveVars, bootVars, proc, running>>
        /\ addq' \in {0, 1} /\ delq' \in {0, 1}
    BY <1>1 DEF BootCronNotifier, vars, IInv, Handling
  <2>2. Stored' /\ Handling'
    BY <2>1 DEF IInv, Stored, Handling, bpVars, backpack, saveVars
  <2> QED BY <2>1, <2>2, HandlerKeeps DEF bpVars, backpack
<1>2. CASE BootCron
  BY <1>2, BootFindsKeeps, BootCompletesKeeps, BootJudgesKeeps, BootAddsKeeps,
     startCronKeeps
     DEF BootCron
<1>3. CASE Signal \/ CloseDb \/ catchSysCall \/ Crash \/ Restart
  BY <1>3, ShutdownKeeps, DeathKeeps, RestartKeeps DEF catchSysCall
<1>4. ASSUME NEW h \in Handlers, Serve(h) \/ Request(h) PROVE IInv'
  BY <1>4, ServeKeeps, SaveKeeps DEF Request
<1> QED BY <1>1, <1>2, <1>3, <1>4, WriterKeeps, ReuseKeeps DEF Next

-----------------------------------------------------------------------------
(* The service keeps its types: what BootCron finds is a schedule.         *)
THEOREM TypeCorrect == Spec => []TypeOK
<1>1. IInv => TypeOK
  BY DEF IInv, Stored, Handling, Booting, Living, TypeOK
<1> QED BY <1>1, InitInvariant, StepInvariant, PTL DEF Spec

(* BootCron, while handlers save and delete and the signal may come: an    *)
(* entry stems from the store, and one is missing only for a reason that   *)
(* the store gave during the boot, or because updates that ended meanwhile *)
(* overwrote the bytes in bolt's map that BootCron still had to read.      *)
THEOREM BootIsFromStore == Spec => []BootsFromStore
<1>1. ASSUME IInv PROVE BootsFromStore
  <2> SUFFICES ASSUME NEW r \in Names \ muddled
               PROVE  /\ entries[r] # Missing => /\ entries[r] \in held[Cron(r)]
                                                 /\ Complete \in held[Config(r)]
                      /\ boot = "done" /\ entries[r] = Missing => Excused(r)
    BY DEF BootsFromStore, Excused
  <2>1. PICK k \in 1 .. Len(Routes) : r = Routes[k]
    BY RoutesNamed
  <2> QED BY <1>1, <2>1 DEF IInv, Entered, Passed
<1> QED BY <1>1, InitInvariant, StepInvariant, PTL DEF Spec

(* startCron and Close: a runner with entries runs from the end of         *)
(* BootCron until it is stopped, so crond.Stop finds it running.           *)
THEOREM RunnerRuns == Spec => []RunsAfterBoot
<1>1. IInv => RunsAfterBoot
  BY DEF IInv
<1> QED BY <1>1, InitInvariant, StepInvariant, PTL DEF Spec

-----------------------------------------------------------------------------
(* The service and the store.                                              *)

\* The handlers, BootCron and the shutdown use the Backpacker as WriteBehind
\* allows, a crash in the middle of a commit included: what they rely on is
\* what Rucksack was shown to keep, and nothing more.
THEOREM StoreUsedRightly == Spec => Bp!Safety
<1>1. Init => Bp!Init
  BY DEF Init
<1>2. ASSUME IInv, [Next]_vars PROVE Bp!Next \/ UNCHANGED Bp!wbvars
  <2> USE <1>2 DEF IInv, Bp!wbvars, Bp!Next, backpack
  <2>1. CASE Writer
    BY <2>1 DEF Writer
  <2>2. CASE Jam
    BY <2>2 DEF Jam
  <2>3. ASSUME NEW h \in Handlers, Serve(h) PROVE Bp!Next \/ UNCHANGED Bp!wbvars
    <3>1. CASE SendAdd(h) \/ SendDel(h)
      BY <3>1 DEF SendAdd, SendDel, bpVars
    <3>2. CASE Inserts(h)
      <4>1. req[h] \in Bp!Write
        BY <3>2 DEF Inserts, Handling
      <4> QED BY <3>2, <4>1 DEF Inserts
    <3>3. CASE Deletes(h)
      <4>1. req[h].at \in Places
        BY <3>3 DEF Deletes, Handling
      <4> QED BY <3>3, <4>1 DEF Deletes
    <3> QED BY <2>3, <3>1, <3>2, <3>3 DEF Serve, Sends
  <2>4. ASSUME NEW h \in Handlers, Request(h) PROVE UNCHANGED Bp!wbvars
    BY <2>4 DEF Request, SaveBegins, FormSave, Begins, bpVars
  <2>5. CASE BootCron \/ Reuse
    BY <2>5 DEF BootCron, BootFinds, Takes, BootCompletes, BootJudges, BootAdds,
       startCron, Reuse, Boots, bpVars
  <2>6. CASE BootCronNotifier
    BY <2>6 DEF BootCronNotifier, bpVars
  <2>7. CASE Signal \/ CloseDb
    BY <2>7 DEF Signal, CloseDb, bpVars
  <2>8. CASE CloseLooks \/ CloseStops \/ CloseChan
    BY <2>8 DEF CloseLooks, CloseStops, CloseChan, Closes, bpVars
  <2>9. CASE Exit \/ Crash
    BY <2>9 DEF Exit, Crash, Halt
  <2>10. CASE Restart
    BY <2>10 DEF Restart
  <2>11. CASE UNCHANGED vars
    BY <2>11 DEF vars, bpVars
  <2> QED BY <2>1, <2>2, <2>3, <2>4, <2>5, <2>6, <2>7, <2>8, <2>9, <2>10, <2>11
          DEF Next, catchSysCall
<1>3. IInv /\ [Next]_vars => [Bp!Next]_(Bp!wbvars)
  BY <1>2
<1> QED BY <1>1, <1>3, InitInvariant, StepInvariant, PTL DEF Spec, Bp!Safety

-----------------------------------------------------------------------------
(* What ShutdownEnds rests on besides fairness and a store that is not     *)
(* jammed.                                                                 *)

\* Close goes to crond.Stop because of an entry, and entries are not lost.
StopsEntries == proc = "stop" => entries # Unsaved

LEMMA StepStops == IInv /\ StopsEntries /\ [Next]_vars => StopsEntries'
<1> SUFFICES ASSUME IInv, StopsEntries, [Next]_vars PROVE StopsEntries'
  OBVIOUS
<1> USE DEF IInv, StopsEntries
<1>1. Unsaved' = Unsaved
  BY DEF Unsaved
<1>2. CASE BootAdds
  <2>1. proc' = proc
    BY <1>2 DEF BootAdds, Boots
  <2>2. ASSUME entries # Unsaved PROVE entries' # Unsaved
    <3>1. PICK js \in Schedules \cup {Missing} :
            entries' = IF js = Missing THEN entries
                                       ELSE [entries EXCEPT ![Routes[at]] = js]
      BY <1>2 DEF BootAdds, route
    <3>2. PICK r \in Names : entries[r] # Missing
      BY <2>2 DEF Unsaved, Booting
    <3>3. entries'[r] # Missing
      BY <3>1, <3>2 DEF Booting
    <3> QED BY <3>3 DEF Unsaved
  <2> QED BY <1>1, <2>1, <2>2
<1>3. CASE BootFinds \/ BootCompletes \/ BootJudges \/ startCron \/ Reuse
  BY <1>1, <1>3 DEF BootFinds, Takes, BootCompletes, BootJudges, startCron, Reuse, Boots
<1>4. CASE Writer \/ BootCronNotifier \/ Jam
  BY <1>1, <1>4 DEF Writer, BootCronNotifier, Jam, bootVars
<1>5. CASE Signal \/ CloseDb \/ CloseLooks \/ CloseStops \/ CloseChan
  BY <1>1, <1>5
     DEF Signal, CloseDb, CloseLooks, CloseStops, CloseChan, Closes, bootVars
<1>6. CASE Exit \/ Crash \/ Restart
  BY <1>6 DEF Exit, Crash, Halt, Restart
<1>7. ASSUME NEW h \in Handlers, Serve(h) \/ Request(h) PROVE StopsEntries'
  <2>1. UNCHANGED <<proc, entries>>
    BY <1>7 DEF Serve, Sends, SendAdd, SendDel, Inserts, Deletes, Request, SaveBegins,
       FormSave, Begins, Rests, bootVars
  <2> QED BY <1>1, <2>1
<1>8. CASE UNCHANGED vars
  BY <1>1, <1>8 DEF vars, bootVars
<1> QED BY <1>2, <1>3, <1>4, <1>5, <1>6, <1>7, <1>8 DEF Next, BootCron, catchSysCall

\* The only step of the shutdown that may have to wait is crond.Stop, and it
\* waits for a runner that runs or that BootCron is about to start.
CloseGoesOn ==
  proc = "stop" => running \/ (boot # "done" /\ entries # Unsaved)

\* Close of brotzeit.go never waits in crond.Stop for a runner that nobody
\* starts any more, at whatever point of BootCron the signal came: there is
\* a runner, or a BootCron that has to come to its end before.
THEOREM CloseNotStranded == Spec => []CloseGoesOn
<1>1. Init => StopsEntries
  BY DEF Init, StopsEntries
<1>2. IInv /\ StopsEntries => CloseGoesOn
  BY DEF IInv, StopsEntries, RunsAfterBoot, CloseGoesOn
<1> QED BY <1>1, <1>2, StepStops, InitInvariant, StepInvariant, PTL DEF Spec

\* How far BootCron is with a provisioner.
Stage(place) == CASE place = "find" -> 0
                  [] place = "complete" -> 1
                  [] place = "judge" -> 2
                  [] place = "add" -> 3
                  [] OTHER -> 4

\* Until the process ends BootCron stays, goes on to the next provisioner, or
\* gets further with this one.
BootForward ==
  \/ proc' = "down"
  \/ UNCHANGED <<boot, at>>
  \/ at' = at + 1 /\ at <= Len(Routes)
  \/ at' = at /\ Stage(boot') > Stage(boot)

\* What makes BootCron wait: a transaction in a jammed store.
BootWaits == jammed /\ (boot = "complete" \/ (boot = "find" /\ at <= Len(Routes)))

\* BootCron deals with each provisioner once, in their order, and so comes to
\* startCron after finitely many steps, unless a transaction of it has to wait
\* in a jammed store: the loop over the provisioners cannot keep Close waiting
\* otherwise, and nothing else than the end of the process throws it back.
THEOREM BootTerminates ==
  Spec => /\ [][BootForward]_vars
          /\ [][boot' # boot \/ at' # at => ~BootWaits \/ proc' = "down"]_vars
<1>1. ASSUME IInv, [Next]_vars
      PROVE  /\ BootForward \/ UNCHANGED vars
             /\ boot' # boot \/ at' # at => ~BootWaits \/ proc' = "down"
  <2> USE <1>1 DEF BootForward, BootWaits
  <2>1. CASE BootFinds \/ BootCompletes \/ BootJudges
    BY <2>1, RoutesNamed DEF BootFinds, Takes, BootCompletes, BootJudges, NextRoute,
       Stage, IInv, Booting
  <2>2. CASE BootAdds
    BY <2>2, RoutesNamed DEF BootAdds, NextRoute, IInv, Booting
  <2>3. CASE startCron
    BY <2>3, RoutesNamed DEF startCron, Stage, IInv, Booting
  <2>4. CASE Exit \/ Crash
    BY <2>4 DEF Exit, Crash, Halt
  <2>5. CASE Writer \/ Jam \/ Reuse \/ BootCronNotifier \/ Signal \/ CloseDb \/ Restart
    BY <2>5 DEF Writer, Jam, Reuse, BootCronNotifier, Signal, CloseDb, Restart,
       bootVars
  <2>6. CASE CloseLooks \/ CloseStops \/ CloseChan
    BY <2>6 DEF CloseLooks, CloseStops, CloseChan, Closes, bootVars
  <2>7. ASSUME NEW h \in Handlers, Serve(h) \/ Request(h) PROVE UNCHANGED <<boot, at>>
    BY <2>7 DEF Serve, Sends, SendAdd, SendDel, Inserts, Deletes, Request, SaveBegins,
       FormSave, Begins, Rests, bootVars
  <2>8. CASE UNCHANGED vars
    BY <2>8 DEF vars, bootVars
  <2> QED BY <2>1, <2>2, <2>3, <2>4, <2>5, <2>6, <2>7, <2>8
          DEF Next, BootCron, catchSysCall
<1> QED BY <1>1, InitInvariant, StepInvariant, PTL DEF Spec
=============================================================================
