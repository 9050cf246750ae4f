------------------------------ MODULE Brotzeit ------------------------------
(***************************************************************************)
(* The cron service of brotzeit/brotzeit.go between the web interface, the *)
(* store and the job runner.  Handlers save a schedule per provisioner     *)
(* (SaveConfig), BootCron adds the saved schedules of complete             *)
(* provisioners to the runner and starts it, BootCronNotifier receives     *)
(* save events, and the signal handler of wlapp/app.go closes the store,   *)
(* then the service, and exits.  Boot starts the handlers before BootCron, *)
(* so saves, boot and shutdown overlap.                                    *)
(*                                                                         *)
(* The store is WriteBehind, the promise that Rucksack implements, with a  *)
(* bound on what its channel takes; of the runner (Cron) only its entries  *)
(* and whether it runs are kept.  What FindOne returns is a slice of       *)
(* bolt's map (BoltPages): updates that end while BootCron holds it, those *)
(* of any part of the program, may overwrite or unmap its bytes.           *)
(***************************************************************************)
EXTENDS Naturals, Sequences

CONSTANTS Routes,     \* the provisioners' routes, a sequence: their order
          Schedules,  \* schedules that cron.Parse accepts
          Complete,   \* a provisioner's data with which it is complete
          Partial,    \* and data with which it is not
          Missing,
          Handlers,   \* goroutines that serve requests
          Capacity,   \* writes the store takes before a call waits: those in
                      \* its channel and the one in the Writer's hand
          MaxCalls    \* bound on the requests of a behaviour

ASSUME BrotzeitAssumption ==
  /\ Routes \in Seq({Routes[k] : k \in DOMAIN Routes})
  /\ Missing \notin Schedules \cup {Complete, Partial}
  /\ Complete # Partial
  /\ Capacity \in Nat \ {0} /\ MaxCalls \in Nat

VARIABLES
  store, pending, open, jammed,  \* the Backpacker, see WriteBehind
  bucket,     \* does the bucket dbConfig exist in the file?
  proc,       \* the process: "up"; on a signal, "close" (in bp.Close, its
              \* channel closed), "store" (bp closed), "stop" (in crond.Stop),
              \* "stopped" (past it), "exit" (bz closed); then "down"
  pc, req,    \* each handler's place in a save, and what it asks for
  addq, delq, \* values in chanCronAdd and in chanCronDel, of capacity 1
  boot, at,   \* BootCron's place, and the index of its loop
  found,      \* its local variable s
  conf,       \* what ConfigComplete found, Missing outside it
  loose,      \* of "s" and "conf", what no longer is what was found
  entries,    \* the runner's entries: the schedule of a route, or Missing
  running,    \* crond.running
  held,       \* history: what the store held since the process started
  muddled,    \* history: routes for which a loose slice was read
  calls       \* history: how many requests were made

backpack == <<store, pending, open, jammed>>
bpVars == <<backpack, bucket, held>>
saveVars == <<pc, req, calls>>
bootVars == <<boot, at, found, conf, loose, entries, muddled>>
vars == <<bpVars, saveVars, bootVars, proc, addq, delq, running>>

Names == {Routes[k] : k \in DOMAIN Routes}
Cron(r) == <<r, "cron">>      \* dbConfig, dbCronKeyPrefix+route
Config(r) == <<r, "config">>  \* the provisioner's own bucket
Places == Names \X {"cron", "config"}
Data == Schedules \cup {Complete, Partial}

Bp == INSTANCE WriteBehind WITH Entries <- Places, Values <- Data

Unsaved == [r \in Names |-> Missing]
NoRequest == [at |-> Missing, data |-> Missing]
Holding(m) == [e \in Places |-> {m[e]}]

Init ==
  /\ Bp!Init
  /\ bucket = FALSE
  /\ proc = "up"
  /\ pc = [h \in Handlers |-> "idle"] /\ req = [h \in Handlers |-> NoRequest]
  /\ addq = 0 /\ delq = 0
  /\ boot = "find" /\ at = 1 /\ found = Missing /\ conf = Missing
  /\ loose = {} /\ muddled = {}
  /\ entries = Unsaved /\ running = FALSE
  /\ held = Holding(store)
  /\ calls = 0

up == proc # "down"
addOpen == proc \notin {"exit", "down"}   \* chanCronAdd is not closed

-----------------------------------------------------------------------------
(* The store between the calls.                                            *)

\* The history held follows the store.
Held == held' = [e \in Places |-> held[e] \cup {store'[e]}]

\* The Writer settles the oldest write, or drops it: the update failed, or
\* the database is closed.
Writer ==
  /\ up
  /\ \/ Bp!Settle /\ bucket' = (bucket \/ Head(pending).at[2] = "cron")
     \/ Bp!Drop /\ UNCHANGED bucket
  /\ Held
  /\ UNCHANGED <<saveVars, bootVars, proc, addq, delq, running>>

\* An update, of whatever part of the program, waits for ever in bolt.
Jam ==
  /\ up /\ Bp!Jam
  /\ UNCHANGED <<bucket, held, saveVars, bootVars, proc, addq, delq, running>>

-----------------------------------------------------------------------------
(* SaveConfig, and the provisioners' FormSave.                             *)

Goto(h, place) == pc' = [pc EXCEPT ![h] = place]
Rests == UNCHANGED <<bootVars, proc, running>>

Begins(h, e, d, place) ==
  /\ up /\ pc[h] = "idle" /\ calls < MaxCalls
  /\ calls' = calls + 1
  /\ req' = [req EXCEPT ![h] = [at |-> e, data |-> d]]
  /\ Goto(h, place)
  /\ UNCHANGED <<bpVars, addq, delq>> /\ Rests

\* SaveConfig for route r with the schedule s, Missing for an empty one.
SaveBegins(h, r, s) == Begins(h, Cron(r), s, IF s = Missing THEN "del" ELSE "add")

\* FormSave of provisioners/main.go inserts one field.
FormSave(h, r, d) == Begins(h, Config(r), d, "insert")

\* chanCronAdd <- f; after Close the send panics and net/http recovers.
SendAdd(h) ==
  /\ up /\ pc[h] = "add"
  /\ IF addOpen THEN addq = 0 /\ addq' = 1 /\ Goto(h, "insert")
                ELSE Goto(h, "idle") /\ UNCHANGED addq
  /\ UNCHANGED <<bpVars, req, calls, delq>> /\ Rests

SendDel(h) ==
  /\ up /\ pc[h] = "del"
  /\ delq = 0 /\ delq' = 1 /\ Goto(h, "delete")
  /\ UNCHANGED <<bpVars, req, calls, addq>> /\ Rests

\* bp.Insert waits for room in the channel; it panics once that is closed.
Inserts(h) ==
  /\ up /\ pc[h] = "insert"
  /\ Goto(h, "idle")
  /\ IF proc = "up" THEN Len(pending) < Capacity /\ Bp!Accept(req[h])
                    ELSE UNCHANGED backpack
  /\ UNCHANGED <<bucket, held, req, calls, addq, delq>> /\ Rests

\* bp.Delete waits while bolt is jammed.  It removes the schedule, or fails,
\* which nobody is told; without the bucket it panics.
Deletes(h) ==
  /\ up /\ pc[h] = "delete" /\ ~jammed
  /\ Goto(h, "idle")
  /\ \/ open /\ bucket /\ Bp!Remove(req[h].at)
     \/ UNCHANGED backpack
  /\ Held
  /\ UNCHANGED <<bucket, req, calls, addq, delq>> /\ Rests

-----------------------------------------------------------------------------
(* BootCron: the loop over the provisioners, then startCron.               *)

route == Routes[at]
NextRoute == /\ at' = at + 1 /\ boot' = "find"
             /\ conf' = Missing /\ loose' = {}
Boots == UNCHANGED <<bpVars, saveVars, proc, addq, delq>>

\* The slices of bolt's map that BootCron holds.
Slices == {x \in {"s", "conf"} : boot = "judge" \/ (x = "s" /\ boot \in {"complete", "add"})}

\* Two updates that end overwrite the bytes of a slice, or one that needs a
\* larger file unmaps them.
Reuse ==
  /\ up /\ open /\ ~jammed
  /\ \E x \in Slices \ loose : loose' = loose \cup {x}
  /\ UNCHANGED <<boot, at, found, conf, entries, muddled, running>> /\ Boots

\* What reading place e of the store gives, nothing in a closed one.
FindOne(e) == IF open THEN store[e] ELSE Missing

\* BootCron takes s for what is found.
Takes(s) ==
  /\ up /\ boot = "find" /\ at <= Len(Routes) /\ ~jammed
  /\ found' = s
  /\ IF s = Missing THEN NextRoute
                    ELSE boot' = "complete" /\ UNCHANGED <<at, conf, loose>>
  /\ UNCHANGED <<entries, muddled, running>> /\ Boots

\* Mistake: the provisioner's bucket is searched instead of dbConfig.
BootFindsData == Takes(FindOne(Config(route)))

\* Mistake: s is declared outside the loop and kept when nothing is found.
BootFindsKept ==
  Takes(IF FindOne(Cron(route)) = Missing THEN found ELSE FindOne(Cron(route)))

\* FindOne(dbConfig, ...): a transaction, which waits in a jammed store.
BootFinds == Takes(FindOne(Cron(route)))

\* ConfigComplete begins: without data, or in a closed database, an error.
BootCompletes ==
  /\ up /\ boot = "complete" /\ ~jammed
  /\ IF FindOne(Config(route)) = Missing
       THEN NextRoute
       ELSE /\ boot' = "judge" /\ conf' = FindOne(Config(route))
            /\ UNCHANGED <<at, loose>>
  /\ UNCHANGED <<found, entries, muddled, running>> /\ Boots

\* ConfigComplete answers.  That of a sitemap has a second transaction before
\* it looks at what the first one found.
BootJudges ==
  /\ up /\ boot = "judge"
  /\ \E ok \in BOOLEAN :
       /\ ok = (conf = Complete) \/ "conf" \in loose
       /\ IF ok THEN boot' = "add" /\ conf' = Missing /\ loose' = loose \ {"conf"}
                     /\ UNCHANGED at
                ELSE NextRoute
  /\ muddled' = IF "conf" \in loose THEN muddled \cup {route} ELSE muddled
  /\ UNCHANGED <<found, entries, running>> /\ Boots

\* string(s), and crond.AddFunc on the stopped runner, which refuses what is
\* no schedule (Missing).
BootAdds ==
  /\ up /\ boot = "add"
  /\ \E js \in Schedules \cup {Missing} :
       /\ js = found \/ "s" \in loose
       /\ entries' = IF js = Missing THEN entries ELSE [entries EXCEPT ![route] = js]
  /\ muddled' = IF "s" \in loose THEN muddled \cup {route} ELSE muddled
  /\ NextRoute
  /\ UNCHANGED <<found, running>> /\ Boots

\* Mistake: startCron looks at the database first.
startCronOpen ==
  /\ up /\ boot = "find" /\ at > Len(Routes)
  /\ boot' = "done"
  /\ running' = (running \/ (open /\ entries # Unsaved))
  /\ UNCHANGED <<at, found, conf, loose, entries, muddled>> /\ Boots

startCron ==
  /\ up /\ boot = "find" /\ at > Len(Routes)
  /\ boot' = "done"
  /\ running' = (running \/ entries # Unsaved)
  /\ UNCHANGED <<at, found, conf, loose, entries, muddled>> /\ Boots

BootCron == BootFinds \/ BootCompletes \/ BootJudges \/ BootAdds \/ startCron

\* Mistake: the select has no case for chanCronDel.
BootCronNotifierAdd ==
  /\ up /\ addq = 1 /\ addq' = 0
  /\ UNCHANGED <<bpVars, saveVars, bootVars, proc, delq, running>>

\* BootCronNotifier receives an event and logs it.
BootCronNotifier ==
  /\ up
  /\ \/ addq = 1 /\ addq' = 0 /\ UNCHANGED delq
     \/ delq = 1 /\ delq' = 0 /\ UNCHANGED addq
  /\ UNCHANGED <<bpVars, saveVars, bootVars, proc, running>>

-----------------------------------------------------------------------------
(* Shutdown: bp.Close, bz.Close, os.Exit; crash; restart.                  *)

\* bp.Close first closes the channel ...
Signal ==
  /\ proc = "up" /\ proc' = "close"
  /\ UNCHANGED <<bpVars, saveVars, bootVars, addq, delq, running>>

\* ... and then the database, and unmaps it.  In a jammed store it waits for
\* ever if a reader waits before it.
CloseDb ==
  /\ proc = "close" /\ proc' = "store"
  /\ Bp!Shut
  /\ loose' = Slices
  /\ UNCHANGED <<bucket, held, saveVars, boot, at, found, conf, entries, muddled,
                 addq, delq, running>>

Closes == UNCHANGED <<bpVars, saveVars, bootVars, addq, delq>>

\* bz.Close: if len(crond.Entries()) > 0.
CloseLooks ==
  /\ proc = "store"
  /\ proc' = IF entries # Unsaved THEN "stop" ELSE "stopped"
  /\ UNCHANGED running /\ Closes

\* crond.Stop() returns when the goroutine of a started runner receives it.
CloseStops ==
  /\ proc = "stop" /\ running
  /\ proc' = "stopped" /\ running' = FALSE
  /\ Closes

CloseChan ==
  /\ proc = "stopped" /\ proc' = "exit"
  /\ UNCHANGED running /\ Closes

\* The process is gone, with what was queued.
Halt ==
  /\ proc' = "down"
  /\ Bp!Die
  /\ pc' = [h \in Handlers |-> "idle"] /\ req' = [h \in Handlers |-> NoRequest]
  /\ addq' = 0 /\ delq' = 0
  /\ boot' = "find" /\ at' = 1 /\ found' = Missing /\ conf' = Missing
  /\ loose' = {} /\ muddled' = {}
  /\ entries' = Unsaved /\ running' = FALSE
  /\ UNCHANGED <<held, calls>>

Exit == proc = "exit" /\ UNCHANGED <<store, bucket>> /\ Halt

\* The Writer may have committed the write it had in hand.
Crash ==
  /\ up
  /\ \/ UNCHANGED <<store, bucket>>
     \/ /\ open /\ pending # <<>>
        /\ store' = Bp!Settled(store, Head(pending))
        /\ bucket' = (bucket \/ Head(pending).at[2] = "cron")
  /\ Halt

Restart ==
  /\ proc = "down" /\ proc' = "up"
  /\ Bp!Reopen
  /\ held' = Holding(store)
  /\ UNCHANGED <<bucket, pc, req, calls, bootVars, addq, delq, running>>

-----------------------------------------------------------------------------
Sends(h) == SendAdd(h) \/ SendDel(h) \/ Inserts(h)

Serve(h) == Sends(h) \/ Deletes(h)

Request(h) ==
  \E r \in Names : \/ \E s \in Schedules \cup {Missing} : SaveBegins(h, r, s)
                   \/ \E d \in {Complete, Partial} : FormSave(h, r, d)

catchSysCall == CloseLooks \/ CloseStops \/ CloseChan \/ Exit

Next == Writer \/ Jam \/ Reuse \/ BootCron \/ BootCronNotifier \/ Signal
        \/ CloseDb \/ catchSysCall \/ Crash \/ Restart
        \/ \E h \in Handlers : Serve(h) \/ Request(h)

Spec == Init /\ [][Next]_vars

\* Every goroutine of a living process is scheduled; a select with two ready
\* cases picks at random, and a channel serves its blocked senders in their
\* turn.  Nothing is asked of a jammed store: no write in it ends, no
\* transaction begins, and the database need not close.
FairSpec ==
  /\ Spec
  /\ WF_vars(Writer) /\ WF_vars(BootCron) /\ WF_vars(BootCronNotifier)
  /\ WF_vars(~jammed /\ CloseDb) /\ WF_vars(catchSysCall)
  /\ \A h \in Handlers : SF_vars(Sends(h)) /\ WF_vars(Deletes(h))

-----------------------------------------------------------------------------
(* Properties *)

TypeOK ==
  /\ store \in [Places -> Data \cup {Missing}] /\ pending \in Seq(Bp!Write)
  /\ open \in BOOLEAN /\ jammed \in BOOLEAN /\ bucket \in BOOLEAN
  /\ Len(pending) <= Capacity
  /\ proc \in {"up", "close", "store", "stop", "stopped", "exit", "down"}
  /\ pc \in [Handlers -> {"idle", "add", "del", "insert", "delete"}]
  /\ req \in [Handlers -> [at : Places, data : Data \cup {Missing}]
                          \cup {NoRequest}]
  /\ addq \in {0, 1} /\ delq \in {0, 1}
  /\ boot \in {"find", "complete", "judge", "add", "done"}
  /\ at \in 1 .. Len(Routes) + 1
  /\ found \in Schedules \cup {Missing} /\ conf \in {Complete, Partial, Missing}
  /\ loose \subseteq Slices /\ muddled \subseteq Names
  /\ entries \in [Names -> Schedules \cup {Missing}] /\ running \in BOOLEAN
  /\ held \in [Places -> SUBSET (Data \cup {Missing})]
  /\ calls \in Nat

\* Under requests that change the store while BootCron reads it, each route
\* gets an entry only with a schedule that was saved for it, when its data
\* was complete, and goes without one only if one of the two was lacking
\* during the boot or the store was closed before its end.  The exception is
\* a route for which BootCron read what it had found before updates ended
\* that overwrote it.
BootsFromStore ==
  \A r \in Names \ muddled :
    /\ entries[r] # Missing => /\ entries[r] \in held[Cron(r)]
                               /\ Complete \in held[Config(r)]
    /\ boot = "done" /\ entries[r] = Missing =>
         \/ Missing \in held[Cron(r)]
         \/ held[Config(r)] # {Complete}
         \/ ~open

\* A runner with entries runs from the end of BootCron until it is stopped.
RunsAfterBoot ==
  boot = "done" /\ proc \in {"up", "close", "store", "stop"} =>
    (running <=> entries # Unsaved)

\* A signal ends the process, at whatever point of the boot it comes: Close
\* waits in crond.Stop only for a runner that BootCron is about to start.
\* The exception is a store that is jammed, in which bp.Close and BootCron
\* may wait for ever.
ShutdownEnds == proc = "close" ~> proc = "down" \/ jammed

\* A save returns unless the store is jammed: the notifier and the Writer
\* keep the channels moving.
SavesReturn == \A h \in Handlers : pc[h] # "idle" ~> pc[h] = "idle" \/ jammed
=============================================================================
