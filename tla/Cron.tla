------------------------------- MODULE Cron -------------------------------
(***************************************************************************)
(* The job runner of github.com/robfig/cron/cron.go: the goroutine run,    *)
(* which sleeps until the soonest entry is due and serves the channels     *)
(* add, remove, snapshot and stop while it sleeps, and one caller.         *)
(* doc.go:118-119 asks callers for a happens-before order between their    *)
(* calls, so a single caller is every caller the runner is written for; it *)
(* calls Start only when the runner is stopped and Stop only when it runs, *)
(* as startCron and Close of brotzeit.go do.                               *)
(*                                                                         *)
(* A schedule is what its Next method returns: a function from a time to a *)
(* later one, or to Zero when there is none.  The entries are a set: the   *)
(* code sorts them before each sleep and reads the soonest one at the head *)
(* and, when the timer fires, the prefix of those due at the same time.    *)
(***************************************************************************)
EXTENDS Naturals, FiniteSets, FiniteSetsExt

CONSTANTS Jobs,       \* entries: each Schedule call makes a new one
          Schedules,  \* what Schedule may be given
          Horizon,    \* bound: no activation after it
          MaxClock,   \* bound on the clock
          MaxLag      \* bound on how late the goroutine runs after a wake-up

Times == 0 .. MaxClock
Zero == 0
Never == MaxClock + 1   \* the timer of a runner without a due entry (10 years)
Nothing == [op |-> "none"]

ASSUME BoundsAssumption ==
  /\ Horizon \in Nat /\ MaxClock \in Nat /\ MaxLag \in Nat
  /\ Horizon + MaxLag <= MaxClock
\* cron.go:29: "Return the next activation time, later than the given time."
ASSUME SchedulesAssumption ==
  \A s \in Schedules : /\ s \in [Times -> 0 .. Horizon]
                       /\ \A t \in Times : s[t] # Zero => s[t] > t

VARIABLES
  clock,     \* the wall clock
  running,   \* c.running
  entries,   \* c.entries
  sched, next, prev,  \* the fields of each entry
  loop,      \* the goroutine run: "off", "starting", "top" of its for loop,
             \* "select", or "reply" (it sends the snapshot)
  now,       \* the local variable now of run
  timer,     \* when the time.After of the select fires; Never outside it
  call,      \* the call the caller is blocked in
  added,     \* history: the entries that were made; an Id is never used twice
  base,      \* history: the time from which an entry's Next was computed anew
  runs       \* history: the activations that were run

entryVars == <<entries, sched, next, prev>>
callVars  == <<call, added>>
loopVars  == <<loop, now, timer>>
vars == <<clock, running, entryVars, loopVars, callVars, base, runs>>

NoSchedule == [t \in Times |-> Zero]

Init ==
  /\ clock = 0 /\ running = FALSE
  /\ entries = {}
  /\ sched = [j \in Jobs |-> NoSchedule]
  /\ next = [j \in Jobs |-> Zero] /\ prev = next
  /\ loop = "off" /\ now = 0 /\ timer = Never
  /\ call = Nothing
  /\ added = {}
  /\ base = [j \in Jobs |-> Zero]
  /\ runs = {}

-----------------------------------------------------------------------------
(* The caller.  While the runner is on, a call is a send on one of its     *)
(* channels, which blocks until the select of run receives it.             *)

Idle == call.op = "none"

Add(j, s) ==
  /\ Idle /\ j \notin added
  /\ added' = added \cup {j}
  /\ sched' = [sched EXCEPT ![j] = s]
  /\ IF running THEN call' = [op |-> "add", job |-> j] /\ UNCHANGED entries
                ELSE entries' = entries \cup {j} /\ UNCHANGED call
  /\ UNCHANGED <<clock, running, next, prev, loopVars, base, runs>>

Remove(j) ==
  /\ Idle /\ j \in added
  /\ IF running THEN call' = [op |-> "remove", job |-> j] /\ UNCHANGED entries
                ELSE entries' = entries \ {j} /\ UNCHANGED call
  /\ UNCHANGED <<clock, running, sched, next, prev, loopVars, added, base, runs>>

\* Of a stopped runner, Entries only reads.
Entries ==
  /\ Idle /\ running
  /\ call' = [op |-> "snapshot"]
  /\ UNCHANGED <<clock, running, entryVars, loopVars, added, base, runs>>

Start ==
  /\ Idle /\ ~running
  /\ running' = TRUE
  /\ loop' = "starting"
  /\ UNCHANGED <<clock, entryVars, now, timer, callVars, base, runs>>

Stop ==
  /\ Idle /\ running
  /\ call' = [op |-> "stop"]
  /\ UNCHANGED <<clock, running, entryVars, loopVars, added, base, runs>>

-----------------------------------------------------------------------------
(* The goroutine run.                                                      *)

\* now := time.Now(), and every entry's Next anew.
Begins ==
  /\ loop = "starting"
  /\ now' = clock
  /\ next' = [j \in Jobs |-> IF j \in entries THEN sched[j][now'] ELSE next[j]]
  /\ base' = [j \in Jobs |-> IF j \in entries THEN now' ELSE base[j]]
  /\ loop' = "top"
  /\ UNCHANGED <<clock, running, entries, sched, prev, timer, callVars, runs>>

Coming == {j \in entries : next[j] # Zero}
effective == Min({next[j] : j \in Coming})

\* Mistake: a sort that puts zero times first.
SleepsOnZero ==
  /\ loop = "top"
  /\ timer' = IF Coming # entries \/ Coming = {} THEN Never
              ELSE clock + (IF effective > now THEN effective - now ELSE 0)
  /\ loop' = "select"
  /\ UNCHANGED <<clock, running, entryVars, now, callVars, base, runs>>

\* time.After(effective.Sub(now)): the wait is measured from now and starts
\* at once, however long ago now was read.
Sleeps ==
  /\ loop = "top"
  /\ timer' = IF Coming = {} THEN Never
              ELSE clock + (IF effective > now THEN effective - now ELSE 0)
  /\ loop' = "select"
  /\ UNCHANGED <<clock, running, entryVars, now, callVars, base, runs>>

\* Mistake: the prefix is not cut at the first entry that is not due.
DueAll == Coming

Due == {j \in Coming : next[j] = effective}

\* Mistake: the next time from now.
FollowingNow(j) == sched[j][now']

Following(j) == sched[j][effective]

\* The timer's case: every entry due at the effective time is run once and
\* gets its next time; now is when the timer fired.
Fires ==
  /\ loop = "select" /\ clock >= timer
  /\ \E t \in timer .. clock : t + MaxLag >= clock /\ now' = t
  /\ runs' = runs \cup {<<j, next[j]>> : j \in Due}
  /\ prev' = [j \in Jobs |-> IF j \in Due THEN next[j] ELSE prev[j]]
  /\ next' = [j \in Jobs |-> IF j \in Due THEN Following(j) ELSE next[j]]
  /\ loop' = "top" /\ timer' = Never
  /\ UNCHANGED <<clock, running, entries, sched, callVars, base>>

\* A case of the select that receives the caller's call of operation op; the
\* time.After of this sleep is forgotten.
Receives(op) == loop = "select" /\ call.op = op /\ timer' = Never

Adds ==
  /\ Receives("add")
  /\ entries' = entries \cup {call.job}
  /\ next' = [next EXCEPT ![call.job] = sched[call.job][now]]
  /\ base' = [base EXCEPT ![call.job] = now]
  /\ now' = clock
  /\ loop' = "top" /\ call' = Nothing
  /\ UNCHANGED <<clock, running, sched, prev, added, runs>>

Removes ==
  /\ Receives("remove")
  /\ entries' = entries \ {call.job}
  /\ now' = clock
  /\ loop' = "top" /\ call' = Nothing
  /\ UNCHANGED <<clock, running, sched, next, prev, added, base, runs>>

\* Mistake: the request is received and nothing is sent back.
SnapshotsOnly ==
  /\ Receives("snapshot")
  /\ loop' = "top"
  /\ UNCHANGED <<clock, running, entryVars, now, callVars, base, runs>>

\* The caller's nil is received; the snapshot goes back on the same channel.
Snapshots ==
  /\ Receives("snapshot")
  /\ loop' = "reply"
  /\ UNCHANGED <<clock, running, entryVars, now, callVars, base, runs>>

\* Mistake: now is not updated after the snapshot case.
RepliesStale ==
  /\ loop = "reply"
  /\ loop' = "top" /\ call' = Nothing
  /\ UNCHANGED <<clock, running, entryVars, now, timer, added, base, runs>>

Replies ==
  /\ loop = "reply"
  /\ now' = clock
  /\ loop' = "top" /\ call' = Nothing
  /\ UNCHANGED <<clock, running, entryVars, timer, added, base, runs>>

\* The goroutine returns; the caller clears c.running behind it.
Stops ==
  /\ Receives("stop")
  /\ loop' = "off" /\ running' = FALSE /\ call' = Nothing
  /\ UNCHANGED <<clock, entryVars, now, added, base, runs>>

-----------------------------------------------------------------------------
\* Time passes; between a reading of now and the sleep, at most MaxLag of it.
Tick ==
  /\ clock < MaxClock
  /\ loop = "top" => clock < now + MaxLag
  /\ clock' = clock + 1
  /\ UNCHANGED <<running, entryVars, loopVars, callVars, base, runs>>

CallerStep ==
  \/ \E j \in Jobs : Remove(j) \/ \E s \in Schedules : Add(j, s)
  \/ Entries \/ Start \/ Stop

GoesOn == Begins \/ Sleeps \/ Replies
Serves == Adds \/ Removes \/ Snapshots \/ Stops
RunStep == GoesOn \/ Fires \/ Serves

Next == CallerStep \/ RunStep \/ Tick

Spec == Init /\ [][Next]_vars

\* The goroutine and the clock go on; of the ready cases of a select, Go
\* picks one at random, so neither is passed over for ever.
FairSpec == /\ Spec
            /\ WF_vars(GoesOn) /\ WF_vars(Tick)
            /\ SF_vars(Fires) /\ SF_vars(Serves)

-----------------------------------------------------------------------------
Calls == {Nothing, [op |-> "snapshot"], [op |-> "stop"]}
           \cup [op : {"add", "remove"}, job : Jobs]

TypeOK ==
  /\ clock \in Times /\ now \in Times
  /\ timer \in Times \cup {Never}
  /\ running \in BOOLEAN
  /\ entries \in SUBSET Jobs
  /\ sched \in [Jobs -> [Times -> 0 .. Horizon]]
  /\ next \in [Jobs -> 0 .. Horizon] /\ prev \in [Jobs -> 0 .. Horizon]
  /\ loop \in {"off", "starting", "top", "select", "reply"}
  /\ call \in Calls
  /\ added \in SUBSET Jobs
  /\ base \in [Jobs -> Times]
  /\ runs \in SUBSET (Jobs \X Times)

\* The activations of j that were run since its Next was computed anew.
RunsOf(j) == {t \in Times : <<j, t>> \in runs /\ t > base[j]}

\* A job is never run before its time, whatever interrupted the sleep.
NeverEarly == \A j \in Jobs, t \in Times :
                <<j, t>> \in runs => t # Zero /\ t <= clock

\* No activation is run twice, neither by the loop nor after Stop and Start.
NoRerun == \A j \in Coming : <<j, next[j]>> \notin runs

\* What follows a run, or the base, was run next or is to come.
Exact(j) ==
  \A t \in RunsOf(j) \cup {base[j]} :
    /\ sched[j][t] \in RunsOf(j) \cup {next[j]}
    /\ \A u \in RunsOf(j) : u > t => sched[j][t] # Zero /\ u >= sched[j][t]

\* The runs of an entry are its schedule's activations one after the other,
\* from the time its Next was first computed up to Next: calls, other jobs
\* and late wake-ups skip none and add none.
ActivationsExact ==
  loop \in {"top", "select", "reply"} => \A j \in entries : Exact(j)

\* cron.go:42-44: Prev is the last run, the zero time before the first.
PrevIsLastRun ==
  \A j \in Jobs : IF \A t \in Times : <<j, t>> \notin runs
                    THEN prev[j] = Zero
                    ELSE /\ <<j, prev[j]>> \in runs
                         /\ \A t \in Times : <<j, t>> \in runs => t <= prev[j]

\* The goroutine never oversleeps: its timer fires no later than MaxLag after
\* the soonest entry is due, however often Schedule, Remove and Entries
\* interrupted the sleep before.
WakesInTime ==
  loop = "select" /\ Coming # {} => timer <= effective + MaxLag \/ timer <= clock

\* Every call returns while it may have to wait for the goroutine.
CallsReturn == call.op # "none" ~> Idle

\* An entry whose time has come is run unless it is removed or the runner
\* is stopped first.
DueRuns ==
  \A j \in Jobs : \A t \in 1 .. Horizon :
    (loop = "select" /\ j \in entries /\ next[j] = t)
      ~> (<<j, t>> \in runs \/ j \notin entries \/ ~running)
=============================================================================
