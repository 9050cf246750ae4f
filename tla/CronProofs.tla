---------------------------- MODULE CronProofs ----------------------------
(***************************************************************************)
(* Proofs about Cron for any jobs, any schedules that only look ahead, any *)
(* horizon and any lag.                                                    *)
(***************************************************************************)
EXTENDS Cron, TLAPS, WellFoundedInduction

Before == {r \in Nat \X Nat : r[1] < r[2]}

LEMMA BeforeWellFounded == IsWellFoundedOn(Before, Nat)
<1>1. Before = OpToRel(<, Nat)
  BY DEF Before, OpToRel
<1> QED BY <1>1, NatLessThanWellFounded

\* The soonest of a set of times is one of them and no later than the others.
LEMMA Soonest ==
  ASSUME NEW S \in SUBSET Nat, S # {}
  PROVE  Min(S) \in S /\ \A t \in S : Min(S) <= t
<1>1. PICK s \in S : \A t \in S : <<t, s>> \notin Before
  BY BeforeWellFounded, WFMin
<1>2. ASSUME NEW t \in S, t < s PROVE FALSE
  <2>1. <<t, s>> \in Nat \X Nat /\ <<t, s>>[1] < <<t, s>>[2]
    BY <1>2
  <2>2. <<t, s>> \in Before
    BY <2>1, Zenon DEF Before
  <2> QED BY <1>1, <2>2
<1>3. \A t \in S : s =< t
  BY <1>2
<1>4. \E x \in S : \A y \in S : x =< y
  BY <1>3
<1> QED BY <1>4 DEF Min

\* The effective time is that of an entry, and no entry comes sooner.
LEMMA EffectiveIsSoonest ==
  ASSUME TypeOK, Coming # {}
  PROVE  /\ effective \in 1 .. Horizon
         /\ \E j \in Coming : next[j] = effective
         /\ \A j \in Coming : effective <= next[j]
<1> DEFINE S == {next[j] : j \in Coming}
<1>1. \A j \in Coming : next[j] \in 1 .. Horizon
  BY BoundsAssumption DEF TypeOK, Coming, Zero
<1>2. S \in SUBSET Nat /\ S # {}
  BY <1>1
<1> HIDE DEF S
<1>3. Min(S) \in S /\ \A t \in S : Min(S) <= t
  BY <1>2, Soonest
<1> USE DEF S
<1> QED BY <1>1, <1>3 DEF effective

\* Schedules only look ahead, those of the entries too.
LooksAhead == \A j \in Jobs : \A t \in Times : sched[j][t] # Zero => sched[j][t] > t

\* The goroutine lives from Start to Stop, and a call waits only for it.
Alive == /\ running <=> loop # "off"
         /\ ~running => call = Nothing
         /\ loop = "reply" => call.op = "snapshot"

\* The clock is never behind what was read from it.
ClockAhead == /\ now <= clock
              /\ \A j \in Jobs : base[j] <= clock
              /\ loop = "top" => clock <= now + MaxLag

Adding(j) == call = [op |-> "add", job |-> j]

\* A job runs only after it was added, and what is being added is new.
Additions ==
  /\ \A j \in entries : j \in added
  /\ \A j \in Jobs : j \notin added => \A t \in Times : <<j, t>> \notin runs
  /\ \A j \in Jobs : Adding(j) =>
       /\ j \in added /\ j \notin entries
       /\ \A t \in Times : <<j, t>> \notin runs

\* What comes next for an entry is later than whatever ran of it.
NextIsLater ==
  \A j \in Coming : \A t \in Times : <<j, t>> \in runs => t < next[j]

\* The timer is not set before the soonest entry is due.
TimerNotEarly ==
  /\ loop = "select" => IF Coming = {} THEN timer = Never
                        ELSE timer >= effective
  /\ loop # "select" => timer = Never

IInv == TypeOK /\ LooksAhead /\ Alive /\ ClockAhead /\ Additions /\ NeverEarly
        /\ NextIsLater /\ TimerNotEarly /\ ActivationsExact /\ PrevIsLastRun
        /\ WakesInTime

LEMMA CallShapes ==
  /\ Nothing \in Calls /\ [op |-> "snapshot"] \in Calls /\ [op |-> "stop"] \in Calls
  /\ \A j \in Jobs : /\ [op |-> "add", job |-> j] \in Calls
                     /\ [op |-> "remove", job |-> j] \in Calls
                     /\ Nothing # [op |-> "add", job |-> j]
                     /\ [op |-> "snapshot"] # [op |-> "add", job |-> j]
                     /\ [op |-> "stop"] # [op |-> "add", job |-> j]
  /\ \A i, j \in Jobs : /\ [op |-> "remove", job |-> i] # [op |-> "add", job |-> j]
                        /\ [op |-> "add", job |-> i] = [op |-> "add", job |-> j]
                             => i = j
  /\ \A c \in Calls : c.op = "add" =>
       c.job \in Jobs /\ c = [op |-> "add", job |-> c.job]
  /\ \A c \in Calls : c.op = "remove" => c.job \in Jobs
<1>1. \A j \in Jobs : /\ [op |-> "add", job |-> j].op = "add"
                      /\ [op |-> "add", job |-> j].job = j
                      /\ [op |-> "remove", job |-> j].op = "remove"
  OBVIOUS
<1>2. [op |-> "snapshot"].op = "snapshot" /\ [op |-> "stop"].op = "stop"
      /\ Nothing.op = "none"
  BY DEF Nothing
<1> QED BY <1>1, <1>2 DEF Calls

LEMMA InitInvariant == Init => IInv
<1> SUFFICES ASSUME Init PROVE IInv
  OBVIOUS
<1> USE BoundsAssumption DEF Init, Nothing, Never, Zero, Times
<1>1. TypeOK
  <2>1. NoSchedule \in [Times -> 0 .. Horizon]
    BY DEF NoSchedule
  <2>2. sched \in [Jobs -> [Times -> 0 .. Horizon]]
    BY <2>1
  <2>3. next \in [Jobs -> 0 .. Horizon] /\ base \in [Jobs -> Times]
        /\ added \in SUBSET Jobs
    OBVIOUS
  <2>4. call = Nothing /\ clock \in Times /\ now \in Times /\ timer \in Times \cup {Never}
    OBVIOUS
  <2>5. running \in BOOLEAN /\ entries \in SUBSET Jobs /\ prev = next /\ loop = "off" /\ runs \in SUBSET (Jobs \X Times)
    OBVIOUS
  <2> HIDE DEF Init, Nothing, Never, Times
  <2> QED BY <2>2, <2>3, <2>4, <2>5, CallShapes DEF TypeOK
<1>2. LooksAhead /\ Alive /\ ClockAhead /\ NeverEarly
  BY DEF LooksAhead, Alive, ClockAhead, NeverEarly, NoSchedule
<1>4. Additions
  BY CallShapes DEF Additions, Adding
<1>3. NextIsLater /\ TimerNotEarly /\ ActivationsExact /\ PrevIsLastRun /\ WakesInTime
  BY DEF NextIsLater, TimerNotEarly, ActivationsExact, PrevIsLastRun,
     WakesInTime
<1> QED BY <1>1, <1>2, <1>3, <1>4 DEF IInv

LEMMA SameExact ==
  ASSUME NEW j, runs' = runs, base'[j] = base[j], next'[j] = next[j],
         sched'[j] = sched[j], Exact(j)
  PROVE  Exact(j)'
<1>1. RunsOf(j)' = RunsOf(j)
  BY DEF RunsOf
<1> QED BY <1>1 DEF Exact

\* When the timer fires something is due.
LEMMA FiresDue ==
  ASSUME TypeOK, TimerNotEarly, Fires
  PROVE  Coming # {} /\ effective <= clock /\ effective \in 1 .. Horizon
<1>1. loop = "select" /\ clock >= timer
  BY DEF Fires
<1>2. clock \in 0 .. MaxClock /\ timer \in Nat
  BY BoundsAssumption DEF TypeOK, Times, Never
<1>3. Coming # {}
  <2>1. timer # MaxClock + 1
    BY <1>1, <1>2, BoundsAssumption
  <2> QED BY <1>1, <2>1 DEF TimerNotEarly, Never
<1>4. effective \in 1 .. Horizon
  BY <1>3, EffectiveIsSoonest
<1>5. timer >= effective
  BY <1>1, <1>3 DEF TimerNotEarly
<1>6. effective <= clock
  <2> DEFINE e == effective
  <2>1. e \in Nat /\ timer >= e
    BY <1>4, <1>5
  <2> HIDE DEF e
  <2>2. e <= clock
    BY <1>1, <1>2, <2>1
  <2> QED BY <2>2 DEF e
<1> QED BY <1>3, <1>4, <1>6

LEMMA StepInvariant == IInv /\ [Next]_vars => IInv'
<1> SUFFICES ASSUME IInv, [Next]_vars
             PROVE  IInv'
  OBVIOUS
<1> USE BoundsAssumption, SchedulesAssumption DEF IInv, Zero, Times
<1>0. Coming # {} => /\ effective \in 1 .. Horizon
                     /\ \E j \in Coming : next[j] = effective
                     /\ \A j \in Coming : effective <= next[j]
  BY EffectiveIsSoonest
<1>1. ASSUME NEW i \in Jobs, Remove(i) PROVE IInv'
  <2>1. TypeOK'
    <3>1. call' \in Calls /\ entries' \in SUBSET Jobs
      BY <1>1, CallShapes DEF Remove, TypeOK
    <3> QED BY <1>1, <3>1 DEF Remove, TypeOK, loopVars
  <2>2. LooksAhead'
    BY <1>1 DEF LooksAhead, TypeOK, Remove, Idle, entryVars, loopVars, callVars
  <2>3. Alive'
    BY <1>1, CallShapes DEF Alive, Nothing, TypeOK, Remove, Idle, entryVars,
       loopVars, callVars
  <2>4. ClockAhead'
    BY <1>1 DEF ClockAhead, TypeOK, Remove, Idle, entryVars, loopVars, callVars
  <2>5. Additions'
    BY <1>1, CallShapes DEF Additions, Adding, Alive, TypeOK, Remove, Idle,
       entryVars, loopVars, callVars
  <2>6. NeverEarly'
    BY <1>1 DEF NeverEarly, TypeOK, Remove, Idle, entryVars, loopVars, callVars
  <2>7. NextIsLater'
    BY <1>1 DEF NextIsLater, Coming, Alive, Additions, TypeOK, Remove, Idle,
       entryVars, loopVars, callVars
  <2>8. TimerNotEarly'
    BY <1>1 DEF TimerNotEarly, Coming, effective, Alive, TypeOK, Remove, Idle,
       entryVars, loopVars, callVars
  <2>9. ActivationsExact'
    BY <1>1, SameExact DEF ActivationsExact, Alive, TypeOK, Remove, Idle,
       entryVars, loopVars, callVars
  <2>10. PrevIsLastRun'
    BY <1>1 DEF PrevIsLastRun, TypeOK, Remove, Idle, entryVars, loopVars,
       callVars
  <2>11. WakesInTime'
    BY <1>1 DEF WakesInTime, Coming, effective, Alive, TypeOK, Remove, Idle,
       entryVars, loopVars, callVars
  <2> QED BY <2>1, <2>2, <2>3, <2>4, <2>5, <2>6, <2>7, <2>8, <2>9, <2>10, <2>11
<1>2. ASSUME NEW i \in Jobs, NEW s \in Schedules, Add(i, s) PROVE IInv'
  <2>1. TypeOK'
    <3>1. sched' \in [Jobs -> [Times -> 0 .. Horizon]]
      BY <1>2 DEF Add, TypeOK
    <3>2. added' \in SUBSET Jobs
      BY <1>2 DEF Add, TypeOK
    <3>3. entries' \in SUBSET Jobs
      BY <1>2 DEF Add, TypeOK
    <3>4. call' \in Calls
      BY <1>2, CallShapes DEF Add, TypeOK
    <3> QED BY <1>2, <3>1, <3>2, <3>3, <3>4 DEF Add, TypeOK, loopVars
  <2>2. LooksAhead'
    BY <1>2 DEF LooksAhead, TypeOK, Add, Idle, entryVars, loopVars, callVars
  <2>3. Alive'
    BY <1>2, CallShapes DEF Alive, Nothing, TypeOK, Add, Idle, entryVars,
       loopVars, callVars
  <2>4. ClockAhead'
    BY <1>2 DEF ClockAhead, TypeOK, Add, Idle, entryVars, loopVars, callVars
  <2>5. Additions'
    <3>1. ASSUME NEW j \in entries' PROVE j \in added'
      BY <1>2 DEF Add, Additions, TypeOK, Never
    <3>2. ASSUME NEW j \in Jobs, j \notin added', NEW t \in Times
          PROVE <<j, t>> \notin runs'
      BY <1>2, <3>2 DEF Add, Additions, TypeOK, Never
    <3>3. ASSUME NEW j \in Jobs, Adding(j)'
          PROVE /\ j \in added' /\ j \notin entries'
                /\ \A t \in Times : <<j, t>> \notin runs'
      <4>1. running /\ j = i
        BY <1>2, <3>3, CallShapes DEF Add, Adding, Alive
      <4> QED BY <1>2, <4>1 DEF Add, Additions, TypeOK, Never
    <3> QED BY <3>1, <3>2, <3>3 DEF Additions
  <2>6. NeverEarly'
    BY <1>2 DEF NeverEarly, TypeOK, Add, Idle, entryVars, loopVars, callVars
  <2>7. NextIsLater'
    BY <1>2 DEF NextIsLater, Coming, Alive, Additions, TypeOK, Add, Idle,
       entryVars, loopVars, callVars
  <2>8. TimerNotEarly'
    BY <1>2 DEF TimerNotEarly, Coming, effective, Alive, TypeOK, Add, Idle,
       entryVars, loopVars, callVars
  <2>9. ActivationsExact'
    <3> SUFFICES ASSUME loop \in {"top", "select", "reply"}, NEW j \in entries PROVE Exact(j)'
      BY <1>2 DEF ActivationsExact, Add, Alive, loopVars, Idle
    <3>1. j # i
      BY <1>2 DEF Additions, Add
    <3>2. Exact(j) /\ sched'[j] = sched[j]
      BY <1>2, <3>1 DEF Add, TypeOK, ActivationsExact, loopVars
    <3> QED BY <1>2, <3>2, SameExact DEF Add
  <2>10. PrevIsLastRun'
    BY <1>2 DEF PrevIsLastRun, TypeOK, Add, Idle, entryVars, loopVars, callVars
  <2>11. WakesInTime'
    BY <1>2 DEF WakesInTime, Coming, effective, Alive, TypeOK, Add, Idle,
       entryVars, loopVars, callVars
  <2> QED BY <2>1, <2>2, <2>3, <2>4, <2>5, <2>6, <2>7, <2>8, <2>9, <2>10, <2>11
<1>3. ASSUME Entries PROVE IInv'
  <2>1. TypeOK'
    BY <1>3, CallShapes DEF TypeOK, Entries, Idle, entryVars, loopVars, callVars
  <2>2. LooksAhead'
    BY <1>3 DEF LooksAhead, TypeOK, Entries, Idle, entryVars, loopVars, callVars
  <2>3. Alive'
    BY <1>3, CallShapes DEF Alive, Nothing, TypeOK, Entries, Idle, entryVars,
       loopVars, callVars
  <2>4. ClockAhead'
    BY <1>3 DEF ClockAhead, TypeOK, Entries, Idle, entryVars, loopVars, callVars
  <2>5. Additions'
    BY <1>3, CallShapes DEF Additions, Adding, Alive, TypeOK, Entries, Idle,
       entryVars, loopVars, callVars
  <2>6. NeverEarly'
    BY <1>3 DEF NeverEarly, TypeOK, Entries, Idle, entryVars, loopVars, callVars
  <2>7. NextIsLater'
    BY <1>3 DEF NextIsLater, Coming, Alive, Additions, TypeOK, Entries, Idle,
       entryVars, loopVars, callVars
  <2>8. TimerNotEarly'
    BY <1>3 DEF TimerNotEarly, Coming, effective, Alive, TypeOK, Entries, Idle,
       entryVars, loopVars, callVars
  <2>9. ActivationsExact'
    BY <1>3, SameExact DEF ActivationsExact, Alive, TypeOK, Entries, Idle,
       entryVars, loopVars, callVars
  <2>10. PrevIsLastRun'
    BY <1>3 DEF PrevIsLastRun, TypeOK, Entries, Idle, entryVars, loopVars,
       callVars
  <2>11. WakesInTime'
    BY <1>3 DEF WakesInTime, Coming, effective, Alive, TypeOK, Entries, Idle,
       entryVars, loopVars, callVars
  <2> QED BY <2>1, <2>2, <2>3, <2>4, <2>5, <2>6, <2>7, <2>8, <2>9, <2>10, <2>11
<1>4. ASSUME Start PROVE IInv'
  <2>1. TypeOK'
    BY <1>4, CallShapes DEF TypeOK, Start, Idle, entryVars, loopVars, callVars
  <2>2. LooksAhead'
    BY <1>4 DEF LooksAhead, TypeOK, Start, Idle, entryVars, loopVars, callVars
  <2>3. Alive'
    BY <1>4, CallShapes DEF Alive, Nothing, TypeOK, Start, Idle, entryVars,
       loopVars, callVars
  <2>4. ClockAhead'
    BY <1>4 DEF ClockAhead, TypeOK, Start, Idle, entryVars, loopVars, callVars
  <2>5. Additions'
    BY <1>4, CallShapes DEF Additions, Adding, Alive, TypeOK, Start, Idle,
       entryVars, loopVars, callVars
  <2>6. NeverEarly'
    BY <1>4 DEF NeverEarly, TypeOK, Start, Idle, entryVars, loopVars, callVars
  <2>7. NextIsLater'
    BY <1>4 DEF NextIsLater, Coming, Alive, Additions, TypeOK, Start, Idle,
       entryVars, loopVars, callVars
  <2>8. TimerNotEarly'
    BY <1>4 DEF TimerNotEarly, Coming, effective, Alive, TypeOK, Start, Idle,
       entryVars, loopVars, callVars
  <2>9. ActivationsExact'
    BY <1>4, SameExact DEF ActivationsExact, Alive, TypeOK, Start, Idle,
       entryVars, loopVars, callVars
  <2>10. PrevIsLastRun'
    BY <1>4 DEF PrevIsLastRun, TypeOK, Start, Idle, entryVars, loopVars,
       callVars
  <2>11. WakesInTime'
    BY <1>4 DEF WakesInTime, Coming, effective, Alive, TypeOK, Start, Idle,
       entryVars, loopVars, callVars
  <2> QED BY <2>1, <2>2, <2>3, <2>4, <2>5, <2>6, <2>7, <2>8, <2>9, <2>10, <2>11
<1>5. ASSUME Stop PROVE IInv'
  <2>1. TypeOK'
    BY <1>5, CallShapes DEF TypeOK, Stop, Idle, entryVars, loopVars, callVars
  <2>2. LooksAhead'
    BY <1>5 DEF LooksAhead, TypeOK, Stop, Idle, entryVars, loopVars, callVars
  <2>3. Alive'
    BY <1>5, CallShapes DEF Alive, Nothing, TypeOK, Stop, Idle, entryVars,
       loopVars, callVars
  <2>4. ClockAhead'
    BY <1>5 DEF ClockAhead, TypeOK, Stop, Idle, entryVars, loopVars, callVars
  <2>5. Additions'
    BY <1>5, CallShapes DEF Additions, Adding, Alive, TypeOK, Stop, Idle,
       entryVars, loopVars, callVars
  <2>6. NeverEarly'
    BY <1>5 DEF NeverEarly, TypeOK, Stop, Idle, entryVars, loopVars, callVars
  <2>7. NextIsLater'
    BY <1>5 DEF NextIsLater, Coming, Alive, Additions, TypeOK, Stop, Idle,
       entryVars, loopVars, callVars
  <2>8. TimerNotEarly'
    BY <1>5 DEF TimerNotEarly, Coming, effective, Alive, TypeOK, Stop, Idle,
       entryVars, loopVars, callVars
  <2>9. ActivationsExact'
    BY <1>5, SameExact DEF ActivationsExact, Alive, TypeOK, Stop, Idle,
       entryVars, loopVars, callVars
  <2>10. PrevIsLastRun'
    BY <1>5 DEF PrevIsLastRun, TypeOK, Stop, Idle, entryVars, loopVars, callVars
  <2>11. WakesInTime'
    BY <1>5 DEF WakesInTime, Coming, effective, Alive, TypeOK, Stop, Idle,
       entryVars, loopVars, callVars
  <2> QED BY <2>1, <2>2, <2>3, <2>4, <2>5, <2>6, <2>7, <2>8, <2>9, <2>10, <2>11
<1>6. ASSUME Begins PROVE IInv'
  <2>1. TypeOK'
    <3>1. next' \in [Jobs -> 0 .. Horizon] /\ base' \in [Jobs -> Times]
      BY <1>6 DEF Begins, TypeOK
    <3> QED BY <1>6, <3>1 DEF Begins, TypeOK, callVars
  <2>2. LooksAhead'
    BY <1>6 DEF LooksAhead, TypeOK, Begins, entryVars, loopVars, callVars
  <2>3. Alive'
    BY <1>6, CallShapes DEF Alive, Nothing, TypeOK, Begins, entryVars,
       loopVars, callVars
  <2>4. ClockAhead'
    BY <1>6 DEF ClockAhead, TypeOK, Begins, entryVars, loopVars, callVars
  <2>5. Additions'
    BY <1>6, CallShapes DEF Additions, Adding, Alive, TypeOK, Begins,
       entryVars, loopVars, callVars
  <2>6. NeverEarly'
    BY <1>6 DEF NeverEarly, TypeOK, Begins, entryVars, loopVars, callVars
  <2>7. NextIsLater'
    <3> SUFFICES ASSUME NEW j \in Coming', NEW t \in Times, <<j, t>> \in runs
                 PROVE  t < next'[j]
      BY <1>6 DEF NextIsLater, Begins
    <3>1. j \in entries /\ next'[j] = sched[j][clock] /\ next'[j] # Zero
      BY <1>6 DEF Begins, Coming, TypeOK
    <3> QED BY <3>1 DEF LooksAhead, NeverEarly, TypeOK
  <2>8. TimerNotEarly'
    BY <1>6 DEF TimerNotEarly, Coming, effective, Alive, TypeOK, Begins,
       entryVars, loopVars, callVars
  <2>9. ActivationsExact'
    <3> SUFFICES ASSUME NEW j \in entries PROVE Exact(j)'
      BY <1>6 DEF ActivationsExact, Begins
    <3>1. RunsOf(j)' = {}
      BY <1>6 DEF Begins, RunsOf, NeverEarly, TypeOK
    <3>2. base'[j] = clock /\ next'[j] = sched'[j][clock]
      BY <1>6 DEF Begins, TypeOK
    <3> QED BY <3>1, <3>2 DEF Exact
  <2>10. PrevIsLastRun'
    BY <1>6 DEF PrevIsLastRun, TypeOK, Begins, entryVars, loopVars, callVars
  <2>11. WakesInTime'
    BY <1>6 DEF WakesInTime, Coming, effective, Alive, TypeOK, Begins,
       entryVars, loopVars, callVars
  <2> QED BY <2>1, <2>2, <2>3, <2>4, <2>5, <2>6, <2>7, <2>8, <2>9, <2>10, <2>11
<1>7. ASSUME Sleeps PROVE IInv'
  <2>1. TypeOK'
    <3>1. timer' \in Times \cup {Never}
      <4>1. CASE Coming = {}
        BY <1>7, <4>1 DEF Sleeps
      <4>2. CASE Coming # {} /\ effective > now
        <5>1. timer' = clock + (effective - now) /\ clock <= now + MaxLag
          BY <1>7, <4>2 DEF Sleeps, ClockAhead
        <5>2. effective \in 1 .. Horizon /\ clock \in Times /\ now \in Times
          BY <1>0, <4>2 DEF TypeOK
        <5> QED BY <4>2, <5>1, <5>2
      <4>3. CASE Coming # {} /\ ~(effective > now)
        BY <1>7, <4>3 DEF Sleeps, TypeOK
      <4> QED BY <4>1, <4>2, <4>3
    <3> QED BY <1>7, <3>1 DEF TypeOK, Sleeps, entryVars, callVars
  <2>2. LooksAhead'
    BY <1>7 DEF LooksAhead, TypeOK, Sleeps, entryVars, loopVars, callVars
  <2>3. Alive'
    BY <1>7, CallShapes DEF Alive, Nothing, TypeOK, Sleeps, entryVars,
       loopVars, callVars
  <2>4. ClockAhead'
    BY <1>7 DEF ClockAhead, TypeOK, Sleeps, entryVars, loopVars, callVars
  <2>5. Additions'
    BY <1>7, CallShapes DEF Additions, Adding, Alive, TypeOK, Sleeps,
       entryVars, loopVars, callVars
  <2>6. NeverEarly'
    BY <1>7 DEF NeverEarly, TypeOK, Sleeps, entryVars, loopVars, callVars
  <2>7. NextIsLater'
    BY <1>7 DEF NextIsLater, Coming, Alive, Additions, TypeOK, Sleeps,
       entryVars, loopVars, callVars
  <2>8. TimerNotEarly'
    <3>1. Coming' = Coming /\ effective' = effective
      BY <1>7 DEF Sleeps, entryVars, Coming, effective
    <3> QED BY <1>7, <3>1, <1>0
            DEF Sleeps, TypeOK, ClockAhead, TimerNotEarly, entryVars
  <2>9. ActivationsExact'
    BY <1>7, SameExact DEF ActivationsExact, Alive, TypeOK, Sleeps, entryVars,
       loopVars, callVars
  <2>10. PrevIsLastRun'
    BY <1>7 DEF PrevIsLastRun, TypeOK, Sleeps, entryVars, loopVars, callVars
  <2>11. WakesInTime'
    <3>1. Coming' = Coming /\ effective' = effective
      BY <1>7 DEF Sleeps, entryVars, Coming, effective
    <3> SUFFICES ASSUME Coming # {}
                 PROVE  timer' <= effective + MaxLag \/ timer' <= clock
      BY <1>7, <3>1 DEF Sleeps, WakesInTime
    <3>2. effective \in 1 .. Horizon /\ clock \in Times /\ now \in Times
      BY <1>0 DEF TypeOK
    <3>3. clock <= now + MaxLag
      BY <1>7 DEF Sleeps, ClockAhead
    <3> QED BY <1>7, <3>2, <3>3 DEF Sleeps
  <2> QED BY <2>1, <2>2, <2>3, <2>4, <2>5, <2>6, <2>7, <2>8, <2>9, <2>10, <2>11
<1>8. ASSUME Fires PROVE IInv'
  <2>1. TypeOK'
    <3>1. Coming # {} /\ effective <= clock /\ effective \in 1 .. Horizon
      BY <1>8, FiresDue
    <3>2. \A j \in Due : /\ j \in Jobs /\ next[j] = effective
                         /\ Following(j) \in 0 .. Horizon
      BY <3>1 DEF Due, Following, Coming, TypeOK
    <3>3. runs' \in SUBSET (Jobs \X Times)
      BY <1>8, <3>1, <3>2 DEF Fires, TypeOK
    <3>4. prev' \in [Jobs -> 0 .. Horizon] /\ next' \in [Jobs -> 0 .. Horizon]
      BY <1>8, <3>1, <3>2 DEF Fires, TypeOK
    <3>5. now' \in Times
      BY <1>8 DEF Fires, TypeOK, Never
    <3> QED BY <1>8, <3>3, <3>4, <3>5 DEF Fires, TypeOK, callVars
  <2>2. LooksAhead'
    BY <1>8 DEF LooksAhead, TypeOK, Fires, Due, Following, entryVars, loopVars,
       callVars
  <2>3. Alive'
    BY <1>8, CallShapes DEF Alive, Nothing, TypeOK, Fires, Due, Following,
       entryVars, loopVars, callVars
  <2>4. ClockAhead'
    BY <1>8 DEF ClockAhead, TypeOK, Fires, Due, Following, entryVars, loopVars,
       callVars
  <2>5. Additions'
    <3>1. \A j \in Jobs, t \in Times : <<j, t>> \in runs' <=>
           <<j, t>> \in runs \/ (j \in Due /\ t = next[j])
      BY <1>8 DEF Fires
    <3> QED BY <1>8, <3>1 DEF Fires, Due, Coming, Additions, Adding, callVars,
       TypeOK
  <2>6. NeverEarly'
    <3>1. Coming # {} /\ effective <= clock /\ effective \in 1 .. Horizon
      BY <1>8, FiresDue
    <3>2. \A j \in Jobs, t \in Times : <<j, t>> \in runs' <=>
           <<j, t>> \in runs \/ (j \in Due /\ t = next[j])
      BY <1>8 DEF Fires
    <3> QED BY <1>8, <3>1, <3>2 DEF Fires, NeverEarly, Due
  <2>7. NextIsLater'
    <3>1. Coming # {} /\ effective <= clock /\ effective \in 1 .. Horizon
      BY <1>8, FiresDue
    <3>2. \A j \in Jobs, t \in Times : <<j, t>> \in runs' <=>
           <<j, t>> \in runs \/ (j \in Due /\ t = next[j])
      BY <1>8 DEF Fires
    <3> SUFFICES ASSUME NEW j \in Coming', NEW t \in Times, <<j, t>> \in runs'
                 PROVE  t < next'[j]
      BY DEF NextIsLater
    <3>3. j \in entries /\ j \in Jobs /\ next'[j] # Zero
      BY <1>8 DEF Fires, Coming, TypeOK
    <3>4. CASE j \in Due
      <4>1. j \in Coming /\ next[j] = effective /\ t <= effective
        BY <3>2, <3>3, <3>4, <3>1 DEF Due, NextIsLater
      <4>2. next'[j] = sched[j][effective]
        BY <1>8, <3>3, <3>4 DEF Fires, Following
      <4> QED BY <4>1, <4>2, <3>1, <3>3 DEF LooksAhead, TypeOK
    <3>5. CASE j \notin Due
      BY <1>8, <3>2, <3>3, <3>5 DEF Fires, Coming, NextIsLater
    <3> QED BY <3>4, <3>5
  <2>8. TimerNotEarly'
    BY <1>8 DEF TimerNotEarly, Coming, effective, Alive, TypeOK, Fires, Due,
       Following, entryVars, loopVars, callVars
  <2>9. ActivationsExact'
    <3>1. Coming # {} /\ effective <= clock /\ effective \in 1 .. Horizon
      BY <1>8, FiresDue
    <3>2. \A j \in Jobs, t \in Times : <<j, t>> \in runs' <=>
           <<j, t>> \in runs \/ (j \in Due /\ t = next[j])
      BY <1>8 DEF Fires
    <3> SUFFICES ASSUME NEW j \in entries PROVE Exact(j)'
      BY <1>8 DEF ActivationsExact, Fires
    <3>3. Exact(j) /\ j \in Jobs
      BY <1>8 DEF ActivationsExact, Fires, TypeOK
    <3>4. CASE j \notin Due
      <4>1. RunsOf(j)' = RunsOf(j) /\ next'[j] = next[j]
        BY <1>8, <3>2, <3>3, <3>4 DEF Fires, RunsOf
      <4> QED BY <1>8, <4>1, <3>3 DEF Fires, Exact
    <3>5. CASE j \in Due
      <4>1. /\ j \in Coming /\ next[j] = effective
            /\ next'[j] = sched[j][effective]
        BY <1>8, <3>3, <3>5 DEF Fires, Due, Following
      <4>2. base[j] < effective
        <5>1. sched[j][base[j]] \in RunsOf(j) \cup {effective} /\ base[j] \in Times
          BY <3>3, <4>1 DEF Exact, TypeOK
        <5>2. CASE sched[j][base[j]] = effective
          BY <3>1, <3>3, <5>1, <5>2 DEF LooksAhead
        <5>3. CASE sched[j][base[j]] \in RunsOf(j)
          BY <3>1, <3>3, <4>1, <5>1, <5>3 DEF RunsOf, NextIsLater
        <5> QED BY <5>1, <5>2, <5>3
      <4>3. RunsOf(j)' = RunsOf(j) \cup {effective}
        BY <1>8, <3>1, <3>2, <3>3, <3>5, <4>1, <4>2 DEF Fires, RunsOf
      <4>4. \A u \in RunsOf(j) : u \in Times /\ u # Zero /\ u < effective
        BY <4>1, <3>3 DEF RunsOf, NextIsLater, NeverEarly
      <4>5. ASSUME NEW t \in RunsOf(j) \cup {base[j]}
            PROVE  /\ sched[j][t] \in RunsOf(j) \cup {effective}
                   /\ \A u \in RunsOf(j) \cup {effective} :
                        u > t => sched[j][t] # Zero /\ u >= sched[j][t]
        <5>1. /\ sched[j][t] \in RunsOf(j) \cup {effective}
              /\ \A u \in RunsOf(j) : u > t => sched[j][t] # Zero /\ u >= sched[j][t]
          BY <3>3, <4>1 DEF Exact
        <5>2. sched[j][t] # Zero /\ effective >= sched[j][t]
          BY <3>1, <4>4, <5>1
        <5> QED BY <5>1, <5>2
      <4>6. ASSUME NEW u \in RunsOf(j) \cup {effective} PROVE ~(u > effective)
        BY <3>1, <4>4
      <4>7. base'[j] = base[j] /\ sched'[j] = sched[j]
        BY <1>8 DEF Fires
      <4> QED BY <4>1, <4>3, <4>5, <4>6, <4>7 DEF Exact
    <3> QED BY <3>4, <3>5
  <2>10. PrevIsLastRun'
    <3>1. Coming # {} /\ effective <= clock /\ effective \in 1 .. Horizon
      BY <1>8, FiresDue
    <3>2. \A j \in Jobs, t \in Times : <<j, t>> \in runs' <=>
           <<j, t>> \in runs \/ (j \in Due /\ t = next[j])
      BY <1>8 DEF Fires
    <3> SUFFICES ASSUME NEW j \in Jobs
                 PROVE  IF \A t \in Times : <<j, t>> \notin runs'
                          THEN prev'[j] = Zero
                          ELSE /\ <<j, prev'[j]>> \in runs'
                               /\ \A t \in Times : <<j, t>> \in runs' => t <= prev'[j]
      BY DEF PrevIsLastRun
    <3>3. CASE j \in Due
      <4>1. j \in Coming /\ prev'[j] = effective /\ next[j] = effective
        BY <1>8, <3>3 DEF Fires, Due
      <4>2. <<j, effective>> \in runs' /\ effective \in Times
        BY <3>1, <3>2, <3>3, <4>1
      <4>3. \A t \in Times : <<j, t>> \in runs' => t <= effective
        BY <3>1, <3>2, <4>1 DEF NextIsLater
      <4> QED BY <4>1, <4>2, <4>3
    <3>4. CASE j \notin Due
      <4>1. prev'[j] = prev[j]
        BY <1>8, <3>4 DEF Fires
      <4>2. \A t \in Times : <<j, t>> \in runs' <=> <<j, t>> \in runs
        BY <3>2, <3>4
      <4>3. prev[j] \in Times
        BY DEF TypeOK
      <4> QED BY <4>1, <4>2, <4>3 DEF PrevIsLastRun
    <3> QED BY <3>3, <3>4
  <2>11. WakesInTime'
    BY <1>8 DEF WakesInTime, Coming, effective, Alive, TypeOK, Fires, Due,
       Following, entryVars, loopVars, callVars
  <2> QED BY <2>1, <2>2, <2>3, <2>4, <2>5, <2>6, <2>7, <2>8, <2>9, <2>10, <2>11
<1>9. ASSUME Adds PROVE IInv'
  <2>1. TypeOK'
    <3>1. PICK i \in Jobs : call.job = i /\ Adding(i)
      BY <1>9, CallShapes DEF Adds, Receives, Adding, TypeOK
    <3>2. entries' \in SUBSET Jobs /\ call' \in Calls
      BY <1>9, <3>1, CallShapes DEF Adds, TypeOK
    <3>3. next' \in [Jobs -> 0 .. Horizon] /\ base' \in [Jobs -> Times]
      BY <1>9, <3>1 DEF Adds, TypeOK
    <3>4. timer' = Never /\ now' \in Times
      BY <1>9 DEF Adds, Receives, TypeOK
    <3> QED BY <1>9, <3>2, <3>3, <3>4 DEF Adds, TypeOK
  <2>2. LooksAhead'
    BY <1>9 DEF LooksAhead, TypeOK, Adds, Receives, entryVars, loopVars,
       callVars
  <2>3. Alive'
    BY <1>9, CallShapes DEF Alive, Nothing, TypeOK, Adds, Receives, entryVars,
       loopVars, callVars
  <2>4. ClockAhead'
    BY <1>9 DEF ClockAhead, TypeOK, Adds, Receives, entryVars, loopVars,
       callVars
  <2>5. Additions'
    BY <1>9, CallShapes DEF Additions, Adding, Alive, TypeOK, Adds, Receives,
       entryVars, loopVars, callVars
  <2>6. NeverEarly'
    BY <1>9 DEF NeverEarly, TypeOK, Adds, Receives, entryVars, loopVars,
       callVars
  <2>7. NextIsLater'
    <3>1. PICK i \in Jobs : call.job = i /\ Adding(i)
      BY <1>9, CallShapes DEF Adds, Receives, Adding, TypeOK
    <3>2. next' = [next EXCEPT ![i] = sched[i][now]] /\ entries' = entries \cup {i}
      BY <1>9, <3>1 DEF Adds
    <3> QED BY <1>9, <3>1, <3>2 DEF Adds, NextIsLater, Coming, Additions, TypeOK
  <2>8. TimerNotEarly'
    BY <1>9 DEF TimerNotEarly, Coming, effective, Alive, TypeOK, Adds,
       Receives, entryVars, loopVars, callVars
  <2>9. ActivationsExact'
    <3>1. PICK i \in Jobs : call.job = i /\ Adding(i)
      BY <1>9, CallShapes DEF Adds, Receives, Adding, TypeOK
    <3>2. ASSUME NEW j \in entries PROVE Exact(j)'
      <4>1. j # i /\ Exact(j)
        BY <1>9, <3>1 DEF Additions, ActivationsExact, Adds, Receives
      <4>2. next'[j] = next[j] /\ base'[j] = base[j]
        BY <1>9, <3>1, <4>1 DEF Adds, TypeOK
      <4> QED BY <1>9, <4>1, <4>2, SameExact DEF Adds
    <3>3. Exact(i)'
      <4>1. base'[i] = now /\ next'[i] = sched[i][now]
        BY <1>9, <3>1 DEF Adds, TypeOK
      <4>2. RunsOf(i)' = {}
        BY <1>9, <3>1 DEF Adds, RunsOf, Additions
      <4> QED BY <1>9, <4>1, <4>2 DEF Adds, Exact
    <3>4. entries' = entries \cup {i}
      BY <1>9, <3>1 DEF Adds
    <3> QED BY <3>2, <3>3, <3>4 DEF ActivationsExact
  <2>10. PrevIsLastRun'
    BY <1>9 DEF PrevIsLastRun, TypeOK, Adds, Receives, entryVars, loopVars,
       callVars
  <2>11. WakesInTime'
    BY <1>9 DEF WakesInTime, Coming, effective, Alive, TypeOK, Adds, Receives,
       entryVars, loopVars, callVars
  <2> QED BY <2>1, <2>2, <2>3, <2>4, <2>5, <2>6, <2>7, <2>8, <2>9, <2>10, <2>11
<1>10. ASSUME Removes PROVE IInv'
  <2>1. TypeOK'
    BY <1>10, CallShapes DEF TypeOK, Removes, Receives, entryVars, loopVars,
       callVars
  <2>2. LooksAhead'
    BY <1>10 DEF LooksAhead, TypeOK, Removes, Receives, entryVars, loopVars,
       callVars
  <2>3. Alive'
    BY <1>10, CallShapes DEF Alive, Nothing, TypeOK, Removes, Receives,
       entryVars, loopVars, callVars
  <2>4. ClockAhead'
    BY <1>10 DEF ClockAhead, TypeOK, Removes, Receives, entryVars, loopVars,
       callVars
  <2>5. Additions'
    BY <1>10, CallShapes DEF Additions, Adding, Alive, TypeOK, Removes,
       Receives, entryVars, loopVars, callVars
  <2>6. NeverEarly'
    BY <1>10 DEF NeverEarly, TypeOK, Removes, Receives, entryVars, loopVars,
       callVars
  <2>7. NextIsLater'
    BY <1>10 DEF NextIsLater, Coming, Alive, Additions, TypeOK, Removes,
       Receives, entryVars, loopVars, callVars
  <2>8. TimerNotEarly'
    BY <1>10 DEF TimerNotEarly, Coming, effective, Alive, TypeOK, Removes,
       Receives, entryVars, loopVars, callVars
  <2>9. ActivationsExact'
    BY <1>10, SameExact DEF ActivationsExact, Alive, TypeOK, Removes, Receives,
       entryVars, loopVars, callVars
  <2>10. PrevIsLastRun'
    BY <1>10 DEF PrevIsLastRun, TypeOK, Removes, Receives, entryVars, loopVars,
       callVars
  <2>11. WakesInTime'
    BY <1>10 DEF WakesInTime, Coming, effective, Alive, TypeOK, Removes,
       Receives, entryVars, loopVars, callVars
  <2> QED BY <2>1, <2>2, <2>3, <2>4, <2>5, <2>6, <2>7, <2>8, <2>9, <2>10, <2>11
<1>11. ASSUME Snapshots PROVE IInv'
  <2>1. TypeOK'
    BY <1>11, CallShapes DEF TypeOK, Snapshots, Receives, entryVars, loopVars,
       callVars
  <2>2. LooksAhead'
    BY <1>11 DEF LooksAhead, TypeOK, Snapshots, Receives, entryVars, loopVars,
       callVars
  <2>3. Alive'
    BY <1>11, CallShapes DEF Alive, Nothing, TypeOK, Snapshots, Receives,
       entryVars, loopVars, callVars
  <2>4. ClockAhead'
    BY <1>11 DEF ClockAhead, TypeOK, Snapshots, Receives, entryVars, loopVars,
       callVars
  <2>5. Additions'
    BY <1>11, CallShapes DEF Additions, Adding, Alive, TypeOK, Snapshots,
       Receives, entryVars, loopVars, callVars
  <2>6. NeverEarly'
    BY <1>11 DEF NeverEarly, TypeOK, Snapshots, Receives, entryVars, loopVars,
       callVars
  <2>7. NextIsLater'
    BY <1>11 DEF NextIsLater, Coming, Alive, Additions, TypeOK, Snapshots,
       Receives, entryVars, loopVars, callVars
  <2>8. TimerNotEarly'
    BY <1>11 DEF TimerNotEarly, Coming, effective, Alive, TypeOK, Snapshots,
       Receives, entryVars, loopVars, callVars
  <2>9. ActivationsExact'
    BY <1>11, SameExact DEF ActivationsExact, Alive, TypeOK, Snapshots,
       Receives, entryVars, loopVars, callVars
  <2>10. PrevIsLastRun'
    BY <1>11 DEF PrevIsLastRun, TypeOK, Snapshots, Receives, entryVars,
       loopVars, callVars
  <2>11. WakesInTime'
    BY <1>11 DEF WakesInTime, Coming, effective, Alive, TypeOK, Snapshots,
       Receives, entryVars, loopVars, callVars
  <2> QED BY <2>1, <2>2, <2>3, <2>4, <2>5, <2>6, <2>7, <2>8, <2>9, <2>10, <2>11
<1>12. ASSUME Replies PROVE IInv'
  <2>1. TypeOK'
    BY <1>12, CallShapes DEF TypeOK, Replies, entryVars, loopVars, callVars
  <2>2. LooksAhead'
    BY <1>12 DEF LooksAhead, TypeOK, Replies, entryVars, loopVars, callVars
  <2>3. Alive'
    BY <1>12, CallShapes DEF Alive, Nothing, TypeOK, Replies, entryVars,
       loopVars, callVars
  <2>4. ClockAhead'
    BY <1>12 DEF ClockAhead, TypeOK, Replies, entryVars, loopVars, callVars
  <2>5. Additions'
    BY <1>12, CallShapes DEF Additions, Adding, Alive, TypeOK, Replies,
       entryVars, loopVars, callVars
  <2>6. NeverEarly'
    BY <1>12 DEF NeverEarly, TypeOK, Replies, entryVars, loopVars, callVars
  <2>7. NextIsLater'
    BY <1>12 DEF NextIsLater, Coming, Alive, Additions, TypeOK, Replies,
       entryVars, loopVars, callVars
  <2>8. TimerNotEarly'
    BY <1>12 DEF TimerNotEarly, Coming, effective, Alive, TypeOK, Replies,
       entryVars, loopVars, callVars
  <2>9. ActivationsExact'
    BY <1>12, SameExact DEF ActivationsExact, Alive, TypeOK, Replies,
       entryVars, loopVars, callVars
  <2>10. PrevIsLastRun'
    BY <1>12 DEF PrevIsLastRun, TypeOK, Replies, entryVars, loopVars, callVars
  <2>11. WakesInTime'
    BY <1>12 DEF WakesInTime, Coming, effective, Alive, TypeOK, Replies,
       entryVars, loopVars, callVars
  <2> QED BY <2>1, <2>2, <2>3, <2>4, <2>5, <2>6, <2>7, <2>8, <2>9, <2>10, <2>11
<1>13. ASSUME Stops PROVE IInv'
  <2>1. TypeOK'
    BY <1>13, CallShapes DEF TypeOK, Stops, Receives, entryVars, loopVars,
       callVars
  <2>2. LooksAhead'
    BY <1>13 DEF LooksAhead, TypeOK, Stops, Receives, entryVars, loopVars,
       callVars
  <2>3. Alive'
    BY <1>13, CallShapes DEF Alive, Nothing, TypeOK, Stops, Receives,
       entryVars, loopVars, callVars
  <2>4. ClockAhead'
    BY <1>13 DEF ClockAhead, TypeOK, Stops, Receives, entryVars, loopVars,
       callVars
  <2>5. Additions'
    BY <1>13, CallShapes DEF Additions, Adding, Alive, TypeOK, Stops, Receives,
       entryVars, loopVars, callVars
  <2>6. NeverEarly'
    BY <1>13 DEF NeverEarly, TypeOK, Stops, Receives, entryVars, loopVars,
       callVars
  <2>7. NextIsLater'
    BY <1>13 DEF NextIsLater, Coming, Alive, Additions, TypeOK, Stops,
       Receives, entryVars, loopVars, callVars
  <2>8. TimerNotEarly'
    BY <1>13 DEF TimerNotEarly, Coming, effective, Alive, TypeOK, Stops,
       Receives, entryVars, loopVars, callVars
  <2>9. ActivationsExact'
    BY <1>13, SameExact DEF ActivationsExact, Alive, TypeOK, Stops, Receives,
       entryVars, loopVars, callVars
  <2>10. PrevIsLastRun'
    BY <1>13 DEF PrevIsLastRun, TypeOK, Stops, Receives, entryVars, loopVars,
       callVars
  <2>11. WakesInTime'
    BY <1>13 DEF WakesInTime, Coming, effective, Alive, TypeOK, Stops,
       Receives, entryVars, loopVars, callVars
  <2> QED BY <2>1, <2>2, <2>3, <2>4, <2>5, <2>6, <2>7, <2>8, <2>9, <2>10, <2>11
<1>14. ASSUME Tick PROVE IInv'
  <2>1. TypeOK'
    BY <1>14 DEF Tick, TypeOK, entryVars, loopVars, callVars
  <2>2. LooksAhead'
    BY <1>14 DEF LooksAhead, TypeOK, Tick, entryVars, loopVars, callVars
  <2>3. Alive'
    BY <1>14, CallShapes DEF Alive, Nothing, TypeOK, Tick, entryVars, loopVars,
       callVars
  <2>4. ClockAhead'
    BY <1>14 DEF ClockAhead, TypeOK, Tick, entryVars, loopVars, callVars
  <2>5. Additions'
    BY <1>14, CallShapes DEF Additions, Adding, Alive, TypeOK, Tick, entryVars,
       loopVars, callVars
  <2>6. NeverEarly'
    BY <1>14 DEF NeverEarly, TypeOK, Tick, entryVars, loopVars, callVars
  <2>7. NextIsLater'
    BY <1>14 DEF NextIsLater, Coming, Alive, Additions, TypeOK, Tick,
       entryVars, loopVars, callVars
  <2>8. TimerNotEarly'
    BY <1>14 DEF TimerNotEarly, Coming, effective, Alive, TypeOK, Tick,
       entryVars, loopVars, callVars
  <2>9. ActivationsExact'
    BY <1>14, SameExact DEF ActivationsExact, Alive, TypeOK, Tick, entryVars,
       loopVars, callVars
  <2>10. PrevIsLastRun'
    BY <1>14 DEF PrevIsLastRun, TypeOK, Tick, entryVars, loopVars, callVars
  <2>11. WakesInTime'
    BY <1>14 DEF WakesInTime, Coming, effective, Alive, TypeOK, Tick,
       entryVars, loopVars, callVars
  <2> QED BY <2>1, <2>2, <2>3, <2>4, <2>5, <2>6, <2>7, <2>8, <2>9, <2>10, <2>11
<1>15. ASSUME UNCHANGED vars PROVE IInv'
  <2>1. TypeOK'
    BY <1>15, CallShapes DEF TypeOK, vars, entryVars, loopVars, callVars
  <2>2. LooksAhead'
    BY <1>15 DEF LooksAhead, TypeOK, vars, entryVars, loopVars, callVars
  <2>3. Alive'
    BY <1>15, CallShapes DEF Alive, Nothing, TypeOK, vars, entryVars, loopVars,
       callVars
  <2>4. ClockAhead'
    BY <1>15 DEF ClockAhead, TypeOK, vars, entryVars, loopVars, callVars
  <2>5. Additions'
    BY <1>15, CallShapes DEF Additions, Adding, Alive, TypeOK, vars, entryVars,
       loopVars, callVars
  <2>6. NeverEarly'
    BY <1>15 DEF NeverEarly, TypeOK, vars, entryVars, loopVars, callVars
  <2>7. NextIsLater'
    BY <1>15 DEF NextIsLater, Coming, Alive, Additions, TypeOK, vars,
       entryVars, loopVars, callVars
  <2>8. TimerNotEarly'
    BY <1>15 DEF TimerNotEarly, Coming, effective, Alive, TypeOK, vars,
       entryVars, loopVars, callVars
  <2>9. ActivationsExact'
    BY <1>15, SameExact DEF ActivationsExact, Alive, TypeOK, vars, entryVars,
       loopVars, callVars
  <2>10. PrevIsLastRun'
    BY <1>15 DEF PrevIsLastRun, TypeOK, vars, entryVars, loopVars, callVars
  <2>11. WakesInTime'
    BY <1>15 DEF WakesInTime, Coming, effective, Alive, TypeOK, vars,
       entryVars, loopVars, callVars
  <2> QED BY <2>1, <2>2, <2>3, <2>4, <2>5, <2>6, <2>7, <2>8, <2>9, <2>10, <2>11
<1> QED BY <1>1, <1>2, <1>3, <1>4, <1>5, <1>6, <1>7, <1>8, <1>9, <1>10, <1>11,
   <1>12, <1>13, <1>14, <1>15 DEF Next, CallerStep, RunStep, GoesOn, Serves

LEMMA Invariance == Spec => []IInv
<1>1. Init => IInv
  BY InitInvariant
<1>2. IInv /\ [Next]_vars => IInv'
  BY StepInvariant
<1> QED BY <1>1, <1>2, PTL DEF Spec

\* Every variable of the runner keeps its type; in particular the timer is
\* never set beyond the horizon and the lag.
THEOREM TypeCorrect == Spec => []TypeOK
BY Invariance, PTL DEF IInv

\* No job runs before its time, whatever interrupted the sleep of run.
THEOREM RunsAreNotEarly == Spec => []NeverEarly
BY Invariance, PTL DEF IInv

\* No activation is run twice, also across Stop and Start.
THEOREM RunsAreNotRepeated == Spec => []NoRerun
<1>1. IInv => NoRerun
  BY BoundsAssumption DEF IInv, NextIsLater, NoRerun, TypeOK, Coming, Times
<1> QED BY <1>1, Invariance, PTL

\* The runs of an entry are its activations, none skipped and none added.
THEOREM RunsAreExact == Spec => []ActivationsExact
BY Invariance, PTL DEF IInv

\* The Prev that Entries reports is the time of the last run.
THEOREM PrevIsTold == Spec => []PrevIsLastRun
BY Invariance, PTL DEF IInv

\* The timer of the select fires at most the lag after the soonest entry.
THEOREM TimerInTime == Spec => []WakesInTime
BY Invariance, PTL DEF IInv

-----------------------------------------------------------------------------
\* What CallsReturn rests on besides fairness: a caller that is blocked has a
\* goroutine that comes to its select, and there a case that receives the call.
CallerHasServer ==
  ~Idle => \/ loop \in {"starting", "top", "reply"}
           \/ loop = "select" /\ call.op \in {"add", "remove", "snapshot", "stop"}

\* A call of Schedule, Remove, Entries or Stop (cron.go, lines 117-252) never
\* sends to a goroutine that has returned, nor what its select has no case for.
THEOREM NoCallerStranded == Spec => []CallerHasServer
<1>1. \A c \in Calls : c.op \in {"none", "add", "remove", "snapshot", "stop"}
  BY DEF Calls, Nothing
<1>2. IInv => CallerHasServer
  BY <1>1 DEF IInv, TypeOK, Alive, Idle, Nothing, CallerHasServer
<1> QED BY <1>2, Invariance, PTL

\* The entry j was removed, or its Remove has been received.
Gone(j) == j \in added /\ j \notin entries /\ ~Adding(j)

StaysGone ==
  \A j \in Jobs :
    Gone(j) => Gone(j)' /\ \A t \in Times : <<j, t>> \in runs' => <<j, t>> \in runs

\* A job is never run once its entry is gone: not by the timer of a sleep that
\* Remove did not interrupt, nor after Stop and Start (Remove and run of
\* cron.go; Ids are not used again).
THEOREM RemovedIsNotRun == Spec => [][StaysGone]_vars
<1>1. ASSUME IInv, [Next]_vars, NEW j \in Jobs, Gone(j)
      PROVE  Gone(j)' /\ \A t \in Times : <<j, t>> \in runs' => <<j, t>> \in runs
  <2> USE <1>1 DEF IInv, Gone, Adding
  <2>1. ASSUME NEW i \in Jobs, Remove(i) \/ \E s \in Schedules : Add(i, s)
        PROVE  Gone(j)' /\ runs' = runs
    BY <2>1, CallShapes DEF Remove, Add
  <2>2. CASE Entries \/ Stop
    BY <2>2, CallShapes DEF Entries, Stop, entryVars
  <2>3. CASE Start \/ Begins \/ Sleeps \/ Tick \/ UNCHANGED vars
    BY <2>3 DEF Start, Begins, Sleeps, Tick, vars, entryVars, callVars
  <2>4. CASE Replies
    BY <2>4, CallShapes DEF Replies, entryVars
  <2>5. CASE Fires
    <3>1. j \notin Due
      BY DEF Due, Coming
    <3>2. Gone(j)'
      BY <2>5 DEF Fires, callVars
    <3> QED BY <2>5, <3>1, <3>2 DEF Fires
  <2>6. CASE Adds
    <3>1. call = [op |-> "add", job |-> call.job] /\ call.job \in Jobs
      BY <2>6, CallShapes DEF Adds, Receives, TypeOK
    <3>2. j # call.job
      BY <3>1
    <3> QED BY <2>6, <3>2, CallShapes DEF Adds
  <2>7. CASE Removes \/ Stops
    BY <2>7, CallShapes DEF Removes, Stops, entryVars
  <2>8. CASE Snapshots
    BY <2>8 DEF Snapshots, entryVars, callVars
  <2> QED BY <2>1, <2>2, <2>3, <2>4, <2>5, <2>6, <2>7, <2>8
          DEF Next, CallerStep, RunStep, GoesOn, Serves
<1>2. IInv /\ [Next]_vars => [StaysGone]_vars
  BY <1>1 DEF StaysGone
<1> QED BY <1>2, Invariance, PTL DEF Spec
=============================================================================
