------------------------------- MODULE MCCron -------------------------------
(* Small schedules for the runner of Cron.tla.                             *)
EXTENDS Cron

CONSTANTS j1, j2
MCJobs == {j1, j2}

\* A schedule of fixed times, as a SpecSchedule is.
At(times) == [t \in Times |-> IF \E u \in times : u > t
                                THEN Min({u \in times : u > t}) ELSE Zero]
\* ConstantDelaySchedule: delay after the given time.
Every(delay) == [t \in Times |-> IF t + delay <= Horizon THEN t + delay ELSE Zero]

MCSchedules == {At({1, 3}), Every(2)}
=============================================================================
