SPECIFICATION FairSpec
CONSTANTS
  j1 = j1
  j2 = j2
  Jobs <- MCJobs
  Schedules <- MCSchedules
  Horizon = 3
  MaxClock = 4
  MaxLag = 1
INVARIANTS TypeOK NeverEarly ActivationsExact WakesInTime
PROPERTIES CallsReturn DueRuns
