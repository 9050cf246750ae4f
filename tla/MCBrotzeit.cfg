SPECIFICATION FairSpec
CONSTANTS
  r1 = r1
  r2 = r2
  h1 = h1
  h2 = h2
  Routes <- MCRoutes
  Schedules = {s1}
  Complete = Complete
  Partial = Partial
  Missing = Missing
  Handlers <- MCHandlers
  Capacity = 1
  MaxCalls = 2
INVARIANTS TypeOK BootsFromStore RunsAfterBoot
PROPERTIES ShutdownEnds SavesReturn
