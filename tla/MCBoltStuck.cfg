SPECIFICATION FairSpec
CONSTANTS
  h1 = h1
  h2 = h2
  Handlers <- TwoHandlers
  Writer = Writer
  Nobody = Nobody
  ReadOps <- Every
  MaxCalls = 3
PROPERTY UpdatesFinish
CHECK_DEADLOCK FALSE
