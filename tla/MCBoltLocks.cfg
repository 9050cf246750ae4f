SPECIFICATION FairSpec
CONSTANTS
  h1 = h1
  h2 = h2
  Handlers <- TwoHandlers
  Writer = Writer
  Nobody = Nobody
  ReadOps <- Every
  MaxCalls = 4
INVARIANTS
  TypeOK
  ReadersMapped
PROPERTIES
  ReadsReturn
  UpdatesFinishAlone
\* FindAll and Count can leave every lock taken for good.
CHECK_DEADLOCK FALSE
