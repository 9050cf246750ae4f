SPECIFICATION Spec
CONSTANTS
  Guarded = {"/brotzeit"}
  Open = {}
  None = None
  MaxTokens = 2
  MaxRequests = 2
  MaxClicks = 2
  MaxLoads = 1
INVARIANTS TypeOK
PROPERTIES SessionHasToken SessionEnds LoginLeadsBack
CHECK_DEADLOCK FALSE
