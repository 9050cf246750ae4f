SPECIFICATION FairDashboardSpec
CONSTANTS
  Guarded = {"/brotzeit"}
  Open = {}
  None = None
  MaxTokens = 2
  MaxRequests = 1
  MaxClicks = 1
  MaxLoads = 1
  MaxAsks = 2
INVARIANTS DashboardTypeOK PollsDoNotPile MenuFollowsSession
PROPERTIES PollsEnd
CHECK_DEADLOCK FALSE
