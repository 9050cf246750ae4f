SPECIFICATION FairSpec
CONSTANTS
  textarea = textarea
  sitemap = sitemap
  TextAreaData = TextAreaData
  SiteMapUrl1 = SiteMapUrl1
  SiteMapUrl2 = SiteMapUrl2
  FormType = {textarea, sitemap}
  Field = {TextAreaData, SiteMapUrl1, SiteMapUrl2}
  TypeOf <- MCTypeOf
  Empty = Empty
  url = url
  lines = lines
  Text <- MCText
  Prepare <- MCPrepare
  Refused <- MCRefused
  None = None
  Filed <- MCFiled
  MaxEdits = 2
  MaxVisits = 2
  MaxFaults = 1
INVARIANTS TypeOK EditsReachStore SavesOwnField
PROPERTIES EditsSettle
CHECK_DEADLOCK FALSE
