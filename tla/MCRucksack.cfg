SPECIFICATION FairSpec
CONSTANTS
  c1 = c1
  c2 = c2
  b1 = b1
  b2 = b2
  k1 = k1
  v1 = v1
  v2 = v2
  Clients <- MCClients
  Buckets <- MCBuckets
  Keys <- MCKeys
  Values <- MCValues
  Missing = Missing
  Nobody = Nobody
  Cap = 1
  MaxCalls = 3
INVARIANTS
  TypeOK
  OneWriteTransaction
  LastCallSettles
PROPERTIES
  KeepsPromise
  KeepsOrder
  SendReturns
