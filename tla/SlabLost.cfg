SPECIFICATION Spec
CONSTANTS
  a1 = a1
  a2 = a2
  b1 = b1
  A = A
  B = B
  NoSlab = NoSlab
  FirstCell = A
  TrackLSM = TRUE
  NMem = 4
  NDisk = 4
  Items = 1
  WriteBatch = 2
  MigrateBatch = 1
  NBuf = 2
  CounterMod = 9
  Classes <- OneClass
  Series <- OneSeries
  ClassOf <- OneClassOf
  Quota <- OneQuota
  MaxChunk = 7
INVARIANT NoSlabLost
