SPECIFICATION Spec
CONSTANTS
  a1 = a1
  a2 = a2
  b1 = b1
  A = A
  B = B
  NoSlab = NoSlab
  FirstCell = A
  TrackLSM = TRUE
  NMem = 3
  NDisk = 3
  Items = 2
  WriteBatch = 1
  MigrateBatch = 1
  NBuf = 1
  CounterMod = 8
  Classes <- OneClass
  Series <- SharedSeries
  ClassOf <- SharedClassOf
  Quota <- SharedQuota
  MaxChunk = 5
INVARIANTS
  IndexSound
  IndexComplete
