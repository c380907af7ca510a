SPECIFICATION Spec
CONSTANTS
  a1 = a1
  a2 = a2
  b1 = b1
  A = A
  B = B
  NoSlab = NoSlab
  FirstCell = A
  TrackLSM = FALSE
  NMem = 3
  NDisk = 3
  Items = 1
  WriteBatch = 1
  MigrateBatch = 2
  NBuf = 1
  CounterMod = 8
  Classes <- TwoClasses
  Series <- TwoSeries
  ClassOf <- TwoClassOf
  Quota <- TwoQuota
  MaxChunk = 5
INVARIANTS
  IndexSound
  ExclusiveMem
PROPERTY FullIsImmutable
