SPECIFICATION FairSpec
CONSTANTS
  MaxId = 7
  MaxCount = 5
INVARIANTS
  TypeOK
  RunsAreConsecutive
  RunsAreMaximal
  RunsCover
PROPERTY Terminates
