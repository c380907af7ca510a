SPECIFICATION Spec
CONSTANTS
  MaxId = 7
  MaxCount = 5
INVARIANT RunsCoverAll
