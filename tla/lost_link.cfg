CONSTANTS
  MaxForms = 1
  MAX_RETRY = 1
  MaxCuts = 0
SPECIFICATION Spec
INVARIANT FailBitMeansPortal
CHECK_DEADLOCK FALSE
