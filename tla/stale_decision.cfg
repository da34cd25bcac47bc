CONSTANTS
  DEGRADE = 1
  SUSPEND = 2
  RESTORE = 0
  MaxCalls <- TwoCommands
  ManualStates = {}
  MayStop = FALSE
SPECIFICATION EcSpec
CHECK_DEADLOCK FALSE
INVARIANT RestingStateSettled
