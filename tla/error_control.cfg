CONSTANTS
  DEGRADE = 2
  SUSPEND = 3
  RESTORE = 0
  MaxCalls <- BurstBesideDrop
  ManualStates <- AllStates
  MayStop = TRUE
SPECIFICATION EcSpec
CHECK_DEADLOCK FALSE
INVARIANTS EcTypeOK SentOkExact ReceivedNeverOvercounts SerialCallsSettle
