CONSTANTS
  DEGRADE = 1
  SUSPEND = 2
  RESTORE = 0
  MaxCmds = 4
  CmdLen = 2
  ErrLen = 1
  WebLen = 1
  LastTry = 1
  Provoked <- None
SPECIFICATION CpSpec
INVARIANTS CpTypeOK Ledger DiffIsBacklogPlusLosses SuspensionHasCause
PROPERTY ServiceSafety
