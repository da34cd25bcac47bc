CONSTANTS
  DEGRADE = 1
  SUSPEND = 2
  RESTORE = 0
  MaxCmds = 2
  CmdLen = 1
  ErrLen = 1
  WebLen = 1
  LastTry = 1
  Provoked <- AnyOrigin
SPECIFICATION CpFairSpec
PROPERTIES ServiceSpec EveryCommandAnswered FullErrorQueueMoves
