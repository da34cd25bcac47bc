CONSTANTS
  MaxCmds = 2
  MaxStops = 1
  LastTry = 1
  Body = 2
  Eol = 1
  ReadLen = 4
  QueueSize = 1
  Room = 3
SPECIFICATION Spec
PROPERTY AckedWasConfirmed
