CONSTANTS
  NULL = NULL
  Conns = {c1, c2}
  UseCharDevice = TRUE
  MaxOps = 2
  Chunks <- MCPieces
  Newline = "nl"
  Comma = ","
  Kept <- MCNothing
  KeptSize = 0
  SeekTarget <- MCSeekTarget
  Stamp <- MCStamp
  Faults <- NoFaults
  SignalTargets <- MainOnly
  MaxSignals = 1
  MaxTicks = 0
  MaxLen = 2
SPECIFICATION PoliteSpec
PROPERTIES
  StopsOnSignal
CHECK_DEADLOCK FALSE
