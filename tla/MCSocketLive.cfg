CONSTANTS
  NULL = NULL
  Conns = {c1, c2}
  UseCharDevice = FALSE
  MaxOps = 2
  Chunks <- MCOneLine
  Newline = "nl"
  Comma = ","
  Kept <- MCNothing
  KeptSize = 0
  SeekTarget <- MCSeekTarget
  Stamp <- MCStamp
  Faults <- NoFaults
  SignalTargets <- AnyThread
  MaxSignals = 1
  MaxTicks = 1
  MaxLen = 2
SPECIFICATION FairSpec
PROPERTIES
  ConnectionsServed
  CleanupCompletes
CHECK_DEADLOCK FALSE
