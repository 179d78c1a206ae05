CONSTANTS
  NULL = NULL
  Conns = {c1, c2}
  UseCharDevice = FALSE
  MaxOps = 2
  Chunks <- MCPieces
  Newline = "nl"
  Comma = ","
  Kept <- MCNothing
  KeptSize = 0
  SeekTarget <- MCSeekTarget
  Stamp <- MCStamp
  Faults <- HandledFaults
  SignalTargets <- MainOnly
  MaxSignals = 1
  MaxTicks = 2
  MaxLen = 2
SYMMETRY MCSymmetry
SPECIFICATION Spec
INVARIANTS
  CleanExit
  WholeUnlessGone
  ListMatchesThreads
PROPERTIES
  OwnLineEchoed
CHECK_DEADLOCK FALSE
