CONSTANTS
  NULL = NULL
  Conns = {c1, c2}
  UseCharDevice = TRUE
  MaxOps = 2
  Chunks <- MCSeeks
  Newline = "nl"
  Comma = ","
  Kept <- MCTwoKept
  KeptSize = 2
  SeekTarget <- MCSeekTarget
  Stamp <- MCStamp
  Faults <- AllFaults
  SignalTargets <- AnyThread
  MaxSignals = 1
  MaxTicks = 0
  MaxLen = 3
SYMMETRY MCSymmetry
SPECIFICATION Spec
INVARIANTS
  TypeOK
  MutexDiscipline
  ThreadArgLive
  NothingUndefined
PROPERTIES
  EchoIsSnapshot
CHECK_DEADLOCK FALSE
