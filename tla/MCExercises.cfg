CONSTANTS
  NULL = NULL
  Elems = {e1, e2, e3, e4}
  ThThreads = {t1, t2}
  NoData = NoData
  Waits = {1, 2, 5}
  Second = 2
  Writers = {w1, w2}
  Paths <- MCPaths
  OldFiles <- MCOldFiles
  Denied <- MCDenied
SPECIFICATION MCSpec
INVARIANTS
  WalkVisitsAll
  CallerTextOnce
  ExitCodeReported
  WrCreatedIsThere
  WrFailsForAReason
PROPERTIES
  ImplementsOrderedList
  ThHoldsAlmostAsAsked
  ThCompletes
CHECK_DEADLOCK FALSE
