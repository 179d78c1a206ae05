CONSTANTS
  MaxOps = 1
  NULL = NULL
  Threads = {t1, t2}
  Files = {f1}
  Blocks = {b1, b2, b3}
  Bytes <- MCBytes
  Newline = "nl"
  Payloads <- MCOnePiece
  Counts = {3}
  Seeks <- MCRewind
  SeekTos <- MCSeekToOne
  KreallocMayFail = TRUE
  MaxCalls = 4
SPECIFICATION FairSpec
INVARIANTS
  LockDiscipline
PROPERTIES
  ReadReturnsSlice
  ImplementsCommandDevice
  CallsReturn
