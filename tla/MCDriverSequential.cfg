CONSTANTS
  MaxOps = 2
  NULL = NULL
  Threads = {t1}
  Files = {f1}
  Blocks = {b1, b2, b3, b4}
  Bytes <- MCBytes
  Newline = "nl"
  Payloads <- MCPayloads
  Counts = {0, 1, 3, 5}
  Seeks <- MCSeeks
  SeekTos <- MCSeekTos
  KreallocMayFail = FALSE
  MaxCalls = 7
SYMMETRY MCBlockSymmetry
SPECIFICATION Spec
INVARIANTS
  TypeOK
  EntriesOwnMemory
  ForeachVisitsStored
  NoLeak
  CommandsTerminated
PROPERTIES
  ReadReturnsSlice
  SeekToAddresses
  ImplementsCommandDevice
