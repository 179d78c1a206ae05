CONSTANTS
  MaxOps = 2
  NULL = NULL
  Threads = {t1}
  Files = {f1}
  Blocks = {b1, b2, b3, b4}
  Bytes <- MCBytes
  Newline = "nl"
  Payloads <- MCPayloads
  Counts = {3}
  Seeks <- MCRewind
  SeekTos <- MCNone
  KreallocMayFail = FALSE
  MaxCalls = 5
SYMMETRY MCBlockSymmetry
SPECIFICATION Spec
PROPERTIES
  ReadAdvancesByCount
