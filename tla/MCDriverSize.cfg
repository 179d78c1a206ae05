CONSTANTS
  MaxOps = 2
  NULL = NULL
  Threads = {t1}
  Files = {f1}
  Blocks = {b1, b2, b3, b4}
  Bytes <- MCBytes
  Newline = "nl"
  Payloads <- MCPayloads
  Counts = {1}
  Seeks <- MCRewind
  SeekTos <- MCNone
  KreallocMayFail = FALSE
  MaxCalls = 7
SYMMETRY MCBlockSymmetry
SPECIFICATION Spec
INVARIANTS
  SizeIsTotal
