CONSTANTS
  MaxOps = 2
  NULL = NULL
  Threads = {c1, c2}
  Files = {c1, c2}
  Blocks = {b1, b2, b3}
  Bytes <- MCBytes
  Newline = "nl"
  Payloads <- MCLines
  Counts = {7}
  Seeks <- MCSeeks
  SeekTos <- MCSeekTos
  KreallocMayFail = FALSE
  MaxCalls = 16
  StdioBuf = 7
  MaxSessions = 4
SPECIFICATION SysFairSpec
INVARIANTS
  RewindAccepted
  DeviceUncontended
PROPERTIES
  ImplementsLineService
  SessionsEnd
