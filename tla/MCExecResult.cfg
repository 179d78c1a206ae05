SPECIFICATION ExSpec
INVARIANTS
  TrueMeansSuccess
CHECK_DEADLOCK FALSE
