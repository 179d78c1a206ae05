CONSTANTS
  MaxOps = 10
  NULL = NULL
  Entries <- MCEntries
SPECIFICATION Spec
INVARIANTS
  TypeOK
  Shape
  Terminates
  FindMatchesConcatenation
PROPERTY ImplementsBoundedLog
