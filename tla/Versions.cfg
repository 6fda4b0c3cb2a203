SPECIFICATION Spec
CONSTANTS
  a = a
  b = b
  Channels = {a, b}
  Months = {1, 2}
  Word = 16
  Programs <- MCPrograms
  Rows <- MCRows
  Inputs <- MCInputs
  Old <- MCOld
  Pieces = 2
  Hole = Hole
  MaxThreads = 3
  MaxRows = 3
INVARIANTS TypeOK Trusted NeverMore
PROPERTY Ends
CHECK_DEADLOCK FALSE
