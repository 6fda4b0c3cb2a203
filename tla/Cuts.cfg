SPECIFICATION Spec
CONSTANTS
  Programs <- MCPrograms
  Files <- MCFiles
  MaxRows = 6
  Processors = {0, 1, 2, 3, 5}
  Scan = 64
  Scale = 4
INVARIANTS OnceEach StartsAligned LoadsInside
PROPERTY Finishes
CHECK_DEADLOCK FALSE
