SPECIFICATION Spec
CONSTANTS
  small = small
  large = large
  Absent = Absent
  Order <- MCOrder
  Blocks <- MCBlocks
  MaxAttempts = 3
  MaxRuns = 3
INVARIANTS FetchedIsArchive
CHECK_DEADLOCK FALSE
