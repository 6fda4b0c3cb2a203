SPECIFICATION FairSpec
CONSTANTS
  small = small
  large = large
  Absent = Absent
  Order <- MCOrder
  Blocks <- MCBlocks
  MaxAttempts = 3
  MaxRuns = 3
INVARIANTS TypeOK OwnContents PartialIsCutShort
PROPERTIES KeepsObtained RunsEnd
CHECK_DEADLOCK FALSE
