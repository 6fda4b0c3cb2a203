SPECIFICATION FairSpec
CONSTANTS
  Files <- MCFiles
  MaxRows = 5
  MaxThreads = 3
  Scan = 64
  SampleRatio = 128
INVARIANTS TypeOK OnceEach StartsAligned LoadsInside
PROPERTY Termination
CHECK_DEADLOCK FALSE
