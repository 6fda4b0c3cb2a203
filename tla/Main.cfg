SPECIFICATION FairSpec
CONSTANTS
  a = a
  b = b
  Channels = {a, b}
  Long = {}
  Fprint <- MCPrint
  Months = {1, 2}
  TableSize = 3
  MaxChannels = 2
  Word = 16
  Rows <- MCRows
  Inputs <- MCInputs
  Hashes <- MCHashes
  Old <- MCOld
  MaxThreads = 3
  MaxInterrupts = 1
  MaxRows = 3
INVARIANTS TypeOK NoSharing Conserved
PROPERTIES Implements Exits
CHECK_DEADLOCK FALSE
