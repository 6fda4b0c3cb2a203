SPECIFICATION FairSpec
CONSTANTS
  a = a
  b = b
  z = z
  Channels = {a, b, z}
  Long = {a, b}
  Fprint <- MCPrint
  Months = {1, 2}
  TableSize = 4
  MaxChannels = 3
  Word = 16
  Rows <- MCRows
  Inputs <- MCInputs
  Hashes <- MCHashes
  Batch = 2
  MaxRows = 5
INVARIANTS TypeOK TableInv PointersFresh
PROPERTIES HotFirst Finishes CountsRows
CHECK_DEADLOCK FALSE
