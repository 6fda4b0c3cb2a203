SPECIFICATION MatchSpec
CONSTANTS
  Bytes <- MCBytes
  Junk <- MCJunk
  Names <- MCNames
  MaxLen = 33
  HashBits <- MCHashBits
INVARIANTS MatchIsEquality SameNameSameSlot
CHECK_DEADLOCK FALSE
