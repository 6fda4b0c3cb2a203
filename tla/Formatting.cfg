SPECIFICATION FormatSpec
CONSTANTS
  Precision = 15
  Largest = 100
  Numbers <- MCNumbers
INVARIANTS PrintsAsPrintf WithinHalf WritesDecimal
CHECK_DEADLOCK FALSE
