SPECIFICATION BenchSpec
CONSTANTS
  MaxLines = 3
  Width = 2
  Limit = 3
  MaxShown = 2
  Runs = 2
  Absent = Absent
  Outputs <- MCOutputs
  Expecteds <- MCExpecteds
INVARIANTS LogIsHistory LogInOrder OnlyVerified VerdictRight
CHECK_DEADLOCK FALSE
