SPECIFICATION Spec
CONSTANTS
  Lines <- MCLines
  Scans = {32, 64}
INVARIANTS ReadsRow MonthsAgree
CHECK_DEADLOCK FALSE
