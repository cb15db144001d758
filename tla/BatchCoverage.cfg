SPECIFICATION Spec
CONSTANTS
  i1 = i1
  i2 = i2
  i3 = i3
  Final = Final
  Items = {i1, i2, i3}
  MaxFailedSubReports = 1
  MaximumAttempts = 1
  AttemptTimeouts = FALSE
  ExecutionTimeouts = FALSE
INVARIANTS
  FinalReportHonest
SYMMETRY ItemSymmetry
CHECK_DEADLOCK FALSE
