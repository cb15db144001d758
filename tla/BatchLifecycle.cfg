SPECIFICATION FairSpec
CONSTANTS
  i1 = i1
  i2 = i2
  i3 = i3
  Final = Final
  Items = {i1}
  MaxFailedSubReports = 0
  MaximumAttempts = 2
  AttemptTimeouts = TRUE
  ExecutionTimeouts = TRUE
INVARIANTS
  TypeOK
  EventsTellTheOutcome
  EnsuredTaskIsFinished
PROPERTIES
  EndedTaskIsFinal
  BatchTerminates
CHECK_DEADLOCK FALSE
