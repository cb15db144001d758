SPECIFICATION Spec
CONSTANTS
  s1 = s1  s2 = s2
  i1 = i1  i2 = i2
  p1 = p1  p2 = p2
  o1 = o1  o2 = o2
  boot = boot
  Boot = boot
  Schedules = {s1, s2}
  Ids = {i1, i2}
  Policies = {p1, p2}
  Operators = {o1, o2}
  MaxChanges = 5
  MaxFaults = 2
  MaxFires = 2
  MaxTime = 1
INVARIANTS
  TypeOK
  Agreement
  RunnablePolicyWasEnabled
  OneBatchPerFire
SYMMETRY Symmetry
CHECK_DEADLOCK FALSE
