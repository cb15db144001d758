SPECIFICATION Spec
CONSTANTS
  s1 = s1
  s2 = s2
  s3 = s3
  s4 = s4
  Nobody = Nobody
  Senders = {s1, s2, s3, s4}
INVARIANTS
  TypeOK
  DeliveredMeansAccepted
  DuplicateNeedsFailureOrExpiry
  ResentOnlyAfterOverwrite
SYMMETRY SenderSymmetry
CHECK_DEADLOCK FALSE
