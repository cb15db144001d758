SPECIFICATION Spec
CONSTANTS
  o1 = o1
  o2 = o2
  Operators = {o1}
  MaxNotices = 2
  MaximumAttempts = 2
  LookupLimit = 3
INVARIANTS
  TypeOK
  RecordedDeliveryIsReal
  AttemptsAreNumbered
  AttemptsFollowFailures
PROPERTY ImplementsDeliveryLog
CHECK_DEADLOCK FALSE
