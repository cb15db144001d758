SPECIFICATION Spec
CONSTANTS
  g1 = g1
  g2 = g2
  vague = vague
  precise = precise
  None = None
  Gaps = {g1, g2}
  Queries = {vague, precise}
  Resolved <- MCResolved
  InScope = {precise}
  MaxTurns = 3
  MaxAutoEvidenceFollowUps = 1
  MaxMissing = 2
  MaxManual = 2
INVARIANTS
  TypeOK
  GapsAreAnswered
  ConfirmedQueriesWereCollected
SYMMETRY GapSymmetry
CHECK_DEADLOCK FALSE
