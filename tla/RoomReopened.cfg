SPECIFICATION Spec
CONSTANTS
  m1 = m1
  m2 = m2
  owner = owner
  lead = lead
  lead2 = lead2
  None = None
  Messages = {m1}
  Texts = {"x"}
  Owner = owner
  Leaders = {}
  ApprovalMode = "single"
  MaxTurns = 1
  MaxAutoEvidenceFollowUps = 0
  InitialTurn = None
  MaximumAttempts = 1
  Faults = FALSE
  MaxOpenTx = 2
PROPERTY ClosedSessionIsFinal
CHECK_DEADLOCK FALSE
