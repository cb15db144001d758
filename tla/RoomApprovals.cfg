SPECIFICATION Spec
CONSTANTS
  m1 = m1
  m2 = m2
  owner = owner
  lead = lead
  lead2 = lead2
  None = None
  Messages = {m1}
  Texts = {"x", "y"}
  Owner = owner
  Leaders = {lead, lead2}
  ApprovalMode = "owner_and_leader"
  MaxTurns = 1
  MaxAutoEvidenceFollowUps = 0
  InitialTurn = None
  MaximumAttempts = 2
  Faults = TRUE
  MaxOpenTx = 2
INVARIANTS
  ApprovalsBindPersistedTurns
  ConfirmedCloseHasQuorum
  ClosedSessionFinishesTask
CHECK_DEADLOCK FALSE
