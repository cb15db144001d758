SPECIFICATION FairSpec
CONSTANTS
  m1 = m1
  m2 = m2
  owner = owner
  lead = lead
  lead2 = lead2
  None = None
  Messages = {m1, m2}
  Texts = {"x"}
  Owner = owner
  Leaders = {}
  ApprovalMode = "single"
  MaxTurns = 2
  MaxAutoEvidenceFollowUps = 1
  InitialTurn = m1
  MaximumAttempts = 2
  Faults = TRUE
  MaxOpenTx = 1
INVARIANT TranscriptWellFormed
PROPERTIES
  RoomTerminates
  AcceptedUpdatesAreDrained
CHECK_DEADLOCK FALSE
