SPECIFICATION Spec
CONSTANTS
  m1 = m1
  m2 = m2
  owner = owner
  lead = lead
  lead2 = lead2
  None = None
  Messages = {m1, m2}
  Texts = {"x"}
  Owner = owner
  Leaders = {}
  ApprovalMode = "single"
  MaxTurns = 2
  MaxAutoEvidenceFollowUps = 0
  InitialTurn = None
  MaximumAttempts = 2
  Faults = TRUE
  MaxOpenTx = 2
INVARIANTS
  TypeOK
  TranscriptWellFormed
  ConversationFollowsTranscript
  OpenSessionCountsTurns
  ConfirmedConclusionIsCurrent
PROPERTY SettledRoomIsFinal
SYMMETRY MessageSymmetry
CHECK_DEADLOCK FALSE
