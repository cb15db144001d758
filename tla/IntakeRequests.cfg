SPECIFICATION Spec
CONSTANTS
  w1 = w1
  r1 = r1
  Alerts <- MCAlerts
  Windows <- MCWindows
  Webhooks = {w1}
  Replays = {r1}
  Ends = {"ended", "later"}
  MaxPolicy = 2
  MaxRooms = 1
  Limit = 2
  MaxPayload = 2
  MaxActive = 1
  MaxRedeliveries = 1
  MaxFaults = 1
INVARIANTS
  TypeOK
  EvidenceIsSound
  HeaderDescribesEvidence
  ResolvedEvidenceStaysTrue
  DiagnosedOnSuccess
CHECK_DEADLOCK FALSE
