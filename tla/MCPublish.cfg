CONSTANTS
  None = None
  s1 = s1
  s2 = s2
  p1 = p1
  p2 = p2
  Shas <- MCShas
  PermitTtl = 1
  Processes = {p1, p2}
  Candidates <- Sample
  Manifests <- MCManifests
  Issues <- MCIssues
  InitialFiles <- MCFiles
  InitialIssue <- Open
  MaxAttempts = 2
  MaxSessions = 2
  MaxEvents = 2
SPECIFICATION Spec
CHECK_DEADLOCK FALSE
INVARIANTS
  DraftWithinConsent
  DraftWithinPermit
  DraftIsTheCandidate
  DraftHasApproval
  ValidLedgerWasIssued
SYMMETRY MCSymmetry
