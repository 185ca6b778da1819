CONSTANTS
  src = src
  lib = lib
  test = test
  Base = Base
  Foreign = Foreign
  None = None
  Versions = {1, 2, 3}
  Paths <- MCPaths
  Executors = {e1}
  SolverOutputs <- MCSolver
  RepairOutputs <- MCFullRepairs
  MaxRepairs = 1
  SubmitCapable = TRUE
  MayResume = TRUE
  MayCrash = TRUE
  CommandFiles <- MCFormatter
  MayEdit = FALSE
SPECIFICATION Spec
CHECK_DEADLOCK FALSE
INVARIANTS
  DraftWasApproved
  DraftCarriesEvidence
  SubmittedIsBacked
PROPERTIES
  RecordFollowsLifecycle
