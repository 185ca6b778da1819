CONSTANTS
  src = src
  lib = lib
  test = test
  Base = Base
  Foreign = Foreign
  None = None
  Versions = {1, 2, 3}
  Paths <- MCPaths
  Executors = {e1}
  SolverOutputs <- MCSolvers
  RepairOutputs <- MCRepairs
  MaxRepairs = 2
  SubmitCapable = TRUE
  MayResume = TRUE
  MayCrash = FALSE
  CommandFiles <- MCCommands
  MayEdit = FALSE
SPECIFICATION FairSpec
CHECK_DEADLOCK FALSE
INVARIANTS
  ApprovedIsCandidate
  DraftFilesWereValidated
PROPERTIES
  DriveReturnsEventually
