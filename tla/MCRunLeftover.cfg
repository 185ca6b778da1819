CONSTANTS
  src = src
  lib = lib
  test = test
  Base = Base
  Foreign = Foreign
  None = None
  Versions = {1, 2, 3}
  Paths <- MCPaths
  Executors = {e1}
  SolverOutputs <- MCSolver
  RepairOutputs <- MCPartialRepairs
  MaxRepairs = 1
  SubmitCapable = TRUE
  MayResume = FALSE
  MayCrash = FALSE
  CommandFiles <- MCSilent
  MayEdit = FALSE
SPECIFICATION Spec
CHECK_DEADLOCK FALSE
INVARIANTS
  ResolvedOnCandidate
