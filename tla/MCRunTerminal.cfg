CONSTANTS
  src = src
  lib = lib
  test = test
  Base = Base
  Foreign = Foreign
  None = None
  Versions = {1, 2, 3}
  Paths <- MCPaths
  Executors = {e1, e2}
  SolverOutputs <- MCSolver
  RepairOutputs <- MCFullRepairs
  MaxRepairs = 0
  SubmitCapable = TRUE
  MayResume = TRUE
  MayCrash = FALSE
  CommandFiles <- MCSilent
  MayEdit = FALSE
SPECIFICATION Spec
CHECK_DEADLOCK FALSE
PROPERTIES
  TerminalIsFinal
