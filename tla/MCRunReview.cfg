CONSTANTS
  src = src
  lib = lib
  test = test
  Base = Base
  Foreign = Foreign
  None = None
  Versions = {1, 2, 3}
  Paths <- MCReviewPaths
  Executors = {e1, e2}
  SolverOutputs <- MCReviewSolver
  RepairOutputs <- MCReviewRepairs
  MaxRepairs = 0
  SubmitCapable = TRUE
  MayResume = TRUE
  MayCrash = TRUE
  CommandFiles <- MCSilent
  MayEdit = TRUE
SPECIFICATION QueuedSpec
SYMMETRY MCReviewSymmetry
CHECK_DEADLOCK FALSE
INVARIANTS
  AtMostOneDraft
  ReviewedIsChallenged
