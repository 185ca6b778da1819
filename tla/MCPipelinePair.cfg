CONSTANTS
  None = None
  p1 = p1
  p2 = p2
  Processes = {p1, p2}
  Repos = {r1, r2}
  Commands <- MCRunAndTarget
  DailyLimit = 1
  MaxReposPerRun = 2
  HuntRounds = 1
  MaxGlobalIssues = 1
  MaxSearched = 1
  MaxCommands = 3
  MaxReceipts = 3
  FailureThreshold = 1
  SuccessThreshold = 2
  MayCrash = TRUE
SPECIFICATION Spec
CHECK_DEADLOCK FALSE
SYMMETRY MCSymmetry
INVARIANTS
  PullsHaveReceipts
  OnePullPerProcess
