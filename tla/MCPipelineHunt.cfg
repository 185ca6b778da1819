CONSTANTS
  None = None
  p1 = p1
  p2 = p2
  Processes = {p1}
  Repos = {r1, r2}
  Commands <- MCEveryCommand
  DailyLimit = 2
  MaxReposPerRun = 2
  HuntRounds = 2
  MaxGlobalIssues = 1
  MaxSearched = 1
  MaxCommands = 1
  MaxReceipts = 2
  FailureThreshold = 1
  SuccessThreshold = 2
  MayCrash = TRUE
SPECIFICATION FairSpec
CHECK_DEADLOCK FALSE
INVARIANTS
  RunStopsAtThreshold
PROPERTIES
  CommandsEnd
