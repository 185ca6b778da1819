CONSTANTS
  c1 = c1
  c2 = c2
  InitialFiles <- MCFiles
  Assignments <- MCAssignments
  Environments <- MCEnvironments
  MaxCommands = 3
  Documents <- MCDocuments
  Prefaces <- MCPrefaces
  Afterwords <- MCAfterwords
  MaxFindings = 2
  Attested <- MCAttested
  Permits <- MCPermits
  Proposals <- MCProposals
  FileLimit = 3
  MaxRevisions = 2
  Asked <- MCAsked
  MaxAttempts = 3
  MaxDelay = 1
  Horizon = 2
  LastMoment = 2
  Wanted <- MCWanted
  MaxQuestions = 3
  Repos = {c1, c2}
  Spacing = 1
  ContextLife = 3
  LastClock = 5
  MaxAnalyses = 3
  Readers = {c1, c2}
  MaxRemarks = 2
  MaxPulls = 4
  MaxRuns = 2
  Limits = {1, 4}
  Recent = 2
  BoardShare = 3
  RepoShare = 2
  Everything = 3
  DayLength = 3
  TargetMinute = 1
  LastTick = 18
  Projects <- MCProjects
  MaxTokens = 100
  FileTokens = 60
SPECIFICATION Spec
CHECK_DEADLOCK FALSE
INVARIANT SilenceIsNotClean
