CONSTANTS
  t1 = t1
  t2 = t2
  a1 = a1
  a2 = a2
  b1 = b1
  d1 = d1
  d2 = d2
  f1 = f1
  Threads = {t1, t2}
  Pulls = {a1, a2, b1}
  RepoOf <- MCRepoOf
  KindOf <- MCKindOf
  NoRow = NoRow
  MaxOutcomes = 2
  MaxDreams = 1
  MaxCrashes = 1
  Patrols = {t1, t2}
  MaxComments = 2
  MaxVisits = 2
  Callers = {t1, t2}
  Prompts = {a1}
  Models <- MCModels
  MaxRetries = 1
  Ttl = 2
  MaxCalls = 3
  MaxTime = 2
  Setups <- MCSetups
  CommandTime = 2
  StageTime = 2
  RunTime = 3
  MaxRunClock = 4
  Edits <- MCEdits
  Rest <- MCRest
  Context = 1
  MaxCells = 24
  MaxShown = 13
  Vocabulary <- MCVocabulary
  Sources <- MCSources
  Answers <- MCAnswers
  Importers <- MCImporters
  MaxChanges = 2
  LongSearch = 4
  SelfReview = TRUE
  Drafts = {d1, d2}
  ForkOf <- MCForkOf
  MaxCleanups = 1
  Analyzers <- MCAnalyzers
  Selected = {a1, b1}
  Concurrency = 1
  Pauses = 1
  Findings <- MCFindings
  Solvers = {t1, t2}
  Issues = {1, 2, 3}
  Groups <- MCGroups
  LabelsOf <- MCLabelsOf
  Complexity <- MCComplexity
  MaxSolved = 2
  MaxRounds = 2
  MaxActs = 1
  Commands = {t1, t2}
  Capacity = 1
  MaxHistory = 1
  EventTypes <- MCEventTypes
SPECIFICATION Spec
CHECK_DEADLOCK FALSE
INVARIANTS
  PreferencesAreCurrent
  AnswersArePeoples
  CachedAnswersArePrimarys
  VerdictsAreEarned
  DiffIsTheChange
  ContributionIsTheAnswer
  SeenForksAreKept
  FindingsAreStable
  OneFixPerIssue
  LogsShowTheLast
  LogHasNoHole
SYMMETRY MCSymmetry
