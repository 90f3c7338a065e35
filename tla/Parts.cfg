SPECIFICATION PartsSpec
CONSTANTS
  None = None
  \* Surfaces
  small = small
  mid = mid
  bargain = bargain
  large = large
  plan = plan
  none = none
  Tool = {0, 1}
  NoTool = none
  Route = {small, mid, bargain, large, plan}
  Plan = plan
  NoRoute = none
  Below = {small, mid}
  Cheap = {bargain}
  ResponsesApi = {large}
  Capability <- MCCapability
  MinGain = 4
  MaxEscalations = 2
  BufferStreams = TRUE
  Shapes <- MCShapes
  MaxLines = 3
  MaxCalls = 2
  \* Routing
  cheap = "cheap"
  strong = "strong"
  pa = "pa"
  pb = "pb"
  Logistic <- MCLogistic
  Model <- MCModel
  Checked = {"cheap"}
  Setups <- MCSetups
  PaidRule <- MCPaid
  Margin = 10
  Safety = 1
  HalfLife = 2
  QuotaTTL = 1
  CommandTTL = 2
  Staleness = 1
  WeekEnds = 3
  MaxNow = 3
  \* Evidence
  Reader = {r1, r2}
  Configs <- MCConfigs
  Documents <- MCDocuments
  SnapshotAt <- MCSnap
  TTL = 2
  MaxStale = 2
  MaxClock = 3
  MaxSlow = 1
  MaxLoads = 2
  \* Installer
  Homes <- MCHomes
  BonsaiFiles <- MCBonsai
  JevTiers <- MCTiers
  CloudModels <- MCCloud
  MaxRuns = 3
  MaxEdits = 1
  \* Classify
  c1 = c1
  c2 = c2
  Caller = {c1, c2}
  ClassifierSetups <- MCClassifiers
  Replies <- MCReplies
  Letters <- MCLetters
  Softmax <- MCSoftmax
  Bodies <- MCBodies
  Concurrency = 1
  MaxAttempts = 2
  MaxAsked = 3
  \* Experiments
  Experiment <- MCExperiment
  Retries = 1
  BilledToList = 2
  DesignMultiplier = 3
  MaxLaunches = 2
  MaxCrashes = 1
  \* Delegation
  ToolCall <- MCCall
  PatchLimit = 1
INVARIANTS
  ClientUnderstands AnswersHeldBack BooksHonest
  PlanWasOpen WarmIsHeld RecordExplains
  DirectIsCurrent
  UndoRestores InstallSound
  CallsSettled RankingSound
  WorkStaysInCopies ReplyTellsAll
  SpendHeld EvidenceSound ReportsHonest
SYMMETRY ReaderSymmetry
CHECK_DEADLOCK FALSE
