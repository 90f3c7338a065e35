SPECIFICATION Spec
CONSTANTS
  tiny = tiny
  small = small
  mid = mid
  large = large
  plan = plan
  NoRoute = NoRoute
  t1 = t1
  t2 = t2
  Turn = {t1}
  Route = {tiny, small, mid, large, plan}
  Plan = {plan}
  Eligible = {tiny, small, mid, large, plan}
  Below = {tiny, small}
  Cheap = {mid}
  Policy = "F_expected"
  Capability <- MCCapability
  Level <- MCLevel
  MaxOutput <- MCMaxOutput
  ContextTokens <- MCContext
  RequiredOutput = 0
  Difficulty = 1
  DifficultyFloor = 2
  MinGain = 4
  MaxAttempts = 3
  TruncationRetries = 1
  MaxEscalations = 1
  MemoryWindow = 2
  MinTruncations = 2
INVARIANTS
  CompleteAnswerSurvives
