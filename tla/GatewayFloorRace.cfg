SPECIFICATION Spec
CONSTANTS
  tiny = tiny
  small = small
  mid = mid
  large = large
  plan = plan
  NoRoute = NoRoute
  t1 = t1
  t2 = t2
  Turn = {t1, t2}
  Route = {small, mid, large}
  Plan = {}
  Eligible = {small, mid, large}
  Below = {small}
  Cheap = {mid}
  Policy = "F_expected"
  Capability <- MCCapability
  Level <- MCLevel
  MaxOutput <- MCMaxOutput
  ContextTokens <- MCContext
  RequiredOutput = 0
  Difficulty = 1
  DifficultyFloor = 2
  MinGain = 4
  MaxAttempts = 2
  TruncationRetries = 1
  MaxEscalations = 1
  MemoryWindow = 2
  MinTruncations = 2
PROPERTIES
  FloorNeverDrops
