SPECIFICATION Spec
CONSTANTS
  Prompt = {p, q}
  GoOn = GoOn
  Again = Again
  None = None
  MaxHandOvers = 1
INVARIANTS
  StoppedIsResumed
  OnlyReplacedLost
PROPERTIES
  GivenOnce
  RestartMoves
  SwitchServed
CHECK_DEADLOCK FALSE
