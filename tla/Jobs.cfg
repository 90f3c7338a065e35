SPECIFICATION Spec
CONSTANTS
  Proc = {c, p, q}
  Child = c
  MaxSignals = 4
  Window = FALSE
INVARIANTS
  NoneLeft
  StopsArrive
  CtrlCKeepsGrace
PROPERTIES
  StopEndsRun
CHECK_DEADLOCK FALSE
