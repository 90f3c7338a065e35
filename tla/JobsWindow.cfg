SPECIFICATION Spec
CONSTANTS
  Proc = {c, p, q}
  Child = c
  MaxSignals = 1
  Window = TRUE
INVARIANTS
  NoneLeft
CHECK_DEADLOCK FALSE
