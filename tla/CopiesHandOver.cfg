SPECIFICATION Spec
CONSTANTS
  Server = {s1, s2}
  Dir = {d1}
  Brief = {b1, b2}
  Proc = {p1}
  Parallel = 1
  Nobody = Nobody
  LateFork = FALSE
  Stoppable = FALSE
PROPERTIES
  HandedOverStays
CHECK_DEADLOCK FALSE
