SPECIFICATION Spec
CONSTANTS
  Server = {s1, s2}
  Dir = {d1}
  Brief = {b1, b2}
  Proc = {p1, p2, p3}
  Parallel = 1
  Nobody = Nobody
  LateFork = TRUE
  Stoppable = FALSE
PROPERTIES
  NoDeletionUnderWriter
CHECK_DEADLOCK FALSE
