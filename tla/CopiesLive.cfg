SPECIFICATION Spec
CONSTANTS
  Server = {s1, s2}
  Dir = {d1}
  Brief = {b1, b2}
  Proc = {p1, p2, p3}
  Parallel = 1
  Nobody = Nobody
  LateFork = FALSE
  Stoppable = TRUE
PROPERTIES
  StopEnds
  LeftoversReclaimed
CHECK_DEADLOCK FALSE
