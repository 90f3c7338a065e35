SPECIFICATION Spec
CONSTANTS
  Server = {s1, s2, s3}
  Dir = {d1}
  Brief = {b1, b2}
  Proc = {p1, p2}
  Parallel = 1
  Nobody = Nobody
  LateFork = FALSE
  Stoppable = TRUE
INVARIANTS
  OneUser
  LeftAccounted
PROPERTIES
  NoDeletionUnderWriter
CHECK_DEADLOCK FALSE
