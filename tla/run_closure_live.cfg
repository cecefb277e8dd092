SPECIFICATION FairSpec
CONSTANTS
  Conclusions = {k1, k2}
  Backends = {"claude"}
  Callers = {c1}
  ReproMax = 1
  ReviseMax = 2
  BlockMax = 1
  FinishMax = 1
  MaxResumes = 1
  Hazards = {"halt", "crash"}
INVARIANTS
  GatedIsEarned
PROPERTIES
  DoneCloses
CHECK_DEADLOCK FALSE
