SPECIFICATION Spec
CONSTANTS
  Conclusions = {k1, k2}
  Backends = {"claude", "toolnode"}
  Callers = {c1, c2}
  ReproMax = 1
  ReviseMax = 2
  BlockMax = 1
  FinishMax = 1
  MaxResumes = 0
  Hazards = {}
SYMMETRY CloseSymmetry
INVARIANTS
  IndInv
  ConsultsBounded
CHECK_DEADLOCK FALSE
