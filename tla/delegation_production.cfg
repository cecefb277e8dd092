SPECIFICATION Spec
CONSTANTS
  MaxDelegations = 2
  Targets = {t1}
  Callers = {c1, c2}
  Granted = {"GetStatus"}
  FinishMax = 1
  MaxErrors = 1
  Hazards = {"ask", "raise", "fault", "dispatch"}
SYMMETRY CallerSymmetry
INVARIANTS
  IndInv
  NoRunningRow
\* A dispatch that failed leaves an entry no thread will ever finish: a bare
\* Wait blocks on it for good.
CHECK_DEADLOCK FALSE
