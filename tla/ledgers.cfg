SPECIFICATION Spec
CONSTANTS
  Callers = {c1, c2}
  Hyps = {h1}
  Dels = {d1}
  Namespaces = {n1, n2}
  Defaults = {"craft_pipeline"}
  Automatic = {"craft_pipeline"}
  Proposals = {"mine"}
  GroundTruth = {}
  None = None
  Null = Null
  Verdicts = {"SUPPORTED", "FALSIFIED"}
  MaxCalls = 6
  MaxCrashes = 1
SYMMETRY Symmetric
INVARIANTS
  VerdictHasSource
  MilestonesAsTold
  GateAsks
CHECK_DEADLOCK FALSE
