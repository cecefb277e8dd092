SPECIFICATION Spec
CONSTANTS
  Campaigns = {c1, c2}
  Ids = {"D001"}
  Designs = {x, y}
  Namespaces = {"ring"}
  Generators = {"a.py:f"}
  Declared = "a.py:f"
  Registrars = {t1}
  Gates = {g1}
  Pool = {x}
  AgentStores = TRUE
  MaxEvals = 2
  MaxTroubles = 2
SYMMETRY Symmetric
INVARIANTS AtMostOnce AckedKept NoOracleLeak
PROPERTIES ReplayAddsNothing
CHECK_DEADLOCK FALSE
