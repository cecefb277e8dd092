SPECIFICATION NotebookSpec
CONSTANTS
  Calls = {c1}
  Spine <- WithVerdict
  Pillars <- TwoPillars
  RawNotebooks <- RawExamples
  Customs = {"caveat"}
  Texts = {t1, t2}
  MaxWrites = 3
  MaxKills = 1
  CheckBudget = 2
INVARIANT NotebookAsTold
PROPERTIES CanonicalOrder
CHECK_DEADLOCK FALSE
