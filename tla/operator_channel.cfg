SPECIFICATION ChannelFairSpec
CONSTANTS
  Askers = {a1, a2}
  Posters = {v1}
  NoOne = NoOne
  MaxQuestions = 2
  MaxAsk = 1
  DiskFails = TRUE
INVARIANTS
  ActedOnIsRecorded
PROPERTIES
  ResolvedOnce
  AskReturns
CHECK_DEADLOCK FALSE
