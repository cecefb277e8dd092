SPECIFICATION FairSpec
CONSTANTS
  MaxDelegations = 2
  Targets = {t1}
  Callers = {c1}
  Granted = {"CancelDelegation"}
  FinishMax = 0
  MaxErrors = 2
  Hazards = {"ask", "raise"}
INVARIANTS
  DurableBeforeObservable
  EndedIsLogged
  WaitedIsRead
PROPERTIES
  WaitAnyReturns
  JoinReturns
