SPECIFICATION Spec
CONSTANTS
  MaxIds = 2
  MaxLines = 5
  MaxCrashes = 1
INVARIANTS
  AckedIsRead
PROPERTIES
  NoReissue
  ImplementsRecords
\* A session may stop for good.
CHECK_DEADLOCK FALSE
