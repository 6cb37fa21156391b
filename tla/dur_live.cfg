SPECIFICATION FairSpec
CONSTANTS
  c1 = c1
  c2 = c2
  Clients = {c1, c2}
  Closer = Closer
  Idle = Idle
  MaxPendingSnapshots = 2
  OverflowHookCommits = TRUE
  MaxCommits = 3
  MaxFailures = 2
  MaxLostAcks = 1
  MaxRestarts = 1
CHECK_DEADLOCK FALSE
INVARIANTS
  AckedDurable
PROPERTIES
  CallsSettle
  CloseFinishes
  RetryPersists
