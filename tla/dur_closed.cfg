SPECIFICATION Spec
CONSTANTS
  c1 = c1
  c2 = c2
  Clients = {c1, c2}
  Closer = Closer
  Idle = Idle
  MaxPendingSnapshots = 1
  OverflowHookCommits = FALSE
  MaxCommits = 3
  MaxFailures = 0
  MaxLostAcks = 0
  MaxRestarts = 0
CHECK_DEADLOCK FALSE
PROPERTIES
  ClosedIsTerminal
