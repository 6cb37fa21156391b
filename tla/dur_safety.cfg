SPECIFICATION Spec
CONSTANTS
  c1 = c1
  c2 = c2
  Clients = {c1, c2}
  Closer = Closer
  Idle = Idle
  MaxPendingSnapshots = 2
  OverflowHookCommits = FALSE
  MaxCommits = 4
  MaxFailures = 2
  MaxLostAcks = 1
  MaxRestarts = 1
CHECK_DEADLOCK FALSE
SYMMETRY Symmetry
INVARIANTS
  TypeOK
  AckedDurable
  AckedRevisionInstalled
  SnapshotsMatchLabel
  DegradedMeansBehind
PROPERTIES
  DiskNeverRegresses
