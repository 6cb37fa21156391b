SPECIFICATION Spec
CONSTANTS
  a = a
  b = b
  Processes = {a, b}
  Ghost = Ghost
  NoLock = NoLock
  Missing = Missing
  Corrupt = Corrupt
  Settings <- RecoverySettings
  MaxCommits = 2
  MaxFailures = 1
  MaxPowerCuts = 0
  MaxDamages = 0
SYMMETRY Symmetry
CHECK_DEADLOCK FALSE
PROPERTIES
  RecoversOnlyDamaged
