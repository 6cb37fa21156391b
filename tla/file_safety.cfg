SPECIFICATION Spec
CONSTANTS
  a = a
  b = b
  Processes = {a, b}
  Ghost = Ghost
  NoLock = NoLock
  Missing = Missing
  Corrupt = Corrupt
  Settings <- SafeSettings
  MaxCommits = 2
  MaxFailures = 1
  MaxPowerCuts = 1
  MaxDamages = 1
SYMMETRY Symmetry
CHECK_DEADLOCK FALSE
INVARIANTS
  TypeOK
  OneServes
  AckedInFile
  BackupHoldsTheRest
PROPERTIES
  OpensComplete
  RefusedOnlyByTheLiving
