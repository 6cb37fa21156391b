SPECIFICATION Spec
CONSTANTS
  a = a
  b = b
  Processes = {a, b}
  Ghost = Ghost
  NoLock = NoLock
  Missing = Missing
  Corrupt = Corrupt
  Settings <- ContendedSettings
  MaxCommits = 2
  MaxFailures = 0
  MaxPowerCuts = 0
  MaxDamages = 0
SYMMETRY Symmetry
CHECK_DEADLOCK FALSE
INVARIANTS
  AckedInFile
