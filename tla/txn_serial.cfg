SPECIFICATION HistorySpec
CONSTANTS
  c1 = c1
  c2 = c2
  k1 = k1
  d1 = d1
  d2 = d2
  t1 = t1
  t2 = t2
  Absent = Absent
  Invalid = Invalid
  Unindexed = Unindexed
  Unindexable = Unindexable
  NoCopy = NoCopy
  Collections = {c1, c2}
  Keys = {k1}
  Docs = {d1, d2}
  ValidDocs = {d1, d2}
  Patches = {}
  PatchOf <- MCPatchOf
  Indexes = {}
  UniqueIndexes = {}
  IndexKeys = {}
  IndexKeyOf <- MCIndexKeyOf
  Conditions <- MCConditions
  Ceilings <- MCCeilings
  Txns = {t1, t2}
  Seeds <- MCSeeds
  MaxOperations = 2
  MaxReadCollections = 2
  MaxScript = 2
SYMMETRY Symmetry
CHECK_DEADLOCK FALSE
INVARIANTS
  ReadsCurrent
  NoLostUpdate
PROPERTIES
  RefinesSerialStore
