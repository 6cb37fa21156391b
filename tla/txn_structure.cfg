SPECIFICATION Spec
CONSTANTS
  c1 = c1
  k1 = k1
  k2 = k2
  d1 = d1
  d2 = d2
  d3 = d3
  bad = bad
  id = id
  tag = tag
  email = email
  score = score
  p1 = p1
  p2 = p2
  t1 = t1
  t2 = t2
  Absent = Absent
  Invalid = Invalid
  Unindexed = Unindexed
  Unindexable = Unindexable
  NoCopy = NoCopy
  Collections = {c1}
  Keys = {k1, k2}
  Docs = {d1, d2, d3, bad}
  ValidDocs = {d1, d2, d3, bad}
  Patches = {p1, p2}
  PatchOf <- MCPatchOf
  Indexes = {tag, email}
  UniqueIndexes = {email}
  IndexKeys <- MCIndexKeys
  IndexKeyOf <- MCIndexKeyOf
  Conditions <- MCConditions
  Txns = {t1, t2}
  Seeds <- MCSeeds
  MaxOperations = 2
  MaxReadCollections = 1
  PrimaryPath = id
  Paths = {tag, email, score}
  PathOf <- MCPathOf
  ValueAt <- MCValueAt
  KeyValue <- MCKeyValue
  Asked <- MCAsked
  QueriesAsked <- MCQueries
  NoLimit = NoLimit
  Ceilings <- MCCeilings
SYMMETRY Symmetry
CHECK_DEADLOCK FALSE
INVARIANTS
  TypeOK
  RootConsistent
  CopiesConsistent
  CallsMatchSerialDocs
  QueriesKeepPromise
  PlansAgree
PROPERTIES
  ChangesTellAll
