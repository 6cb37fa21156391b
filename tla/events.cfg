SPECIFICATION FairSpec
CONSTANTS
  NoBatch = NoBatch
  BatchSizes <- Sizes
  MaxQueuedBatches = 2
  MaxQueuedChanges = 3
  MaxCommits = 3
  MaxSubscriptions = 2
  MaxHookDepth = 1
CHECK_DEADLOCK FALSE
INVARIANTS
  TypeOK
  QueueWithinLimits
  ReceivedInOrder
  NoSilentGap
  AudienceServed
  NoStrandedBatch
  CloseDropsOnlyLate
PROPERTIES
  BatchesLeave
