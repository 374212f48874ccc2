SPECIFICATION SyncFairSpec
CONSTANTS
  large = large
  None = None
  Clients = {a, b}
  Edits = {u1}
  Checkpoints = {k1}
  LargeIds <- NoLargeIds
  PageSize = 3
  MaxSequence = 2
  MaxPublishing = 1
  SlowDecryption = FALSE
  MaxDisconnects = 1
  MaxFailures = 0
  MaxResubscribes = 1
CHECK_DEADLOCK FALSE
INVARIANT AcceptedRetained
PROPERTIES ResumesAfterReconciled Converges
