SPECIFICATION SyncFairSpec
CONSTANTS
  large = large
  None = None
  Clients = {a, b}
  Edits = {u1, large}
  Checkpoints = {}
  LargeIds <- OneLargeId
  PageSize = 1
  MaxSequence = 2
  MaxPublishing = 2
  SlowDecryption = TRUE
  MaxDisconnects = 0
  MaxFailures = 1
  MaxResubscribes = 0
INVARIANT NothingPassesBy
PROPERTY Converges
CHECK_DEADLOCK FALSE
