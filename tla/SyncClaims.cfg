SPECIFICATION SyncSpec
CONSTANTS
  large = large
  None = None
  Clients = {a, b}
  Edits = {u1, large}
  Checkpoints = {k1}
  LargeIds <- OneLargeId
  PageSize = 1
  MaxSequence = 3
  MaxPublishing = 1
  SlowDecryption = TRUE
  MaxDisconnects = 0
  MaxFailures = 0
  MaxResubscribes = 1
SYMMETRY Symmetry
INVARIANT OnlyUnmergedLost
CHECK_DEADLOCK FALSE
