SPECIFICATION SyncSpec
CONSTANTS
  large = large
  None = None
  Clients = {a, b, c}
  Edits = {u1, u2}
  Checkpoints = {k1}
  LargeIds <- NoLargeIds
  PageSize = 3
  MaxSequence = 3
  MaxPublishing = 2
  SlowDecryption = FALSE
  MaxDisconnects = 0
  MaxFailures = 0
  MaxResubscribes = 0
SYMMETRY Symmetry
INVARIANT AcceptedRetained
CHECK_DEADLOCK FALSE
