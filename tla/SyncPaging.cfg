SPECIFICATION SyncSpec
CONSTANTS
  large = large
  None = None
  Clients = {a, b}
  Edits = {u1, u2, u3}
  Checkpoints = {}
  LargeIds <- NoLargeIds
  PageSize = 1
  MaxSequence = 3
  MaxPublishing = 1
  SlowDecryption = FALSE
  MaxDisconnects = 2
  MaxFailures = 0
  MaxResubscribes = 0
SYMMETRY Symmetry
PROPERTY ResumesAfterReconciled
CHECK_DEADLOCK FALSE
