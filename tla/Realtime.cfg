SPECIFICATION MCSpec
CONSTANTS
  ann = ann
  bob = bob
  n1 = n1
  n2 = n2
  Notes = {n1, n2}
  Accounts = {ann, bob}
  User = bob
  OwnerOf <- Owners
  InitialMembers <- Sharing
  MaxEvents = 2
  ReplayLimit = 3
  Alone = TRUE
  InOrder = TRUE
  ReplayFirst = TRUE
  Reinvites = FALSE
  SlowLoads = FALSE
  FailingLoads = {"events"}
  MaxFaults = 1
  Devices = {ann, bob}
  UserOf <- OneEach
  Viewers = {ann}
  Revocable = {bob}
  MaxConns = 2
  MaxMoves = 1
  MaxBreaks = 1
  Punctual = TRUE
  s1 = s1
  s2 = s2
  Sections = {s1, s2}
  Rank <- ByName
  MaxEdits = 1
  MaxSearches = 2
  MaxSwitches = 1
  MaxFailures = 1
  BatchSize = 2
INVARIANTS NothingLost RevokedNotTold FoundWhenReady
PROPERTIES Converges PresenceSettles SearchEnds
CHECK_DEADLOCK FALSE
