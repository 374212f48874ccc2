SPECIFICATION FairSpec
CONSTANTS
  inner = inner
  outer = outer
  NoFolder = NoFolder
  Notes = {n1, n2, n3}
  InitialNotes = {n1, n2}
  Folders = {inner, outer}
  ParentOf <- Nesting
  Unfiles = FALSE
  MaxElsewhere = 1
  MaxEdits = 2
  MaxReloads = 1
CHECK_DEADLOCK FALSE
INVARIANT WishesKept
PROPERTIES StoresOverSeen SavesSettle
