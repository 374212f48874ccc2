SPECIFICATION Spec
CONSTANTS
  alice = alice
  bob = bob
  u1 = u1
  u2 = u2
  u3 = u3
  Users <- MCUsers
  Owner = alice
  Readers <- MCReaders
  UpdateIds <- MCUpdateIds
  LargeIds <- MCLargeIds
  None = None
  MaxEpoch = 2
  MaxSequence = 4
  MaxItems = 2
SYMMETRY Symmetry
CHECK_DEADLOCK FALSE
INVARIANTS AcceptedRetained ReaderMissesNothing EpochsInOrder
PROPERTY ImplementsDurableSection
