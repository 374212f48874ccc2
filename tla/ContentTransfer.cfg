SPECIFICATION FairSpec
CONSTANTS
  Transfers <- MCTransfers
  Chunks <- MCChunks
  Rotating <- OneRotating
  Resumers = {r1}
  Manifests = {m1, m2, m3}
  Readers = {d1, d2}
  MaxEntries = 1
  MaxFaults = 2
  Absent = Absent
INVARIANT CacheBounded
PROPERTIES KeptUntilCommitted TransfersSettle
CHECK_DEADLOCK FALSE
