SPECIFICATION FairSpec
CONSTANTS
  Tabs = {t1, t2}
  Updates = {u1}
  None = None
  MayFence = FALSE
  MaxFaults = 1
PROPERTY Settles
CHECK_DEADLOCK FALSE
