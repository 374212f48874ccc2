SPECIFICATION FairSpec
CONSTANTS
  Tabs = {t1}
  Updates = {u1, u2}
  None = None
  MayFence = FALSE
  MaxFaults = 0
PROPERTY Settles
CHECK_DEADLOCK FALSE
