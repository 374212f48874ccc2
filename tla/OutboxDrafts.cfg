SPECIFICATION Spec
CONSTANTS
  Tabs = {t1}
  Updates = {u1}
  None = None
  MayFence = TRUE
  MaxFaults = 0
PROPERTY DraftsRetained
CHECK_DEADLOCK FALSE
