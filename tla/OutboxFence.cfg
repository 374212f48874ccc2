SPECIFICATION Spec
CONSTANTS
  Tabs = {t1, t2}
  Updates = {u1}
  None = None
  MayFence = TRUE
  MaxFaults = 1
SYMMETRY Symmetry
CHECK_DEADLOCK FALSE
PROPERTIES KeptUntilAccepted DraftsOutliveReplies
