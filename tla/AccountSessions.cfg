SPECIFICATION Spec
CONSTANTS
    Devices = {d1, d2}
    d1 = d1
    d2 = d2
    Connecting = {d1}
    Nobody = Nobody
    MaxSessions = 3
    MaxVersion = 2
CHECK_DEADLOCK FALSE
INVARIANTS Unlockable OldSessionsCutOff
PROPERTY OrphansEnd
