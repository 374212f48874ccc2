SPECIFICATION Spec
CONSTANTS
    Clients = {d1}
    Writers = {d1}
    Others = {d2}
    Order <- ThreeSections
    InitiallyLive = {s1, s2}
    Uninitialized = {}
    d1 = d1
    d2 = d2
    s1 = s1
    s2 = s2
    s3 = s3
    None = None
    InOrder = TRUE
    MaxRefusals = 1
    MaxChanges = 2
    MaxEdits = 1
    MaxMoves = 1
    MaxTogether = 2
CHECK_DEADLOCK FALSE
INVARIANTS
    NothingDropped
