SPECIFICATION Spec
CONSTANTS
    None = None
    Writers = {w1, w2}
    Contents = {c1, c2}
    MaxRecords = 4
INVARIANTS
    WaitsAreOrdered
    ChainIsRooted
    BreaksAreForks
    TamperIsSeen
    SinceBlamesFirst
CHECK_DEADLOCK FALSE
