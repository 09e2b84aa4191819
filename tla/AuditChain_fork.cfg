SPECIFICATION Spec
CONSTANTS
    None = None
    Writers = {w1, w2}
    Contents = {c1}
    MaxRecords = 3
INVARIANTS
    SequentialHashing
CHECK_DEADLOCK FALSE
