SPECIFICATION Spec
CONSTANTS
    Takers = {t1, t2}
    Size = 4
    Threshold = 2
    PerSecond = 2
    Scheduled = FALSE
    MaxSecond = 5
    MaxPending = 1
INVARIANTS NoDuplicateUid
CHECK_DEADLOCK FALSE
