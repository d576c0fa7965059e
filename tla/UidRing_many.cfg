SPECIFICATION Spec
CONSTANTS
    Takers = {t1, t2}
    Size = 4
    Threshold = 2
    PerSecond = 2
    Scheduled = TRUE
    MaxSecond = 5
    MaxPending = 1
SYMMETRY TakerSymmetry
INVARIANTS TypeOK CursorBehindTail UnclaimedIncrease CursorNeverBack
CHECK_DEADLOCK FALSE
