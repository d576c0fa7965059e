SPECIFICATION FairSpec
CONSTANTS
    Takers = {t1}
    Size = 4
    Threshold = 2
    PerSecond = 2
    Scheduled = FALSE
    MaxSecond = 7
    MaxPending = 2
PROPERTIES EmptyIsRefilled IsAQueue
CHECK_DEADLOCK FALSE
