SPECIFICATION SpacedSpec
CONSTANTS
    Nodes = {n1, n2}
    Threads = {t1}
    MaxFirings = 2
    Nobody = Nobody
    NotRenewed = NotRenewed
    RedisFaults = FALSE
INVARIANTS TwiceOnlyByCrashOrLateRead FinishedMeansDispatched
PROPERTIES DueIsDispatched LockIsReleased KeepsPromise
CHECK_DEADLOCK FALSE
