SPECIFICATION Spec
CONSTANTS
    Nodes = {n1, n2}
    Threads = {t1}
    MaxFirings = 2
    Nobody = Nobody
    NotRenewed = NotRenewed
    RedisFaults = TRUE
SYMMETRY NodeSymmetry
INVARIANTS TypeOK OneSendPerVersion HoldsExplained
CHECK_DEADLOCK FALSE
