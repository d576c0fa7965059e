SPECIFICATION Spec
CONSTANTS
    Tasks = {t1,t2}
    Strategy = "DISCARD"
    NoTask = NoTask
    Servers = {s1,s2}
    Retries = 2
    Clustered = TRUE
    Faults = TRUE
SYMMETRY TaskSymmetry
INVARIANTS TypeOK ResultFindsCallback OneAttemptAtATime FinalOnce
PROPERTIES WaitingKept KeepsLife
CHECK_DEADLOCK FALSE
