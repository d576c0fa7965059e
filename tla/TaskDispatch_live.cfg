SPECIFICATION FairSpec
CONSTANTS
    Tasks = {t1,t2}
    Strategy = "STAND_ALONE_SERIAL"
    NoTask = NoTask
    Servers = {s1,s2}
    Retries = 2
    Clustered = TRUE
    Faults = FALSE
INVARIANTS TriggerResultKept
PROPERTIES EveryDispatchEnds
CHECK_DEADLOCK FALSE
