SPECIFICATION Spec
CONSTANTS
    Tasks = {t1}
    Strategy = "STAND_ALONE_SERIAL"
    NoTask = NoTask
    Servers = {s1}
    Retries = 2
    Clustered = TRUE
    Faults = FALSE
INVARIANTS RetriedAsConfigured
CHECK_DEADLOCK FALSE
