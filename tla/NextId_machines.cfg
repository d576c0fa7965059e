SPECIFICATION Spec
CONSTANTS
    Generators = {0, 1}
    WorkerOf <- MCWorkerOf
    MaxSequence = 1
    MaxWorkerId = 1
    MaxDelta = 2
    MaxClock = 3
INVARIANTS TypeOK ParsesBack
PROPERTIES NoUidTwice UidsGrow
CHECK_DEADLOCK FALSE
