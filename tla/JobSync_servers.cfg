SPECIFICATION Spec
CONSTANTS
    Nodes = {n1, n2}
    j1 = j1
    j2 = j2
    c1 = c1
    c2 = c2
    Jobs = {j1, j2}
    Crons = {c1, c2}
    Releases <- MCReleases
    Requests <- MCRequests
    Null = Null
    NoInstance = NoInstance
    MaxRows = 3
    MaxEvents = 4
SYMMETRY NodeSymmetry
INVARIANTS TypeOK GroupStillMissing TwoRowsOnlyByOverlap  SchedulesWhatItFound
PROPERTIES FirstStatusCounts
CHECK_DEADLOCK FALSE
