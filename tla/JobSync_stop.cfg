SPECIFICATION Spec
CONSTANTS
    Nodes = {n1, n2}
    j1 = j1
    j2 = j2
    c1 = c1
    c2 = c2
    Jobs = {j1, j2}
    Crons = {c1, c2}
    Releases <- MCReleases
    Requests <- MCRequests
    Null = Null
    NoInstance = NoInstance
    MaxRows = 2
    MaxEvents = 4
PROPERTIES StoppedStaysStopped
CHECK_DEADLOCK FALSE
