CONSTANTS
    n1 = n1
    n2 = n2
    e1 = e1
    e2 = e2
    Nodes = {n1, n2}
    Eps = {e1, e2}
    Subjects = {"s"}
    Host <- MCHost
    MaxClock = 1
    MaxLog = 3
SPECIFICATION Spec
INVARIANT SnapshotsAgree
