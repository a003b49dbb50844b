CONSTANTS
    n1 = n1  n2 = n2  c1 = c1  c2 = c2  m1 = m1
    Nodes = {n1, n2}
    Leader = n1
    Clients = {c1, c2}
    Msgs = {m1}
    MaxLog = 4
SPECIFICATION Spec
CHECK_DEADLOCK FALSE
INVARIANT NoLoadPanic
