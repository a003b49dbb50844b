CONSTANTS
    e1 = e1  e2 = e2  m1 = m1  m2 = m2  n1 = n1  n2 = n2
    Eps = {e1, e2}
    Msgs = {m1, m2}
    Subjects = {"s"}
    Self = n1
    Other = n2
    Host <- MCHost
    Hash <- MCHash
    TargetKinds = {"Durable", "Online", "Push"}
    AckKinds = {"Processed"}
    AckStatuses = {"Received", "Processed"}
    OverflowSize = 1
    OverflowPolicies = {"DropOld"}
    Senders = {n1, n2}
    NewInterests = {{}, {"s"}}
    MaxLog = 2
SPECIFICATION Spec
CHECK_DEADLOCK FALSE
INVARIANT NoCompleteHead
