CONSTANTS
    e1 = e1  e2 = e2  m1 = m1  m2 = m2  n1 = n1  n2 = n2
    Eps = {e1, e2}
    Msgs = {m1, m2}
    Subjects = {"s"}
    Self = n1
    Other = n2
    Host <- MCHost
    Hash <- MCHash
    TargetKinds = {"Durable", "Online", "Push"}
    AckKinds = {"Sent", "Processed"}
    AckStatuses = {"Received", "Processed"}
    OverflowSize = 0
    OverflowPolicies = {"DropOld"}
    Senders = {n1}
    NewInterests = {}
    MaxLog = 2
SPECIFICATION SnapSpec
CHECK_DEADLOCK FALSE
INVARIANT QueueIsAdmissionSuffix
