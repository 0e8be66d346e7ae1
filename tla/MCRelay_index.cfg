CONSTANTS
    NumWorkers = 1
    Streams = {s1, s2}
    LeaderSub = m1
    ChildSub = m2
    InitLeader = {TRUE, FALSE}
    MaxPods = 4
    QueueCap = 1
    MaxStreams = 3
    MaxLeaderChanges = 1
    CanFail = TRUE
SPECIFICATION Spec
INVARIANT SendMsgExclusive
CHECK_DEADLOCK FALSE
