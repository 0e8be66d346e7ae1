CONSTANTS
    w1 = w1
    w2 = w2
    Workers <- MCWorkers
    Engines = {1}
    Pods <- MCPods
    NoPod = NoPod
    QueueCap = 1
    SubCount = 1
    RatioNum = 1
    RatioDen = 1
SPECIFICATION Spec
INVARIANT NoNextPodPanic
PROPERTY ScheduleOneTerminates
PROPERTY EveryPodProcessed
CHECK_DEADLOCK FALSE
