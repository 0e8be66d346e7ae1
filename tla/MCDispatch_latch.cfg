CONSTANTS
    w1 = w1
    w2 = w2
    Workers <- MCWorkers
    Engines = {1}
    Pods <- MCPods
    NoPod = NoPod
    QueueCap = 1
    SubCount = 3
    RatioNum = 1
    RatioDen = 2
SPECIFICATION Spec
INVARIANT LatchMatchesSpec
CHECK_DEADLOCK FALSE
