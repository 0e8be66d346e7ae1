CONSTANTS
    Peers = {a, b}
    None = None
    MaxTerms = 2
    CanFail = FALSE
    Pods = {x1}
    WatchPods = FALSE
SPECIFICATION Spec
PROPERTY QueuedPodBound
CHECK_DEADLOCK FALSE
