CONSTANTS
    n1 = n1
    n2 = n2
    n3 = n3
    NoNode = NoNode
    NodeOf <- MCNodeOf
    NoLeader = NoLeader
    Pod = Pod
    Peers <- MCPeers
    Reqs <- MCPeers
    Nodes <- MCNodes
    Keys <- MCKeys
    ScoreVals = {0, 1}
    PodHash = 0
    CandidateCap = 100
    MaxLeaderChanges = 1
SPECIFICATION Spec
INVARIANT PermitsFromOneAggregator
CHECK_DEADLOCK FALSE
