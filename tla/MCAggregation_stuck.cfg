CONSTANTS
    p1 = p1
    p2 = p2
    p3 = p3
    NoNode = NoNode
    Pod = Pod
    Peers <- MCPeers
    Reqs <- MCPeers
    Nodes <- MCNodes
    Keys = {Pod}
    ScoreVals <- MCScoreVals
    CandidateCap = 100
    InitViews <- MCInitViews


SPECIFICATION Spec
PROPERTY CollectScoreReturns
CHECK_DEADLOCK FALSE
