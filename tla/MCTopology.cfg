CONSTANTS
    Peers = {1, 2, 3, 4, 5, 6, 7, 8, 9, 10, 11, 12, 13}
    RelayNames = {3, 8, 11, 12}
    NoLeader = NoLeader
    FanOut = 10
    AllowSolo = FALSE
    Keys = {}
    Hash <- MCHash
    Self = 1
    MaxPeers = 13
    LeaderInMembers = TRUE
SPECIFICATION Spec
INVARIANT TopologyCoverage
