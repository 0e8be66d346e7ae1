CONSTANTS
    Peers = {1, 2, 3, 4, 5, 6, 7, 8, 9, 10, 11, 12, 13}
    RelayNames = {3, 8, 11, 12}
    NoLeader = NoLeader
    FanOut = 10
    AllowSolo = FALSE
    Keys = {}
    Hash <- NoHash
    Self = 1
    MaxPeers = 13
    LeaderInMembers = TRUE
    Groups = {1, 2, 3, 4}
    Relays = {4}
    NoLabel = NoLabel
    MaxNodes = 4
SPECIFICATION Spec
INVARIANT TopologyCoverage
INVARIANT LabelingSound
