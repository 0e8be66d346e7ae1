CONSTANTS
    Peers = {1, 2, 3}
    RelayNames = {}
    NoLeader = NoLeader
    FanOut = 10
    AllowSolo = FALSE
    Keys = {}
    Hash <- MCHash
    Self = 1
    MaxChanges = 2
SPECIFICATION Spec
PROPERTY TopologyConverges
CHECK_DEADLOCK FALSE
