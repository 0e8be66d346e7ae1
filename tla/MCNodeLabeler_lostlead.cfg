SPECIFICATION Spec
CONSTANTS
    Nodes = {n1, n2}
    Peers = {1, 2}
    Relays = {}
    Joiners = {1, 2}
    InitMembers = {{}, {1}, {2}, {1, 2}}
    NoLabel = NoLabel
    Absent = Absent
    MaxNodeChanges = 0
    MaxMemberChanges = 1
    CanFail = FALSE
    CanLoseLead = TRUE
INVARIANT NoSendAfterStop
CHECK_DEADLOCK FALSE
