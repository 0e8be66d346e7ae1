SPECIFICATION Spec
CONSTANTS
    Nodes = {n1, n2}
    Peers = {1, r}
    Relays = {r}
    Joiners = {r}
    InitMembers = {{1}}
    NoLabel = NoLabel
    Absent = Absent
    MaxNodeChanges = 1
    MaxMemberChanges = 1
    CanFail = FALSE
    CanLoseLead = TRUE
PROPERTY NewNodeLabelled
PROPERTY ListenerNotBlocked
CHECK_DEADLOCK FALSE
