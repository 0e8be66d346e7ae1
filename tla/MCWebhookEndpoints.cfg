CONSTANTS
    Peers = {a, b}
    None = None
    MaxTerms = 2
    CanFail = FALSE
SPECIFICATION Spec
PROPERTY WebhookFollowsLeader
CHECK_DEADLOCK FALSE
