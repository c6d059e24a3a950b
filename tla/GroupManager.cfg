SPECIFICATION Spec
CONSTANTS
    g1 = g1
    g2 = g2
    a1 = a1
    a2 = a2
    NoActor = NoActor
    GroupOrder <- MCGroupOrder
    GroupOf <- MCGroupOf
    Actor = {a1, a2}
    Pattern = {g2}
    MaxMsg <- MCMaxMsg
    MaxFault = 1
INVARIANT PermissionInv
PROPERTY FifoPermissionSpec
PROPERTY StopHolds
PROPERTY WaitersServed
PROPERTY ShutdownAnnounced
CHECK_DEADLOCK FALSE
