SPECIFICATION Spec
CONSTANTS
    b1 = b1
    b2 = b2
    Light = {b1, b2}
    Side <- BuySell
    MaxId = 2
    MaxSize = 2
    PosLimit <- NoLimit
    SizeLimit <- NoLimit
    FeedDelay = TRUE
    MaxConsole = 0
CHECK_DEADLOCK FALSE
INVARIANTS OrderInv FillsFindOrder AccountsAgree
