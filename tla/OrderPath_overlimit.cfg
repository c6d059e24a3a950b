SPECIFICATION Spec
CONSTANTS
    b1 = b1
    b2 = b2
    Light = {b1, b2}
    Side <- BuyBuy
    MaxId = 2
    MaxSize = 2
    PosLimit = 1
    SizeLimit <- NoLimit
    FeedDelay = TRUE
    MaxConsole = 0
CHECK_DEADLOCK FALSE
INVARIANTS OneEntryPerLight
