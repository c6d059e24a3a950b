SPECIFICATION FairSpec
CONSTANTS
    b1 = b1
    b2 = b2
    Light = {b1}
    Side <- BuyBuy
    MaxId = 2
    MaxSize = 2
    PosLimit = 2
    SizeLimit <- NoLimit
    FeedDelay = TRUE
    MaxConsole = 2
CHECK_DEADLOCK FALSE
INVARIANTS LiveOrderKnown PositionBounded
PROPERTIES CancelSettles StopUnwinds
