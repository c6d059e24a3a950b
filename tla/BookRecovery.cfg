SPECIFICATION BookFairSpec
CONSTANTS
    MaxSeq = 4
    MaxRecoveries = 3
    Corruptible = {3}
    MaxWait = 3
    HasRecovery = TRUE
    OnStart = TRUE
    Touching = {2}
INVARIANTS
    NoSilentLoss
    BookCorrect
PROPERTIES
    BufferedNotDropped
    DecodeOrder
    HandlerExclusive
    RecoveryEnds
CHECK_DEADLOCK FALSE
