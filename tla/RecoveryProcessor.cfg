SPECIFICATION FairSpec
CONSTANTS
    Book <- MCBook
    Chunks <- MCChunks
    MaxCycle = 2
    Layout <- MCLayout
    LastSeq <- MCLastSeq
    MaxLast = 4
    Defs <- MCDefs
    Window = 2
    MaxFaults = 3
    MaxRequests = 2
INVARIANTS
    AnswerCovered
    RecoveryInv
PROPERTY RecoveryCompletes
CHECK_DEADLOCK FALSE
