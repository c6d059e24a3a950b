SPECIFICATION Spec
CONSTANTS
    MaxPx = 4
    MaxSize = 2
    MaxTx = 2
    MaxSim = 2
    SimSize = {2}
    Starts <- mc_Starts
INVARIANTS
    BookMatches
    SimFillsBacked
    NoSimLeftBehind
CHECK_DEADLOCK FALSE
