SPECIFICATION Spec
CONSTANTS
    m1 = m1
    m2 = m2
    a1 = a1
    NoManager = NoManager
    Manager = {m1, m2}
    Actor = {a1}
    Asks <- MCAsks
    Lists <- MCLists
    HighWater = 2
    MaxStart <- MCMaxStart
    MaxStray <- MCMaxStray
INVARIANT RegistryInv
INVARIANT AliveListed
INVARIANT AnswerLag
CHECK_DEADLOCK FALSE
