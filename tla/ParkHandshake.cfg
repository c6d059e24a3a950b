SPECIFICATION FairParkSpec
CONSTANTS
    Producer = {p1, p2}
    Cap = 1
    MaxPush = 2
INVARIANTS
    NoLostWakeup
PROPERTY Drained
