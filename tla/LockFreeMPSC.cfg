SPECIFICATION FairSpec
CONSTANTS
    p1 = p1
    p2 = p2
    Producer = {p1, p2}
    N = 2
    MaxPush = 3
INVARIANTS
    NoDataRace
PROPERTIES
    MailboxSpec
    EventualDelivery
    PushesComplete
