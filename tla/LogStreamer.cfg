SPECIFICATION FairSpec
CONSTANTS
    c1 = c1
    c2 = c2
    c3 = c3
    Conns = {c1, c2, c3}
    Limit = 1
    Handlers = 2
    Capacity = 2
    Subscription <- Viewers
    Sources <- Captured
INVARIANTS
    TypeOK
    NoPanic
    SlotsCounted
    StreamsBounded
    NoStaleClient
PROPERTIES
    DisconnectFreesSlot
CHECK_DEADLOCK FALSE
