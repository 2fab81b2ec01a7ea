SPECIFICATION FairSpec
CONSTANTS
    c1 = c1
    c2 = c2
    Conns = {c1, c2}
    IpOf <- Addresses
    Whitelist = {"remote"}
    Local = {c1}
    Rate = 2
    Contexts = {1, 2, 3}
    Environments <- EveryWeather
INVARIANTS
    TypeOK
    ContextsOwned
    FreedOnce
    NoStaleHandle
    SessionsAreAdmins
    ClientsKept
    RateBound
PROPERTIES
    AbandonedHandshakesEnd
CHECK_DEADLOCK FALSE
