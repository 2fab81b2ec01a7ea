SPECIFICATION Spec
CONSTANTS
    s1 = s1
    s2 = s2
    Services = {s1, s2}
    NoService = NoService
    AutoStarted = {s1, s2}
    Delayed = {s2}
    MaxProcs = 3
    MaxBoots = 3
    Environments <- Ends
INVARIANTS
    TypeOK
    NoneLeftBehind
    BootRecoversAll
PROPERTIES
    ImplementsSupervision
CHECK_DEADLOCK FALSE
