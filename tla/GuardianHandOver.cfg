SPECIFICATION Spec
CONSTANTS
    s1 = s1
    s2 = s2
    Services = {s1, s2}
    NoService = NoService
    AutoStarted = {s1}
    Delayed = {s1}
    MaxProcs = 2
    MaxBoots = 2
    Environments <- RestartOnly
INVARIANTS
    ChildrenContinue
CHECK_DEADLOCK FALSE
