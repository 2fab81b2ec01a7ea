SPECIFICATION Spec
CONSTANTS
    c1 = c1
    c2 = c2
    Callers = {c1, c2}
    NoCaller = NoCaller
    MaxLaunches = 3
    Environments <- OverlapOnly
INVARIANTS
    OneCopy
SYMMETRY CallerSymmetry
CHECK_DEADLOCK FALSE
