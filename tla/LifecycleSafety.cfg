SPECIFICATION Spec
CONSTANTS
    c1 = c1
    c2 = c2
    Callers = {c1, c2}
    NoCaller = NoCaller
    MaxLaunches = 4
    Environments <- SafetyEnvironments
INVARIANTS
    TypeOK
    WatchersEnd
    RunningIsBacked
    RestartsAreCounted
    RetryBudget
    ShutdownLeavesNothing
    SingleCopy
    TransientShown
PROPERTIES
    GivesUpForCause
SYMMETRY CallerSymmetry
CHECK_DEADLOCK FALSE
