SPECIFICATION FairSpec
CONSTANTS
    c1 = c1
    Callers = {c1}
    NoCaller = NoCaller
    MaxLaunches = 2
    Environments <- LivenessEnvironments
PROPERTIES
    StoppedMonitorEnds
    CallsReturn
    CrashIsAnswered
CHECK_DEADLOCK FALSE
