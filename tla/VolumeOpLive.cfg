SPECIFICATION FairSpec
CONSTANTS
    Callers = {c1, c2}
    NoCaller = NoCaller
    Instances = {i1, i2}
    NoInstance = NoInstance
    Plans = {p1, p2}
    Actions = {"attach", "detach"}
    WithDeadline = FALSE
CHECK_DEADLOCK FALSE
PROPERTIES
    Terminates
