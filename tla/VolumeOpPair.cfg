SPECIFICATION Spec
CONSTANTS
    Callers = {c1, c2}
    NoCaller = NoCaller
    Instances = {i1, i2}
    NoInstance = NoInstance
    Plans = {p1, p2}
    Actions = {"attach", "detach", "resize", "delete"}
    WithDeadline = TRUE
CHECK_DEADLOCK FALSE
SYMMETRY Symmetry
INVARIANTS
    TypeOK
    SoloVerdictIsFinal
PROPERTIES
    NoResendAfterDoubt
    KeepsPromise
