CONSTANTS
    Calls = {1, 2}
    Keys = {k}
    MaxAttempts = 3
SPECIFICATION PairedSpec
INVARIANTS OncePerKey SuccessIsReal FirstRefusalIsFinal
PROPERTIES Returns ImplementsOneShot
CHECK_DEADLOCK FALSE
