CONSTANTS
    MaxConns = 2
    Keys = {1, 2}
    Opts = {1, 2}
    MaxOthers = 1
    MaxLate = 1
SPECIFICATION FairSpec
INVARIANTS TypeOK KeyTrusted EmptyPlan NoSilentOrphan FreedMeansFree
PROPERTIES WaitEnds KeyHealed
CHECK_DEADLOCK FALSE
