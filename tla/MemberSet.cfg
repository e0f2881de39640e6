\* Two faults and two edits by others, in any order.
SPECIFICATION FairSpec
CONSTANTS
    A = A
    B = B
    BlocksOf <- BlocksOfKind
    Entries <- SomeEntries
    Rules <- SomeRules
    Attached <- SomeAttached
    Held <- SomeHeld
    MaxFaults = 2
    MaxEdits = 2
INVARIANTS
    TypeOK
    OkMeansDone
PROPERTIES
    Converges
