\* Three operations of others, so that a destroy can be refused for good; up to
\* two failures and two edits, four such events in all, in any order.
SPECIFICATION FairSpec
CONSTANTS
    i1 = i1
    i2 = i2
    small = small
    large = large
    Instances <- TwoInstances
    Plans <- TwoPlans
    NoInstance = NoInstance
    Absent = Absent
    MaxFailures = 2
    MaxOthers = 3
    MaxEdits = 2
    MaxEvents = 4
INVARIANTS
    TypeOK
    OkMeansDone
PROPERTIES
    DestroyHolds
    Converges
