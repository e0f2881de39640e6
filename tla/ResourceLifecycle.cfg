\* Every profile.  Up to two failures, two edits and one disturbance by others, four
\* such events in all, in any order.
SPECIFICATION FairSpec
CONSTANTS
    Profiles <- AllResources
    Absent = Absent
    MaxObjects = 5
    MaxFailures = 2
    MaxDrifts = 1
    MaxEdits = 2
    MaxEvents = 4
INVARIANTS
    TypeOK
    OkMeansDone
    GoneBeforeNext
PROPERTIES
    NotLost
    Converges
