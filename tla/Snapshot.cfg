\* One create, alone while rows may show late, or among others who create and
\* delete snapshots of the name; the platform may stop at any time.
SPECIFICATION FairSpec
CONSTANTS
    Creators = {c1}
    Someone = someone
    Ids = {s1, s2, s3}
    NoId = none
    Worlds <- AloneOrCrowded
CHECK_DEADLOCK FALSE
INVARIANTS
    TypeOK
    OneSnapshotPerCreate
    DefiniteErrorsRecordNothing
    TracksOnlyNew
    NothingStranded
PROPERTIES
    Terminates
