\* One security group, one failure: the read that ends its creation.
SPECIFICATION Spec
CONSTANTS
    Profiles <- OnlySecurityGroup
    Absent = Absent
    MaxObjects = 2
    MaxFailures = 1
    MaxDrifts = 0
    MaxEdits = 0
    MaxEvents = 1
PROPERTIES
    PartialFailureKept
