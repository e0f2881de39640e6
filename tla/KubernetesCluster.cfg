CONSTANTS
    MaxClusters = 2
    MaxName = 2
    MaxVersion = 2
    UpgradeCCM = TRUE
    Lossy = TRUE
    MaxLate = 1
SPECIFICATION FairSpec
INVARIANTS TypeOK Recoverable WorkersNeverAhead OkMeansUpgraded
PROPERTY Converges
CHECK_DEADLOCK FALSE
