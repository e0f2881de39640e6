CONSTANTS
    MaxClusters = 2
    MaxName = 2
    MaxVersion = 2
    UpgradeCCM = TRUE
    Lossy = FALSE
    MaxLate = 1
SPECIFICATION Spec
INVARIANT DedupIsSafe
CHECK_DEADLOCK FALSE
