\* The statement of PlanComplete, over runs that may be cut off.
SPECIFICATION FairSpec
CONSTANTS
    Count = 2
    Attempts = 3
    MpcDrives = TRUE
INVARIANTS
    SuccessMeansBuilt
