\* Runs of the assembly loop over three blocks, cut off anywhere and run again.
SPECIFICATION FairSpec
CONSTANTS
    Count = 3
    Attempts = 3
    MpcDrives = TRUE
INVARIANTS
    CarriesItsTask
    HeldIsTakenOver
    MpcKnowsTheLoad
    TidyRunBuilds
PROPERTIES
    StaysInSlot
    CallsRunOut
    RunEnds
