\* The statement of SubTreeRegrip, with a look at the block before it is gripped again.
SPECIFICATION FairSpec
CONSTANTS
    Count = 2
    Attempts = 3
    MpcDrives = TRUE
INVARIANTS
    JawsGoToTheBlock
