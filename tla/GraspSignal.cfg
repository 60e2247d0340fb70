\* A detector that dies, starts over and is set back in time, and wait after wait.
SPECIFICATION FairSpec
CONSTANTS
    Hold = 1
    Duration = 1
    Depth = 2
    Timeout = 2
    MaxDelay = 1
    MaxBack = 1
INVARIANTS
    DownAfterReset
    FirmSignalIsHeard
PROPERTIES
    SuccessIsRecent
    WaitEnds
