\* The three modes of the wait, with a rate bound, over dead and live producers and clocks.
SPECIFICATION FairSpec
CONSTANTS
    Modes = {"oracle", "settle", "action"}
    SwayBounded = TRUE
    Hold = 2
    MaxAge = 1
    Grace = 1
    HorizonMaxAge = 3
    Timeout = 3
    MaxElapsed = 4
    PlanTime = 1
    Depth = 1
    Samples <- MCTwoSamples
    Verdicts <- MCBoundedVerdicts
INVARIANTS
    DwellWasUnbroken
    DwellBelongsToThisMove
    OneVerdictIsNoDwell
    SilenceCutsNoDwell
    UnknownNeverSettles
PROPERTIES
    MoveEnds
