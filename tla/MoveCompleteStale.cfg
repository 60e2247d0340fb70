SPECIFICATION Spec
CONSTANTS
    Modes = {"settle"}
    SwayBounded = FALSE
    Hold = 1
    MaxAge = 1
    Grace = 3
    HorizonMaxAge = 2
    Timeout = 4
    MaxElapsed = 5
    PlanTime = 0
    Depth = 2
    Samples <- MCStandingSample
    Verdicts <- MCSettledVerdict
INVARIANTS
    NothingLatchedBeforeTheMove
