\* A2B moves, watched descents and landings with the deadman, every answer, and both clocks.
SPECIFICATION MoveSpec
CONSTANTS
    Efforts <- MCEfforts
    Drop = 2
    Heights <- MCTarget
    MaxAbove = 0
    Floor = 1
    Reference = 2
    Hold = 1
    Timeout = 3
    MaxWindow = 1
    Unset = Unset
    Nothing = Nothing
    Unreadable = Unreadable
    ShortNap = 3
    LongNap = 4
    WaitTimeout = 1
    Kinds = {"above", "watch", "land"}
    Cancels = FALSE
    SwitchFaults = FALSE
    SlowClock = FALSE
    Backlog = 1
INVARIANTS
    MoveTypeOK
    LandingIsSeen
    ReferenceAtRest
    NothingMovesUnconfirmed
    EndsInactive
    ContactIsOfThisMove
