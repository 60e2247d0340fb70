SPECIFICATION MoveSpec
CONSTANTS
    Efforts <- MCEfforts
    Drop = 2
    Heights <- MCTarget
    MaxAbove = 0
    Floor = 1
    Reference = 1
    Hold = 1
    Timeout = 2
    MaxWindow = 1
    Unset = Unset
    Nothing = Nothing
    Unreadable = Unreadable
    ShortNap = 2
    LongNap = 3
    WaitTimeout = 1
    Kinds = {"above"}
    Cancels = TRUE
    SwitchFaults = FALSE
    SlowClock = FALSE
    Backlog = 1
INVARIANTS
    NothingMovesUnconfirmed
