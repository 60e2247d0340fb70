\* Landings cut off, cancelled and recovered, with switches that are refused or not answered.
SPECIFICATION MoveFairSpec
CONSTANTS
    Efforts <- MCEfforts
    Drop = 2
    Heights <- MCTarget
    MaxAbove = 0
    Floor = 1
    Reference = 0
    Hold = 0
    Timeout = 0
    MaxWindow = 1
    Unset = Unset
    Nothing = Nothing
    Unreadable = Unreadable
    ShortNap = 1
    LongNap = 1
    WaitTimeout = 1
    Kinds = {"land"}
    Cancels = TRUE
    SwitchFaults = TRUE
    SlowClock = TRUE
    Backlog = 0
PROPERTIES
    ConfirmedMoveEnds
