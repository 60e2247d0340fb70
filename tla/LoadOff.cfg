SPECIFICATION FairSpec
CONSTANTS
    Efforts <- MCEfforts
    Drop = 2
    Heights <- MCHeights
    MaxAbove = 0
    Floor = 1
    Reference = 1
    Hold = 1
    Timeout = 4
    MaxWindow = 2
    Unset = Unset
    Nothing = Nothing
    Unreadable = Unreadable
INVARIANTS
    DipWasUnbroken
    ReadsThisDescent
    OutliersShiftNoReference
    LoadOffTellsLandingFromContact
PROPERTIES
    GateEnds
