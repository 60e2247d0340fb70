SPECIFICATION FairSpec
CONSTANTS
    Routes = {"angled", "simple", "setdown", "hover"}
    Attempts = 2
    Passes = 3
    MpcDrives = TRUE
    MaxPace = 2
INVARIANTS
    NothingDescendsAfterContact
    NothingIsDropped
    EntryIsMeasured
    LiftCarriesTheBlock
PROPERTIES
    PlacementSpec
    CallsRunOut
    PlaceEnds
