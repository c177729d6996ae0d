CONSTANTS
    Mod = 27
    DivLatency = 5
    SharedAddrBase = 4
    LoadBase = 3
    MaxStalls = 2
    Menus <- MCMenus
SPECIFICATION Spec
INVARIANTS RetiresLikeIsa NeverStuck ListingIsRight
CHECK_DEADLOCK FALSE
