CONSTANTS
    Mod = 27
    DivLatency = 5
    SharedAddrBase = 4
    LoadBase = 3
    MaxStalls = 2
    Latencies = {1, 3}
    Menus <- MCMenus
SPECIFICATION Spec
INVARIANTS RetiresLikeIsa NeverStuck FetchIsSteady RequestsStay
CHECK_DEADLOCK FALSE
