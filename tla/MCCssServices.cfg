SPECIFICATION FairSpec
CONSTANTS
    Syncs = {s1, s2}
    MaxServices = 3
    MaxUnderrun = 1
    MaxClients = 1
    MaxFaults = 1
    None = None
    App = App
INVARIANTS
    RunningServicesCounted
    FreedWithItsServices
    StopsItsOwnServices
PROPERTY
    UndisturbedStopStopsTheOthers
CHECK_DEADLOCK FALSE
