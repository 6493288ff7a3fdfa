SPECIFICATION FairSpec
CONSTANTS
    Syncs = {s1}
    MaxServices = 4
    MaxUnderrun = 1
    MaxClients = 0
    MaxFaults = 1
    None = None
    App = App
PROPERTY
    AbruptStopStopsTheOthers
CHECK_DEADLOCK FALSE
