SPECIFICATION Spec
CONSTANTS
    Origins = {"o1", "o2"}
    Keys = {1, 2}
    Services = {"s1", "s2"}
    NoService = NoService
    ServiceId <- Ids2
    Instances <- NoInstances
    NoAit = NoAit
    NoApp = NoApp
    BroadcastAits <- AitsCore
    XmlAits <- NoXml
    Pids = {1, 2}
    MaxAppId = 3
INVARIANTS
    BrowserAgrees
    BrowserHoldsRunningApp
    AitOfCurrentService
    IndependentAppNotTuned
    RunningTransportNotFailed
    BroadcastAppIsSignalled
    CreateReturnsTheApp
PROPERTIES
    NeverLeftWithoutAutostart
    RestrictedAppEnds
    BoundAppStaysInService
CHECK_DEADLOCK FALSE
