SPECIFICATION Spec
CONSTANTS
    Origins = {"o1"}
    Keys = {1, 2}
    Services = {"s1"}
    NoService = NoService
    ServiceId <- Ids1
    Instances <- NoInstances
    NoAit = NoAit
    NoApp = NoApp
    BroadcastAits <- AitsOne
    XmlAits <- XmlBoth
    Pids = {1}
    MaxAppId = 3
INVARIANTS
    SlotsConsistent
CHECK_DEADLOCK FALSE
