SPECIFICATION Spec
CONSTANTS
    Objects = {"v", "w"}
    Transient = {"w"}
    Channels = {a, b}
    Streams = {"s", "t"}
    XhrStreams = {"s"}
    Listeners = {"l"}
    NoChannel = NoChannel
    NoObject = NoObject
    MaxCalls <- MCMaxCalls
    MaxIds = 2
    MaxEvents = 1
    MaxQueue = 2
    MaxNest = 1
SYMMETRY Symmetry
INVARIANTS
    ActiveObjectListens
    OneActiveObject
    StreamEventMapsAgree
    ChannelFollows
CHECK_DEADLOCK FALSE
