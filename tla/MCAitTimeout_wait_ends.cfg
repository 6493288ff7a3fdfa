SPECIFICATION FairSpec
CONSTANTS
    Threads = {"t1", "t2"}
PROPERTIES
    AitWaitEnds
CHECK_DEADLOCK FALSE
