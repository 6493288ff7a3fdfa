SPECIFICATION Spec
CONSTANTS
    Threads = {"t1", "t2"}
INVARIANTS
    LockInv
    StopIsFinal
PROPERTIES
    ImplementsTimer
    NoTimeoutAfterFirstAit
CHECK_DEADLOCK FALSE
