SPECIFICATION Spec
CONSTANTS
    Services = {"s1", "s2"}
    NoService = NoService
    AppIds = {1, 2, 3, 4}
    SubTables <- Tables
    NoTable = NoTable
    MaxChanges = 3
INVARIANTS
    CollectedFromOneSubTable
PROPERTIES
    ImplementsAitInUse
    SettlesOnTheTable
CHECK_DEADLOCK FALSE
