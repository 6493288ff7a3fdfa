SPECIFICATION FairSpec
CONSTANTS
    Locals = {l1, l2}
    Remotes = {r1}
    Endpoints = {e1}
    NoEndpoint = NoEndpoint
    None = None
    Senders = {r1}
    MaxFragments = 2
    Faults <- AllFaults
INVARIANTS PairsAreMutual NobodyWaitsForAWaiting RelayedInOrder DestroyedByTheLast
PROPERTY StopEnds
CHECK_DEADLOCK FALSE
