SPECIFICATION Spec
CONSTANTS
    o1 = o1
    o2 = o2
    temi = temi
    pts = pts
    Selectors = {o1, o2, temi}
    Kind <- MCKind
    Clients = {c1}
    ContentIds = {}
    NoContentId = NoContentId
    None = None
    Sys = Sys
    MaxWatchers = 2
    MaxUses = 1
    MaxFilters = 1
    Stems = {NoContentId}
    MaxMedia = 0
SYMMETRY Symmetry
INVARIANTS
    ParentsExist
    FilterOfEntryRuns
CHECK_DEADLOCK FALSE
