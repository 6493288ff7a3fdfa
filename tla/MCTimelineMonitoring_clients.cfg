SPECIFICATION Spec
CONSTANTS
    o1 = o1
    o2 = o2
    temi = temi
    pts = pts
    Selectors = {o1, pts}
    Kind <- MCKind
    Clients = {c1, c2}
    ContentIds = {i1}
    NoContentId = NoContentId
    None = None
    Sys = Sys
    MaxWatchers = 2
    MaxUses = 2
    MaxFilters = 1
    Stems = {i1}
    MaxMedia = 1
SYMMETRY Symmetry
INVARIANTS
    SourceIffWatched
    
    SelectorWatched
CHECK_DEADLOCK FALSE
