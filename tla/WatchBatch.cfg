SPECIFICATION Spec
CONSTANTS
    Keys = {1, 2}
    Scope = {1}
    Watchers = {"open"}
    Requests = {"list", "initial"}
    WaitEnds = FALSE
    Batches <- Pair
    PageLimit = 2
    MaxRows = 1
    BatchCap = 1
    Capacity = 1
    MaxWire = 1
    MaxCommits = 2
    MaxElections = 0
    MaxBreaks = 1
INVARIANTS
    BookmarkPromise
