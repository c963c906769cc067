SPECIFICATION FairSpec
CONSTANTS
    Keys = {1}
    Scope = {1}
    Watchers = {"worker"}
    Requests = {"list", "initial"}
    WaitEnds = FALSE
    Batches = {}
    PageLimit = 2
    MaxRows = 1
    BatchCap = 1
    Capacity = 1
    MaxWire = 2
    MaxCommits = 2
    MaxElections = 0
    MaxBreaks = 0
PROPERTIES
    MirrorCatchesUp
