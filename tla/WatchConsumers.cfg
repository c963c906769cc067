SPECIFICATION Spec
CONSTANTS
    Keys = {1, 2}
    Scope = {1}
    Watchers = {"worker", "scoped", "open"}
    Requests = {"list", "initial"}
    WaitEnds = FALSE
    Batches <- Pair
    PageLimit = 2
    MaxRows = 1
    BatchCap = 1
    Capacity = 1
    MaxWire = 1
    MaxCommits = 3
    MaxElections = 1
    MaxBreaks = 1
INVARIANTS
    TypeOK
    MembershipFaithful
    MirrorMatchesCursor
    FramesFollowCursor
    ResumeSafe
    QuietMeansCurrent
