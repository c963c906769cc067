CONSTANTS
    Admins = {p}
    OtherKinds = {"finalize", "bad", "meta"}
    MaxAttempts = 2
    MaxSeq = 2
    MaxInserts = 3
    MaxCrashes = 1
    Servers = {s1}
    MaxElections = 0
    Calls = {a}
    Refusals = {"retry"}
SPECIFICATION FairSpec

    
PROPERTIES
    RowsSettle
