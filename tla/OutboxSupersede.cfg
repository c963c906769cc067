CONSTANTS
    Admins = {p}
    OtherKinds = {"finalize"}
    MaxAttempts = 1
    MaxSeq = 2
    MaxInserts = 4
    MaxCrashes = 0
    Servers = {s1}
    MaxElections = 0
    Calls = {a}
    Refusals = {"retry"}
SPECIFICATION Spec
SYMMETRY Symmetric
INVARIANTS
    SupersededComesBefore
