CONSTANTS
    Admins = {}
    OtherKinds = {"finalize"}
    MaxAttempts = 2
    MaxSeq = 3
    MaxInserts = 5
    MaxCrashes = 0
    Servers = {s1}
    MaxElections = 0
    Calls = {a, b}
    Refusals = {"retry", "codec"}
SPECIFICATION Spec
SYMMETRY Symmetric
INVARIANTS
    TypeOK
    UnconsumedIsHeld
    NewestStatusShown
PROPERTIES
    ImplementsStream
