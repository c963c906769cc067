CONSTANTS
    Admins = {p, q}
    OtherKinds = {}
    MaxAttempts = 1
    MaxSeq = 2
    MaxInserts = 4
    MaxCrashes = 0
    Servers = {s1, s2}
    MaxElections = 1
    Calls = {a, b}
    Refusals = {"retry"}
SPECIFICATION Spec
SYMMETRY Symmetric
INVARIANTS
    EffectsInOrder
    NoOvertaking
    LedgerMatchesWatermark
    NewestStatusShown
PROPERTIES
    ImplementsStream
