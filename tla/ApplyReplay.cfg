CONSTANTS
    Servers = {s1, s2}
    Bodies = {x, y}
    NoBody = none
    Uids = {u, v}
    NoUid = nouid
    Commands = {"create", "delete"}
    MaxLog = 4
    MaxPending = 2
    MaxCrashes = 1
CHECK_DEADLOCK FALSE
SPECIFICATION Spec
SYMMETRY Symmetric
INVARIANTS
    ReplicasAgree
