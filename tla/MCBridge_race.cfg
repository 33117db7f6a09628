SPECIFICATION Spec
CONSTANTS
    Workers = {w1, w2}
    Ids = {i1, i2}
    Nonces = {n1}
    Payloads = {p1}
    Invalid = {}
    Guarded = {p1}
    Kinds = {"send_preview", "send"}
    Edits = {"block"}
    Absent = Absent
    TTL = 0
    Res = 1
    MaxNow = 0
    MaxCrashes = 1
    MaxErrors = 2
SYMMETRY BridgeSymmetry
INVARIANTS
    ServedOncePerFault
    BlockedBeforeRunMeansUnsent
PROPERTIES
    RemovedOnlyAnswered
    ImplementsMailbox
CHECK_DEADLOCK FALSE
