SPECIFICATION Spec
CONSTANTS
    Workers = {w1}
    Ids = {i1, i2, i3}
    Nonces = {n1}
    Payloads = {p1, p2}
    Invalid = {}
    Guarded = {}
    Kinds = {"send_preview", "send"}
    Edits = {"disable"}
    Absent = Absent
    TTL = 0
    Res = 1
    MaxNow = 1
    MaxCrashes = 1
    MaxErrors = 0
SYMMETRY BridgeSymmetry
INVARIANTS
    SendChain
    OkIsTrue
PROPERTIES
    MessageWasPreviewed
CHECK_DEADLOCK FALSE
