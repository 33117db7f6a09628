SPECIFICATION Spec
CONSTANTS
    Workers = {w1}
    Ids = {i1, i2}
    Nonces = {n1}
    Payloads = {p1}
    Invalid = {}
    Guarded = {p1}
    Kinds = {"send_preview", "send"}
    Edits = {"block"}
    Absent = Absent
    TTL = 0
    Res = 1
    MaxNow = 0
    MaxCrashes = 0
    MaxErrors = 0
INVARIANTS
    BlockedMeansUnsent
CHECK_DEADLOCK FALSE
