SPECIFICATION FairSpec
CONSTANTS
    Workers = {w1, w2}
    Ids = {i1, i2}
    Nonces = {n1, n2}
    Payloads = {p1, p2}
    Invalid = {p2}
    Guarded = {}
    Kinds = {"send_preview", "send", "read", "bad"}
    Edits = {}
    Absent = Absent
    TTL = 0
    Res = 1
    MaxNow = 0
    MaxCrashes = 0
    MaxErrors = 0
PROPERTIES
    Drained
CHECK_DEADLOCK FALSE
