SPECIFICATION FairSpec
CONSTANTS
    Workers = {w1, w2}
    Nonces = {n1}
    Payloads = {p1, p2}
    Absent = Absent
    TTL = 2
    Grace = 1
    Res = 2
    Fragile = {n1}
    LastMint = 2
    MaxNow = 10
    MaxCrashes = 1
INVARIANTS
    AtMostOnePass
    RefusalHasACause
    GateInv
PROPERTIES
    PassIsJustified
    LiveLeavesByClaim
    ImplementsLedger
    StaleFilesRemoved
CHECK_DEADLOCK FALSE
