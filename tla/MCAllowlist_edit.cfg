SPECIFICATION Spec
CONSTANTS
    Runs = {r1, r2}
    Entries <- MCEntries
    None = None
    MaxRuns = 6
    MaxFaults = 2
SYMMETRY AllowSymmetry
INVARIANTS
    ListAddsUp
    EmptiedHasACause
    FewComeBack
    ClosedHasACause
CHECK_DEADLOCK FALSE
