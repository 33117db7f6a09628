SPECIFICATION Spec
CONSTANTS
    Runs = {r1}
    Entries <- MCEntries
    None = None
    MaxRuns = 3
    MaxFaults = 0
INVARIANTS
    RemovedIsHidden
CHECK_DEADLOCK FALSE
