SPECIFICATION Spec
CONSTANTS
    Workers = {w1, w2}
    Backups = 3
    Full = 2
    MaxCalls = 10
    MaxCrashes = 1
SYMMETRY LogSymmetry
INVARIANTS
    FilesBounded
    DroppedOnlyByRace
    OldestFirst
    LossesBounded
CHECK_DEADLOCK FALSE
