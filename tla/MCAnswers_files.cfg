SPECIFICATION Spec
CONSTANTS
    Workers = {w1, w2}
    Ids <- MCIds
    Absent = Absent
    TTL = 0
    MaxNow = 1
    MaxCrashes = 1
    MaxErrors = 1
    MaxBreaks = 1
SYMMETRY AnswersSymmetry
INVARIANTS
    ReapLeavesNoneOld
    LitterOnlyFromKills
    LostOnlyByFaults
PROPERTIES
    ReapedOnlyStale
    OverwritesHaveACause
    ImplementsMailbox
CHECK_DEADLOCK FALSE
