CONSTANTS
    Saves = {s1, s2}
    States = {o1, o2}
    MaxCommits = 3
    MaxPending = 1
    MaxCrashes = 2
    RestoreMayFail = TRUE
SPECIFICATION Spec
INVARIANTS
    CommittedDataSurvives
    StateFollowsData
PROPERTIES
    DeletedStaysDeleted
    ImplementsStore
CHECK_DEADLOCK FALSE
