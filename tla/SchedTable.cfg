SPECIFICATION FairSpec
CONSTANTS
    Size = 2
    Names = {"led", "btn", "aux"}
    Periods = {2}
    Clock = 8
    StartTime = 6
    MaxTime = 9
    MaxOps = 4
    InCallbacks = TRUE
    Btn = "btn"
INVARIANTS
    TypeOK
    DueIsDue
    NoDuplicates
PROPERTIES
    DueIsCalled
    ImplementsTimers
CHECK_DEADLOCK FALSE
