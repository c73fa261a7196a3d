SPECIFICATION FairSpec
CONSTANTS
    Slots = 2
    Total = 5
    MaxStarts = 2
    MaxResets = 1
    RestartAnytime = FALSE
    PumpAhead = TRUE
INVARIANTS
    RingInOrder
    InOrder
PROPERTIES
    ImplementsDownload
CHECK_DEADLOCK FALSE
