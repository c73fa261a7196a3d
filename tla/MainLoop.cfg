SPECIFICATION FairSpec
CONSTANTS
    Boards = {"CH592", "CH32L103"}
    Size = 3
    LedPeriod = 2
    StatsPeriod = 3
    ButtonPeriod = 1
    Debounces = {0, 1, 3}
    Clock = 8
    StartTime = 6
    MaxTime = 9
    Packets = 1
    MaxDebounces = 2
    MaxStarts = 2
    Levels = {80}
    MaxRequests = 2
INVARIANTS
    SetApartShows
    NoNullCall
PROPERTIES
    ButtonTaskStays
    TasksServed
    StartTaken
CHECK_DEADLOCK FALSE
