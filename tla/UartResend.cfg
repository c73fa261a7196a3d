SPECIFICATION Spec
CONSTANTS
    Boards = {"CH32V307"}
    BufSize = 4
    FifoSize = 2
    MaxWrite = 4
    MaxBytes = 9
    MaxSent = 9
INVARIANTS
    SentOnce
CHECK_DEADLOCK FALSE
