SPECIFICATION FairSpec
CONSTANTS
    Boards = {"CH592", "CH32V307"}
    BufSize = 4
    FifoSize = 2
    MaxWrite = 4
    MaxBytes = 9
    MaxSent = 9
INVARIANTS
    InOrder
    KickNotLost
    DmaReadsPublished
    DmaKeptBusy
PROPERTIES
    AllSent
CHECK_DEADLOCK FALSE
