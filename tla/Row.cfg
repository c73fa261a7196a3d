SPECIFICATION FairSpec
CONSTANTS
    Uses <- MCUses
    Rows = 9
    RowPackets = 2
    Bufs = 4
    StuckMax = 2
INVARIANTS
    DmaRowIntact
PROPERTIES
    ImplementsDownload
