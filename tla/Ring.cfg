SPECIFICATION FairSpec
CONSTANTS
    Hosts <- MCHosts
    Slots = 4
    Total = 5
    HealMax = 2
    StuckMax = 3
INVARIANTS
    TypeOK
    DmaSlotIntact
    RingInOrder
    InOrder
    QuietWhenIdle
PROPERTIES
    PumpReturns
    ImplementsDownload
