SPECIFICATION FairSpec
CONSTANTS
    Uses <- MCUses
    StableSamples = 2
    CountMax = 3
    MaxSamples = 8
INVARIANTS
    EventsWhole
    RefusesForAReason
    PressesDebounced
PROPERTIES
    ImplementsEventBox
CHECK_DEADLOCK FALSE
