SPECIFICATION FairEnumSpec
CONSTANTS
    Devices = {"CH592", "CH32L103", "CH585", "CH32V307"}
    MaxRestarts = 1
INVARIANTS
    PromisesKept
    
PROPERTIES
    CapabilitiesFound
CHECK_DEADLOCK FALSE
