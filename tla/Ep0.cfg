SPECIFICATION FairSpec
CONSTANTS
    Boards = {"CH592F", "CH32L103", "CH585M", "CH32V307"}
    PacketSize = 3
    Sizes = {2, 3, 4, 6, 7}
    WLengths = {0, 1, 3, 5, 6, 9}
    Addresses = {7}
    MaxTransfers = 2
    MaxResets = 1
    MaxLost = 1
INVARIANTS
    AnswerExact
    AddressAgrees
PROPERTIES
    TransferEnds
CHECK_DEADLOCK FALSE
