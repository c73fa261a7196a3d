SPECIFICATION FileSpec
CONSTANTS
    Width = 4
    Height = 3
    Word = 65536
    FsPackets = {7, 16}
    HsPackets = {54, 64}
INVARIANTS
    WalkAgrees
    
    HeaderTells
