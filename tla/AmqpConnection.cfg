SPECIFICATION Spec
CONSTANTS
    Frames <- Content
    EarlyFrames <- Early
    MaxSent = 6
    RecvSizes = {1, 7, 8, 30}
    InitialPageSize = 32
    ClientFrameMax = 48
    ServerFrameMax = 24
    BlockSize <- Sizes
INVARIANTS
    
    BlocksDisjoint
    FramesKeepMemory
    GivenInOrder
CHECK_DEADLOCK FALSE
