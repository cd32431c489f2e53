SPECIFICATION Spec
CONSTANTS
    MaxConns = 2
    MaxFrames = 2
    CameraParts = {2}
    FileChunks = 1
INVARIANTS
    LateFrames
    StreamsSeparate
    NothingLeftOpen

    
CHECK_DEADLOCK FALSE
