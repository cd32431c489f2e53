SPECIFICATION Spec
CONSTANTS
    a = a
    b = b
    Conns <- OneClient
    FrameSet <- KeyAndDelta
    MaxPacket = 5
    RtpHeader = 1
    SeqWrap = 4
    MaxFrames = 2
    MaxSetups = 2
INVARIANTS
    TypeOK
    PacketsWellFormed
    StreamContiguous
    StartsAtIdr
    ReportsMatchStream
PROPERTIES
    SentOnlyWhilePlaying
CHECK_DEADLOCK FALSE
