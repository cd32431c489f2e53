SPECIFICATION Spec
CONSTANTS
    a = a
    b = b
    Conns <- TwoClients
    FrameSet <- KeyOnly
    MaxPacket = 5
    RtpHeader = 1
    SeqWrap = 4
    MaxFrames = 2
    MaxSetups = 1

    
PROPERTIES
    FrameIsSent
CHECK_DEADLOCK FALSE
