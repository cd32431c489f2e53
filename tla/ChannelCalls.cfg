SPECIFICATION Spec
CONSTANTS
    IdSpace = 6
    BodyFrames = {0, 2}
    Tags = {"a", "b"}
    NoAck = {"a", "no tag"}
    ChannelMax = 0
    MaxCalls = 4
    MaxDeliveries = 1
INVARIANTS
    EnvelopesIntact
    
    FreeChannelsClean
    
    NothingDropped

    
CHECK_DEADLOCK FALSE
