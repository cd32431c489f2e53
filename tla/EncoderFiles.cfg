SPECIFICATION Spec
CONSTANTS
    Shapes <- ThreeShapes
    Preamble <- TwoAtoms
    AtomHeader = 1
    LengthSize = 1
    SwitchPoint = 6
    MaxIndex = 2
    MaxFrames = 3
INVARIANTS
    ReaderInStep
    FramesIntact
    TimesDrift
PROPERTIES
    FramesAreDelivered
CHECK_DEADLOCK FALSE
