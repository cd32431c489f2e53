SPECIFICATION Spec
CONSTANTS
    Contents <- AllContents
    LengthSizes = {0, 1, 4}
INVARIANTS
    
    UnitsAsWritten
    HeadersAsWritten
    NeverStuck
CHECK_DEADLOCK FALSE
