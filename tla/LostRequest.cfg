SPECIFICATION Spec
CONSTANTS
    c1 = c1
    c2 = c2
    c3 = c3
    w1 = w1
    w2 = w2
    s1 = s1
    s2 = s2
    Calls <- ThreeCalls
    CorrelationId <- SessionOf
    Decodable <- AllButTwo
    Workers <- TwoWorkers
    MaxFaults = 1
INVARIANTS
    EveryMessageHandled
CHECK_DEADLOCK FALSE
