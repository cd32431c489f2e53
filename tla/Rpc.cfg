SPECIFICATION Spec
CONSTANTS
    c1 = c1
    c2 = c2
    c3 = c3
    w1 = w1
    w2 = w2
    s1 = s1
    s2 = s2
    Calls <- ThreeCalls
    CorrelationId <- SessionOf
    Decodable <- AllButTwo
    Workers <- TwoWorkers
    MaxFaults = 1
INVARIANTS
    TypeOK
    HandledAtMostOnce
    AnswersOwnFrame
    WorkerLossAccounted
PROPERTIES
    ImplementsRpc
    QueueDrains
CHECK_DEADLOCK FALSE
