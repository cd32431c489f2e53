SPECIFICATION Spec
CONSTANTS
    ws = ws
    http = http
    e1 = e1
    e2 = e2
    WsSessions <- OneWs
    HttpSessions <- OneHttp
    Executors <- TwoExecutors
    MaxFrames <- WsOneHttpTwo
    Decodable <- FirstFrames
SYMMETRY ExecutorSymmetry
INVARIANTS
    HttpEndIsFinal
PROPERTIES
    HttpFramesInOrder
CHECK_DEADLOCK FALSE
