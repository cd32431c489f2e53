SPECIFICATION Spec
CONSTANTS
    ws = ws
    http = http
    e1 = e1
    e2 = e2
    WsSessions <- OneWs
    HttpSessions <- OneHttp
    Executors <- TwoExecutors
    MaxFrames <- OneEach
    Decodable <- FirstFrames
PROPERTIES
    
    HttpSessionEnds
CHECK_DEADLOCK FALSE
