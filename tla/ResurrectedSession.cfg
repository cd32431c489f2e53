SPECIFICATION Spec
CONSTANTS
    ws = ws
    http = http
    e1 = e1
    e2 = e2
    WsSessions <- OneWs
    HttpSessions <- NoSession
    Executors <- TwoExecutors
    MaxFrames <- WsTwo
    Decodable <- FirstFrames
INVARIANTS
    EndedSessionsRemoved
CHECK_DEADLOCK FALSE
