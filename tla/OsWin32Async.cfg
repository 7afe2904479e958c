SPECIFICATION AsyncSpec
CONSTANTS
    MaxOps = 2
    NoOp = NoOp
    Pipes <- MCPipes
    Sockets <- MCSockets
    Settings <- MCSettings
    OpenMax = 4
    MaxSent = 2
INVARIANTS OpsInv 
PROPERTY EachAnswered
CHECK_DEADLOCK FALSE
