SPECIFICATION LiveSpec
CONSTANTS
    NULL = NULL
    LocationFiles <- AllLocationFiles
    BlockFiles <- AllBlockFiles
    UlongMax = 7
    MaxLines = 3
    Lookups <- AllLookups
    Clients = {c1, c2}
    Addresses <- AllAddresses
    NoResponse = NoResponse
    ServedFiles <- Served
INVARIANTS TablesInv AnswerInv
PROPERTY SessionsRun
CHECK_DEADLOCK FALSE
