SPECIFICATION Spec
CONSTANTS
    c1 = c1
    c2 = c2
    Clients <- MCClients
    Sessions = {s1, s2, s3}
    None = None
    MaxLength = 2
    Limits = {2, 4}
    MaxSent <- MCMaxSent
INVARIANTS SessionInv EchoInOrder
PROPERTIES Serves Reclaimed
CHECK_DEADLOCK FALSE
