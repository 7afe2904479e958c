SPECIFICATION Spec
CONSTANTS
    c1 = c1
    c2 = c2
    Conns <- MCConns
    None = None
    Keeps <- MCKeeps
    Statuses = {0, 1}
INVARIANTS DescriptorInv EndedOnce
PROPERTIES ClosedInTime Answered
CHECK_DEADLOCK FALSE
