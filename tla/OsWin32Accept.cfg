SPECIFICATION Spec
CONSTANTS
    p1 = p1
    p2 = p2
    c1 = c1
    c2 = c2
    Procs = {p1, p2}
    Conns = {c1, c2}
    None = None
    HandleOf <- MCHandleOf
    AppHandle = 6
    AddressOf <- MCAddressOf
    Within <- MCWithin
    AddressLists <- MCAddressLists
    Origins = {"inherited", "created"}
    Kinds = {"pipe", "socket"}
    OpenMax = 3
    MaxOwn = 1
    MaxCrashes = 1
INVARIANTS DescriptorInv MutexInv
PROPERTIES AcceptedAtLast StopsAtLast
CHECK_DEADLOCK FALSE
