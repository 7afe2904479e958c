SPECIFICATION Spec
CONSTANTS
    Procs = {p1, p2}
    Conns = {c1, c2}
    None = None
    Families = {"inet", "unix"}
    MaxSignals = 1
INVARIANTS DescriptorInv LockInv
PROPERTY AcceptedAtLast
CHECK_DEADLOCK FALSE
