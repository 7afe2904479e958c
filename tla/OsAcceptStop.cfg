SPECIFICATION Spec
CONSTANTS
    Procs = {p1}
    Conns = {c1, c2}
    None = None
    Families = {"inet"}
    MaxSignals = 1
PROPERTY StopsAtLast
CHECK_DEADLOCK FALSE
