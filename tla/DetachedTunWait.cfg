CONSTANTS
    Packets = {p1, p2}
    Requests = {w1}
    MaxGen = 3
    ChanCap = 1
    None = None
SPECIFICATION Spec
INVARIANTS
    WaitPromise
CHECK_DEADLOCK FALSE
