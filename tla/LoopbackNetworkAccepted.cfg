CONSTANTS
    Calls = {c1}
    Accepts = {a1}
    Callers = {k1}
    UpDowns = {}
    Subs = {}
    MaxMoves = 2
SPECIFICATION Spec
INVARIANTS
    DownClosesAccepted
CHECK_DEADLOCK FALSE
