CONSTANTS
    Nobody = Nobody
    Tuns = {t1, t2}
    Nested = {n1, n2}
    Callers = {c1}
    ReadsCap = 1
    EventsCap = 1
    MaxMoves = 1
    Timeout = 2
    Limit = 2
    MaxHeaders = 2
    MaxTime = 3
    Calls = {o1, o2}
    Movers = {m1, m2}
    Subs = {s1}
    MaxGen = 2
SYMMETRY Symmetry
SPECIFICATION PartsSpec
INVARIANTS
    DetachedForgotten
    RoutesExact
    NothingForgotten
PROPERTIES
    FirstOwnerKeeps
CHECK_DEADLOCK FALSE
