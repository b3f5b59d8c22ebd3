CONSTANTS
    None = None
    Calls = {d1}
    Callers = {c1, c2}
    Subs = {}
    MaxGen = 3
    Movers = {m1}
    Tuns = {t1, t2}
    Dials = {d1}
    Listeners = {l1}
    Conns = {n1, n2}
    Asked = {q1}
    Users = {u1}
    Setup = Setup
SPECIFICATION LiveSpec
PROPERTIES
    WaitersReturn
    DownCloses
    ShutdownReturns
CHECK_DEADLOCK FALSE
