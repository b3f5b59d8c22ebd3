CONSTANTS
    None = None
    Calls = {o1, o2}
    Callers = {x1, x2}
    Subs = {s1}
    MaxGen = 3
    Writers = {w1}
    Readers = {r1}
    Cap = 2
    MaxLen = 2
    Listeners = {l1}
    Conns = {c1, c2}
    TCPPorts = {1, 2}
    QueueCap = 1
    Dials = {d1}
    Accepts = {e1}
    UpDowns = {u1}
    MaxMoves = 2
    Slots = {1}
    Backends = {b1}
    MaxSlotGen = 2
    Setup = Setup
SPECIFICATION PartsSpec
SYMMETRY Symmetry
INVARIANTS
    TypesOK
    StreamExact
    ListenerExact
    TrackedWhileOpen
    RouterExact
    DatagramsExact
    SocketsOwned
    DoneClosedOnce
    NoObjectLost
    DownClosesObjects
    CloserSubsClosed
PROPERTIES
    ImplementsContract
CHECK_DEADLOCK FALSE
