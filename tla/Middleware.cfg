CONSTANTS
    None = None
    Packets = {p1}
    Requests = {w1}
    MaxGen = 3
    ChanCap = 1
    Users = {u1, u2}
    Attachers = {a1, a2}
    QueueCap = 1
    MaxUps = 2
    MaxChans = 3
    Backends = {b1, b2}
    Indexes = {1}
    MaxMoves = 1
    Asked = {q1}
    Upstream = upstream
    Others = {other}
    FallbackSlots = 3
    MaxChanges = 3
    MaxAttach = 2
    Host = host
    Alias = alias
    Addr = addr
    MaxTime = 1
    Datagrams = {d1, d2, d3}
    Limit = 2
SYMMETRY Symmetry
SPECIFICATION PartsSpec
INVARIANTS
    BuffersSafe
    PendingWritesExact
    ReplacedClosed
    AnswererRight
    CachedFresh
    ExchangesEnd
    TokensExact
PROPERTIES
    KeepsContract
CHECK_DEADLOCK FALSE
