CONSTANTS
    AddrBits = 2
    MaxPort = 3
    MaxRules = 3
    Wild = {"n*", "?n", "*%z", "*"}
    Escaped <- MCEscaped
    Cut <- MCCut
    Malformed = {"bad"}
    Expansions <- MCExpansions
    ReverseNames <- MCReverseNames
    CandidateRules <- MCCandidateRules
    Endpoints <- MCEndpoints
    Peers = {p1, p2}
    NoPeer = NoPeer
    Senders = {s1, s2}
    Receivers = {r1}
    SweepEvery = 2
    MaxTime = 3
    MaxQueue = 1
    MaxMoves = 3
    MaxBatch = 4
    MaxCalls = 4
SPECIFICATION ResponsesSpec
PROPERTIES
    ConnResponsePasses
CHECK_DEADLOCK FALSE
