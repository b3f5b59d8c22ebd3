CONSTANTS
    First = 4
    Last = 8
    Targets = {"router", "split", "sniffer", "dns", "remapper"}
    Addrs = {"a", "ip"}
    Names = {"a"}
    Rules = {"r"}
    Numbers = {0, 28}
    Classes = {"http", "tls"}
    Missing = "-"
    Bits <- MCBits
    MaxAttempts = 3
    MaxHeld = 3
    BufferSizes = {0, 1, 2, 3}
    MaxSniffs = 2
SPECIFICATION PartsSpec
INVARIANTS
    ValidatedRunsSafely
    CompiledAgrees
    DerivedAgrees
    PhasesAccepted
    
    SniffExact
    CountExact
PROPERTIES
    AllocatorsExact
    TakesFreePort
CHECK_DEADLOCK FALSE
