CONSTANTS
    Slots = {1}
    Backends = {b1}
    Admins = {a1}
    Calls = {}
    Accepts = {}
    MaxGen = 4
    MaxSlotGen = 2
    None = None
SPECIFICATION Spec
INVARIANTS
    DownBackendsKeepNothingUp
CHECK_DEADLOCK FALSE
