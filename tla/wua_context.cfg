\* The cache may fail to store a context.
SPECIFICATION Spec
CONSTANTS
    Tag = {t1}
    Person = {a1}
    Wua = {w1}
    Cred = {c1}
    Slot = {3}
    Bits = 4
    ListBytes = 2
    Code = {0}
    Lifetime = 1
    MaxClock = 1
    Faulty = {"cache"}
    NoPerson = NoPerson
    Unregistered = Unregistered
    NoSlot = NoSlot
    NoContext = NoContext
INVARIANT ContextAvailable
CHECK_DEADLOCK FALSE
