\* Two wallets, two WUAs, one credential request; the database may fail.
SPECIFICATION Spec
CONSTANTS
    Tag = {t1, t2}
    Person = {a1}
    Wua = {w1, w2}
    Cred = {c1}
    Slot = {2, 3}
    Bits = 4
    ListBytes = 2
    Code = {0}
    Lifetime = 1
    MaxClock = 1
    Faulty = {"database"}
    NoPerson = NoPerson
    Unregistered = Unregistered
    NoSlot = NoSlot
    NoContext = NoContext
SYMMETRY Symmetry
INVARIANTS RevocationHitsOwner ContextAvailable
PROPERTIES RevocationCutsOff 
CHECK_DEADLOCK FALSE
