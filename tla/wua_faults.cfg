\* One wallet that may change hands, two WUAs, two credential requests; every party but the database may fail.
SPECIFICATION Spec
CONSTANTS
    Tag = {t1}
    Person = {a1, a2}
    Wua = {w1, w2}
    Cred = {c1, c2}
    Slot = {3}
    Bits = 4
    ListBytes = 2
    Code = {0}
    Lifetime = 1
    MaxClock = 1
    Faulty = {"cache", "statuslist", "signer", "issuer", "process"}
    NoPerson = NoPerson
    Unregistered = Unregistered
    NoSlot = NoSlot
    NoContext = NoContext
SYMMETRY Symmetry
INVARIANTS TypeOK RedeemedOnce SubjectOwnedAtIssue
PROPERTY ImplementsOneTimeToken
CHECK_DEADLOCK FALSE
