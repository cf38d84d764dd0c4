\* Two processes share a cache that works, and no restart happens.
SPECIFICATION Spec
CONSTANTS
    Request = {r1, r2}
    Nonce = {n1}
    Replica = {p1, p2}
    NonceTTL = 3
    Second = 2
    MaxClock = 4
    SharedCache = TRUE
    CacheFaults = FALSE
    Crashes = FALSE
    NoRequest = NoRequest
SYMMETRY Symmetry
INVARIANT ReplayRejected
CHECK_DEADLOCK FALSE
