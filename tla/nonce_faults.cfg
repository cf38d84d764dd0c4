\* Two processes on one cache that may fail, with restarts.
SPECIFICATION FairSpec
CONSTANTS
    Request = {r1, r2, r3}
    Nonce = {n1}
    Replica = {p1, p2}
    NonceTTL = 1
    Second = 1
    MaxClock = 1
    SharedCache = TRUE
    CacheFaults = TRUE
    Crashes = TRUE
    NoRequest = NoRequest
INVARIANTS TypeOK ReuseAnswerJustified MarkerOutlivesToken LockHeldByServing
PROPERTY EveryCallEnds
CHECK_DEADLOCK FALSE
