\* Calls overlap, entries expire, the cache and the service fail.
SPECIFICATION Spec
CONSTANTS
    Call = {c1, c2, c3, c4}
    RequestID = {q1, q2}
    Session = {s1, s2, s3}
    NoSession = NoSession
    NoOwner = NoOwner
SYMMETRY Symmetry
INVARIANTS TypeOK OnlyKnownLosses OwnSession
PROPERTY ImplementsRequestSession
CHECK_DEADLOCK FALSE
