\* Two calls for one request id overlap.
SPECIFICATION Spec
CONSTANTS
    Call = {c1, c2}
    RequestID = {q1}
    Session = {s1, s2}
    NoSession = NoSession
    NoOwner = NoOwner
SYMMETRY Symmetry
INVARIANT OneOpenSession
CHECK_DEADLOCK FALSE
