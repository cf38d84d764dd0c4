\* Two calls and two nonces, restarts with a cache that survives them; IDAuth and the database may fail.
SPECIFICATION RegFairSpec
CONSTANTS
    Request = {r1, r2}
    Nonce = {n1, n2}
    Replica = {p1}
    NonceTTL = 2
    Second = 2
    MaxClock = 2
    SharedCache = TRUE
    CacheFaults = FALSE
    Crashes = TRUE
    NoRequest = NoRequest
    Key = {k1}
    Session = {s1}
    Anonymous = Anonymous
    Outages = TRUE
INVARIANTS RegTypeOK OneInstancePerNonce OwnerIsMinter FreshlyAttested SingleUseWhileValid
PROPERTIES ImplementsOneTimeNonce RegistrationEnds
CHECK_DEADLOCK FALSE
