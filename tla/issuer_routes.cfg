\* One wallet, calls at both endpoints; the services may fail.
SPECIFICATION FairSpec
CONSTANTS
    u1 = u1
    u2 = u2
    Wua = {u1, u2}
    Absent = Absent
    Blank = Blank
    Plain = Plain
    Wallet = {w1}
    Key = {w1, k2}
    Nobody = Nobody
    Payload <- MCPayload
    Lifetime = 1
    MaxClock = 1
    MaxChallenge = 2
INVARIANTS TypeOK ContextOfValidated ChallengeTeaches
PROPERTIES RedeemedAttested GrantSucceeds CredentialSucceeds
CHECK_DEADLOCK FALSE
