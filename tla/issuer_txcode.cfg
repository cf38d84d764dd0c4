\* One wallet: the transaction code of its token calls.
SPECIFICATION Spec
CONSTANTS
    u1 = u1
    u2 = u2
    Wua = {u1, u2}
    Absent = Absent
    Blank = Blank
    Plain = Plain
    Wallet = {w1}
    Key = {w1, k2}
    Nobody = Nobody
    Payload <- MCPayload
    Lifetime = 1
    MaxClock = 0
    MaxChallenge = 1
INVARIANT TXCodeFromOffer
CHECK_DEADLOCK FALSE
