\* One phone with any of the attestations, presented at any time, for two tags and two challenges.
SPECIFICATION Spec
CONSTANTS
    k1 = "k1"
    k2 = "k2"
    c1 = c1
    c2 = c2
    Name = {"R", "S", "A", "X", "I", "J", "leaf"}
    Key = {"R", "S", "A", "X", "I", "J", "k1", "k2"}
    Tag = {"k1", "k2"}
    Challenge = {c1, c2}
    Time <- MCTime
    AndroidRoot <- MCAndroidRoot
    AppleRoot <- MCAppleRoot
    Attestation <- MCAttestation
    RequireVerifiedBoot = TRUE
    CheckApp = TRUE
    MaxClock = 6
    Absent = Absent
    None = None
INVARIANTS TypeOK AcceptedIsAttested AcceptedIsCurrent
PROPERTIES StaysAccepted GenuineAccepted
CHECK_DEADLOCK FALSE
