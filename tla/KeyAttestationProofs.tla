------------------------ MODULE KeyAttestationProofs ------------------------
(***************************************************************************)
(* Theorems about KeyAttestation, for chains of any length and validity,   *)
(* any configured roots and any time.                                      *)
(***************************************************************************)
EXTENDS KeyAttestation, FiniteSetTheorems, WellFoundedInduction, TLAPS

\* A set of numbers that is not empty has a least member.
LEMMA MinMember == ASSUME NEW S \in SUBSET Nat, S # {} PROVE Min(S) \in S
<1> DEFINE R == {ss \in Nat \X Nat : ss[1] < ss[2]}
<1>1. IsWellFoundedOn(R, Nat)
  BY NatLessThanWellFounded, Zenon DEF OpToRel
<1>2. PICK x \in S : \A y \in S : ~(<<y, x>> \in R)
  <2> HIDE DEF R
  <2>. QED
    BY <1>1, WFMin, Zenon
<1>3. ASSUME NEW y \in S PROVE x <= y
  <2>1. x \in Nat /\ y \in Nat
    OBVIOUS
  <2>2. <<y, x>> \in R <=> y < x
    BY <2>1
  <2>. QED
    BY <1>2, <2>1, <2>2
<1>. QED
  BY <1>3, Zenon DEF Min

\* The leaf is one of the chain's end-entity certificates.
LEMMA LeafInChain ==
    ASSUME NEW chain \in Seq(Certificate), EndEntities(chain) # {}
    PROVE  \E i \in EndEntities(chain) : Leaf(chain) = chain[i]
<1> DEFINE signing == {i \in EndEntities(chain) : chain[i].signs}
           S == IF signing # {} THEN signing ELSE EndEntities(chain)
<1>1. EndEntities(chain) \subseteq Nat
  BY DEF EndEntities, Parsed
<1>2. S \in SUBSET Nat /\ S # {} /\ S \subseteq EndEntities(chain)
  BY <1>1
<1>3. Min(S) \in EndEntities(chain)
  <2> HIDE DEF S
  <2>. QED
    BY <1>2, MinMember
<1>. QED
  BY <1>3, Zenon DEF Leaf

LEMMA PathStart ==
    ASSUME NEW leaf, NEW interms, NEW roots, NEW w \in Paths(leaf, interms, roots)
    PROVE  w[1] = leaf /\ 1 \in DOMAIN w
<1>1. w \in Walks(leaf, interms, roots)
  BY DEF Paths
<1>2. w[1] = leaf
  BY <1>1 DEF Walks
<1>3. w \in UNION {[1..n -> {leaf} \union interms \union roots] : n \in 1..(Cardinality(interms) + 2)}
  BY <1>1 DEF Walks
<1>. QED
  BY <1>2, <1>3

\* Only a path that is current makes Verify succeed.
LEMMA VerifySound ==
    ASSUME NEW leaf, NEW interms, NEW roots, NEW t, NEW e \in Verify(leaf, interms, roots, t),
           e.error = "none"
    PROVE  \E w \in Paths(leaf, interms, roots) : CurrentPath(w, t)
BY DEF Verify

Trusted(chain, configured, w, now) ==
    /\ Current(Leaf(chain), now)
    /\ \/ CurrentPath(w, now)
       \/ \E c \in Intermediates(chain) : ~Current(c, now) /\ CurrentPath(w, c.to - 1)

\* What verifyCert lets through is the leaf it chose, on a path to a root that is
\* current now or was current before an intermediate ended.
LEMMA CertSound ==
    ASSUME NEW chain \in Seq(Certificate), NEW configured, NEW now,
           NEW v \in verifyCert(chain, configured, now), v.code = "ok"
    PROVE  /\ EndEntities(chain) # {}
           /\ v.cert = Leaf(chain)
           /\ \E w \in Paths(Leaf(chain), Intermediates(chain), TrustedRoots(chain, configured)) :
                 Trusted(chain, configured, w, now)
<1> DEFINE leaf == Leaf(chain)
           interms == Intermediates(chain)
           roots == TrustedRoots(chain, configured)
           Answer(e) == IF e.error = "none" \/ Retried(e, leaf, interms, roots, now)
                        THEN [code |-> "ok", cert |-> leaf]
                        ELSE [code |-> certVerifyError(e.error), cert |-> None]
<1>1. ~(\E i \in DOMAIN chain : chain[i].parse = "bad") /\ EndEntities(chain) # {}
  BY DEF verifyCert, certVerifyError
<1>2. v \in {Answer(e) : e \in Verify(leaf, interms, roots, now)}
  BY <1>1, Zenon DEF verifyCert
<1>3. PICK e \in Verify(leaf, interms, roots, now) : v = Answer(e)
  BY <1>2
<1>4. e.error = "none" \/ Retried(e, leaf, interms, roots, now)
  BY <1>3 DEF certVerifyError
<1>5. v.cert = leaf
  BY <1>3, <1>4
<1>6. CASE e.error = "none"
  <2>1. PICK w \in Paths(leaf, interms, roots) : CurrentPath(w, now)
    BY <1>6, VerifySound
  <2>2. Current(leaf, now)
    <3> HIDE DEF leaf, interms, roots
    <3>. QED
      BY <2>1, PathStart DEF CurrentPath
  <2>. QED
    BY <1>1, <1>5, <2>1, <2>2 DEF Trusted
<1>7. CASE e.error = "expired" /\ Retried(e, leaf, interms, roots, now)
  <2>1. e.cert \in interms /\ Current(leaf, now)
    BY <1>7, Zenon DEF Retried
  <2>2. PICK w \in Paths(leaf, interms, roots) : CurrentPath(w, e.cert.to - 1)
    <3>1. [error |-> "none", cert |-> leaf] \in Verify(leaf, interms, roots, e.cert.to - 1)
      BY <1>7, Zenon DEF Retried
    <3>. QED
      BY <3>1, VerifySound
  <2>3. ~Current(e.cert, now)
    BY <1>7 DEF Verify
  <2>. QED
    BY <1>1, <1>5, <2>1, <2>2, <2>3 DEF Trusted
<1>. QED
  BY <1>4, <1>6, <1>7 DEF Retried

-----------------------------------------------------------------------------

\* The paths verifyCert follows are those of PathsOf.
LEMMA PathsAgree ==
    ASSUME NEW a \in Attestation, NEW i \in EndEntities(a.chain),
           NEW w \in Paths(a.chain[i], Intermediates(a.chain), TrustedRoots(a.chain, RootOf(a)))
    PROVE  w \in PathsOf(a)
<1> DEFINE leaf == a.chain[i]
           interms == Intermediates(a.chain)
           few == TrustedRoots(a.chain, RootOf(a))
           roots == RootOf(a) \union {a.chain[j] : j \in {k \in DOMAIN a.chain :
                       SelfIssued(a.chain[k]) /\ \E r \in RootOf(a) : r.key = a.chain[k].key}}
<1>1. few \subseteq roots
  BY DEF TrustedRoots, Parsed
<1>2. \A c \in roots : SelfIssued(c)
  BY AttestationAssumption DEF SelfIssued, RootOf
<1>3. ~SelfIssued(leaf) /\ \A c \in interms : ~SelfIssued(c)
  BY DEF EndEntities, Intermediates
<1> HIDE DEF leaf, interms, few, roots
<1>4. /\ w \in UNION {[1..n -> {leaf} \union interms \union few] : n \in 1..(Cardinality(interms) + 2)}
      /\ w[1] = leaf
      /\ \A m \in 1..(Len(w) - 1) : w[m] \notin few /\ SignedBy(w[m], w[m + 1])
      /\ \A m, n \in DOMAIN w : w[m] = w[n] => m = n
      /\ Top(w) \in few
  BY Zenon DEF Paths, Walks, leaf, interms, few
<1>5. PICK n \in 1..(Cardinality(interms) + 2) : w \in [1..n -> {leaf} \union interms \union few]
  BY <1>4
<1>6. w \in [1..n -> {leaf} \union interms \union roots]
  BY <1>1, <1>5
<1>7. n \in Int /\ 1 <= n
  BY <1>5
<1>8. n \in Nat /\ Len(w) = n
  <2>1. w \in Seq({leaf} \union interms \union few)
    BY <1>5, <1>7
  <2>. QED
    BY <1>5, <1>7, <2>1
<1>9. \A m \in 1..(Len(w) - 1) : w[m] \notin roots
  BY <1>2, <1>3, <1>4, <1>5, <1>8
<1>10. w \in Walks(leaf, interms, roots)
  BY <1>4, <1>6, <1>9 DEF Walks
<1>11. w \in Paths(leaf, interms, roots)
  BY <1>1, <1>4, <1>10 DEF Paths
<1>. QED
  BY <1>11, Zenon DEF PathsOf, leaf, interms, roots

-----------------------------------------------------------------------------

LEMMA CodesOfCert ==
    ASSUME NEW chain, NEW configured, NEW now, NEW v \in verifyCert(chain, configured, now)
    PROVE  v.code \in {"ok", "certificate_malformed", "certificate_invalid",
                       "certificate_expired", "certificate_untrusted"}
<1> DEFINE leaf == Leaf(chain)
           interms == Intermediates(chain)
           roots == TrustedRoots(chain, configured)
<1>1. \A error : certVerifyError(error) \in
         {"certificate_invalid", "certificate_expired", "certificate_untrusted"}
  BY DEF certVerifyError
<1>2. CASE \E i \in DOMAIN chain : chain[i].parse = "bad"
  BY <1>1, <1>2 DEF verifyCert
<1>3. CASE ~(\E i \in DOMAIN chain : chain[i].parse = "bad") /\ EndEntities(chain) = {}
  BY <1>1, <1>3 DEF verifyCert
<1>4. CASE ~(\E i \in DOMAIN chain : chain[i].parse = "bad") /\ EndEntities(chain) # {}
  <2>1. PICK e \in Verify(leaf, interms, roots, now) :
           v = IF e.error = "none" \/ Retried(e, leaf, interms, roots, now)
               THEN [code |-> "ok", cert |-> leaf]
               ELSE [code |-> certVerifyError(e.error), cert |-> None]
    BY <1>4, Zenon DEF verifyCert
  <2>. QED
    BY <1>1, <2>1
<1>. QED
  BY <1>2, <1>3, <1>4

LEMMA FirstFailureCode ==
    ASSUME NEW checks, DOMAIN checks \subseteq Nat
    PROVE  \/ FirstFailure(checks) = "accepted" /\ \A i \in DOMAIN checks : ~checks[i][1]
           \/ \E i \in DOMAIN checks : checks[i][1] /\ FirstFailure(checks) = checks[i][2]
<1> DEFINE failed == {i \in DOMAIN checks : checks[i][1]}
<1>1. failed # {} => Min(failed) \in failed
  <2>1. failed \in SUBSET Nat
    OBVIOUS
  <2> HIDE DEF failed
  <2>. QED
    BY <2>1, MinMember
<1>2. failed = {} => FirstFailure(checks) = "accepted"
  BY Zenon DEF FirstFailure
<1>3. failed # {} => FirstFailure(checks) = checks[Min(failed)][2]
  BY Zenon DEF FirstFailure
<1>. QED
  BY <1>1, <1>2, <1>3

\* The answers of the checks of a description.
LEMMA AndroidCheckCodes ==
    ASSUME NEW d, NEW key, NEW challenge, NEW tag
    PROVE  LET code == FirstFailure(AndroidChecks(d, key, challenge, tag)) IN
           /\ code \in Verdict
           /\ code = "accepted" =>
                 d.level # "software" /\ d.challenge = challenge /\ tag = key
<1> DEFINE app == verifyAttestationApplicationID(AppOf(d))
           checks == AndroidChecks(d, key, challenge, tag)
<1>1. app \in {"ok", "attestation_package_mismatch", "attestation_signing_cert_mismatch",
                "certificate:extension"}
  BY Zenon DEF verifyAttestationApplicationID
<1> HIDE DEF app
<1>2. checks = <<
        <<"software" \in {d.level, d.keymaster}, "attestation_insecure">>,
        <<OriginOf(d) # 0, "attestation_key_not_generated">>,
        <<2 \notin PurposeOf(d), "attestation_key_purpose_invalid">>,
        <<RequireVerifiedBoot /\ ~(d.tee.boot = 0 /\ DeviceLocked(d.tee)),
          "attestation_boot_not_verified">>,
        <<CheckApp /\ app # "ok", app>>,
        <<d.challenge # challenge, "challenge">>,
        <<tag # key, "hardware_key_tag">> >>
  BY Zenon DEF AndroidChecks, app
<1> HIDE DEF checks
<1>3. DOMAIN checks = 1..7
  BY <1>2
<1>4. ASSUME NEW i \in 1..7, checks[i][1] PROVE checks[i][2] \in Verdict \ {"accepted"}
  <2>1. CASE i = 5
    <3>1. checks[5][1] = (CheckApp /\ app # "ok") /\ checks[5][2] = app
      BY <1>2
    <3>2. app # "ok"
      BY <1>4, <2>1, <3>1, Zenon
    <3>. QED
      BY <1>1, <2>1, <3>1, <3>2 DEF Verdict
  <2>2. CASE i # 5
    <3>1. i \in {1, 2, 3, 4, 6, 7}
      BY <2>2
    <3>. QED
      BY <1>2, <3>1 DEF Verdict
  <2>. QED
    BY <2>1, <2>2
<1>5. checks[1][1] = ("software" \in {d.level, d.keymaster})
  BY <1>2
<1>6. checks[6][1] = (d.challenge # challenge) /\ checks[7][1] = (tag # key)
  BY <1>2
<1>7. \/ FirstFailure(checks) = "accepted" /\ \A i \in DOMAIN checks : ~checks[i][1]
      \/ \E i \in DOMAIN checks : checks[i][1] /\ FirstFailure(checks) = checks[i][2]
  BY <1>3, FirstFailureCode
<1>8. FirstFailure(checks) \in Verdict
  BY <1>3, <1>4, <1>7 DEF Verdict
<1>9. FirstFailure(checks) = "accepted" => ~checks[1][1] /\ ~checks[6][1] /\ ~checks[7][1]
  BY <1>3, <1>4, <1>7
<1>. QED
  BY <1>5, <1>6, <1>8, <1>9 DEF checks

\* TypeOK is an invariant: every call is answered with one of the codes.
THEOREM KeyAttestationType == Spec => []TypeOK
<1>1. Init => TypeOK
  BY DEF Init, TypeOK
<1>2. ASSUME TypeOK, NEW tag \in Tag, NEW challenge \in Challenge, Present(tag, challenge)
      PROVE  verdict' \in Verdict
  <2>1. CASE att.format = "android"
    <3>1. verdict' \in verifyAndroid(att, challenge, tag, clock)
      BY <1>2, <2>1 DEF Present, VerifyAttestation
    <3>2. verdict' = "key_attestation" \/ \E v \in verifyCert(att.chain, AndroidRoot, clock) :
             \/ v.code # "ok" /\ verdict' = v.code
             \/ verdict' = "certificate:extension"
             \/ \E c : verdict' = FirstFailure(AndroidChecks(c.ext, c.key, challenge, tag))
      BY <3>1, Zenon DEF verifyAndroid
    <3>. QED
      BY <3>2, CodesOfCert, AndroidCheckCodes DEF Verdict
  <2>2. CASE att.format = "apple"
    <3>1. verdict' \in verifyIOS(att, challenge, tag, clock)
      BY <1>2, <2>2 DEF Present, VerifyAttestation
    <3>2. \E v \in verifyCert(att.chain, AppleRoot, clock) :
             \/ v.code # "ok" /\ verdict' = v.code
             \/ verdict' \in {"accepted", "verification_failed"}
      BY <3>1 DEF verifyIOS
    <3>. QED
      BY <3>2, CodesOfCert DEF Verdict
  <2>3. CASE att.format \notin {"android", "apple"}
    BY <1>2, <2>3 DEF Present, VerifyAttestation, Verdict
  <2>. QED
    BY <2>1, <2>2, <2>3
<1>3. TypeOK /\ [Next]_vars => TypeOK'
  <2> SUFFICES ASSUME TypeOK, [Next]_vars PROVE TypeOK'
    OBVIOUS
  <2>1. ASSUME NEW tag \in Tag, NEW challenge \in Challenge, Present(tag, challenge) PROVE TypeOK'
    BY <1>2, <2>1 DEF Present, TypeOK
  <2>2. CASE Tick
    BY <2>2 DEF Tick, TypeOK
  <2>3. CASE UNCHANGED vars
    BY <2>3 DEF vars, TypeOK
  <2>. QED
    BY <2>1, <2>2, <2>3 DEF Next
<1>. QED
  BY <1>1, <1>3, PTL DEF Spec

-----------------------------------------------------------------------------

\* What certificate an attestation of a key is read from.
AttestedBy(a, cert, tag, challenge) ==
    \E i \in DOMAIN a.chain :
        /\ a.chain[i] = cert \/ a.chain[i].signer = cert.key
        /\ a.chain[i].key = tag
        /\ a.chain[i].ext # Absent
        /\ a.chain[i].ext.challenge = challenge
        /\ a.format = "android" => a.chain[i].ext.level # "software"

LEMMA AndroidAttested ==
    ASSUME NEW a \in Attestation, a.format = "android", NEW tag, NEW challenge, NEW now,
           "accepted" \in verifyAndroid(a, challenge, tag, now)
    PROVE  \E v \in verifyCert(a.chain, RootOf(a), now) :
              v.code = "ok" /\ AttestedBy(a, v.cert, tag, challenge)
<1>1. ~(Len(a.chain) < 2)
  BY Zenon DEF verifyAndroid
<1>2. PICK v \in verifyCert(a.chain, AndroidRoot, now) :
         "accepted" = IF v.code # "ok" THEN v.code
                      ELSE LET c == Attested(a.chain, v.cert) IN
                           IF c = None THEN "certificate:extension"
                           ELSE FirstFailure(AndroidChecks(c.ext, c.key, challenge, tag))
  BY <1>1, Zenon DEF verifyAndroid
<1> DEFINE c == Attested(a.chain, v.cert)
<1>3. v.code = "ok"
  BY <1>2, CodesOfCert
<1>4. c # None /\ "accepted" = FirstFailure(AndroidChecks(c.ext, c.key, challenge, tag))
  BY <1>2, <1>3
<1>5. c.ext.level # "software" /\ c.ext.challenge = challenge /\ tag = c.key
  BY <1>4, AndroidCheckCodes
<1>6. c.ext # Absent
  BY <1>4 DEF Attested
<1>7. a.chain \in Seq(Certificate)
  BY AttestationAssumption
<1>8. \E j \in DOMAIN a.chain : v.cert = a.chain[j]
  <2>1. EndEntities(a.chain) # {} /\ v.cert = Leaf(a.chain)
    BY <1>3, <1>7, CertSound
  <2>. QED
    BY <1>7, <2>1, LeafInChain DEF EndEntities, Parsed
<1>9. \E i \in DOMAIN a.chain :
         a.chain[i] = c /\ (a.chain[i] = v.cert \/ a.chain[i].signer = v.cert.key)
  BY <1>1, <1>4, <1>7, <1>8 DEF Attested
<1> HIDE DEF c
<1>. QED
  BY <1>2, <1>3, <1>5, <1>6, <1>9 DEF RootOf, AttestedBy

LEMMA AppleAttested ==
    ASSUME NEW a \in Attestation, a.format = "apple", NEW tag, NEW challenge, NEW now,
           "accepted" \in verifyIOS(a, challenge, tag, now), challenge \in Challenge
    PROVE  \E v \in verifyCert(a.chain, RootOf(a), now) :
              v.code = "ok" /\ AttestedBy(a, v.cert, tag, challenge)
<1>1. PICK v \in verifyCert(a.chain, AppleRoot, now) :
         "accepted" = IF v.code # "ok" THEN v.code
                      ELSE IF /\ v.cert.ext = [auth |-> a.auth, challenge |-> challenge]
                              /\ tag = v.cert.key
                           THEN "accepted" ELSE "verification_failed"
  BY Zenon DEF verifyIOS
<1>2. v.code = "ok"
  BY <1>1, CodesOfCert
<1>3. v.cert.ext = [auth |-> a.auth, challenge |-> challenge] /\ tag = v.cert.key
  BY <1>1, <1>2
<1>4. a.chain \in Seq(Certificate) /\ a.auth \in BOOLEAN
  BY AttestationAssumption
<1>5. v.cert.ext # Absent /\ v.cert.ext.challenge = challenge
  <2>1. v.cert.ext \in AppleNonce
    BY <1>3, <1>4 DEF AppleNonce
  <2>. QED
    BY <1>3, <2>1, AttestationAssumption
<1>6. EndEntities(a.chain) # {} /\ v.cert = Leaf(a.chain)
  BY <1>2, <1>4, CertSound
<1>7. \E j \in DOMAIN a.chain : v.cert = a.chain[j]
  BY <1>4, <1>6, LeafInChain DEF EndEntities, Parsed
<1>. QED
  BY <1>1, <1>2, <1>3, <1>5, <1>7 DEF RootOf, AttestedBy

\* Behind an acceptance are a certificate that attests the key and a path from it,
\* or from the one that signed it, to a root.
LEMMA AcceptedSound ==
    ASSUME NEW a \in Attestation, NEW tag, NEW challenge \in Challenge, NEW now,
           "accepted" \in VerifyAttestation(a, challenge, tag, now)
    PROVE  \E w \in PathsOf(a) :
              /\ AttestedBy(a, w[1], tag, challenge)
              /\ Current(w[1], now)
              /\ \/ CurrentPath(w, now)
                 \/ \E c \in Intermediates(a.chain) :
                       ~Current(c, now) /\ CurrentPath(w, c.to - 1)
<1>1. PICK v \in verifyCert(a.chain, RootOf(a), now) :
         v.code = "ok" /\ AttestedBy(a, v.cert, tag, challenge)
  <2>1. CASE a.format = "android"
    BY <2>1, AndroidAttested DEF VerifyAttestation
  <2>2. CASE a.format = "apple"
    BY <2>2, AppleAttested DEF VerifyAttestation
  <2>3. CASE a.format \notin {"android", "apple"}
    BY <2>3 DEF VerifyAttestation
  <2>. QED
    BY <2>1, <2>2, <2>3
<1>2. a.chain \in Seq(Certificate)
  BY AttestationAssumption
<1>3. /\ EndEntities(a.chain) # {}
      /\ v.cert = Leaf(a.chain)
      /\ \E w \in Paths(Leaf(a.chain), Intermediates(a.chain), TrustedRoots(a.chain, RootOf(a))) :
            Trusted(a.chain, RootOf(a), w, now)
  BY <1>1, <1>2, CertSound
<1>4. PICK w \in Paths(Leaf(a.chain), Intermediates(a.chain), TrustedRoots(a.chain, RootOf(a))) :
         Trusted(a.chain, RootOf(a), w, now)
  BY <1>3
<1>5. w[1] = Leaf(a.chain)
  BY PathStart
<1>6. w \in PathsOf(a)
  <2>1. PICK i \in EndEntities(a.chain) : Leaf(a.chain) = a.chain[i]
    BY <1>2, <1>3, LeafInChain
  <2>. QED
    BY <2>1, PathsAgree
<1>. QED
  BY <1>1, <1>3, <1>4, <1>5, <1>6, Zenon DEF Trusted

\* A key is accepted only if one certificate attests that key for that challenge,
\* signed up to the key of a configured root: AcceptedIsAttested is an invariant.
THEOREM KeyAttestationAttested == Spec => []AcceptedIsAttested
<1>1. Init => AcceptedIsAttested
  BY DEF Init, AcceptedIsAttested
<1>2. TypeOK /\ AcceptedIsAttested /\ [Next]_vars => AcceptedIsAttested'
  <2> SUFFICES ASSUME TypeOK, AcceptedIsAttested, [Next]_vars PROVE AcceptedIsAttested'
    OBVIOUS
  <2>1. ASSUME NEW tag \in Tag, NEW challenge \in Challenge, Present(tag, challenge),
               verdict' = "accepted"
        PROVE  AcceptedIsAttested'
    <3>1. /\ att \in Attestation /\ att' = att
          /\ grant' = [key |-> tag, challenge |-> challenge, at |-> clock]
          /\ "accepted" \in VerifyAttestation(att, challenge, tag, clock)
      BY <2>1 DEF Present, TypeOK
    <3>2. PICK w \in PathsOf(att) : AttestedBy(att, w[1], tag, challenge)
      BY <3>1, AcceptedSound
    <3>. QED
      BY <3>1, <3>2, Zenon DEF AcceptedIsAttested, AttestedBy
  <2>2. CASE UNCHANGED <<att, grant>>
    BY <2>2, Zenon DEF AcceptedIsAttested
  <2>. QED
    BY <2>1, <2>2 DEF Next, Present, Tick, vars
<1>. QED
  BY <1>1, <1>2, KeyAttestationType, PTL DEF Spec

\* What is accepted is current, up to an intermediate that is out of date:
\* AcceptedIsCurrent is an invariant.
THEOREM KeyAttestationCurrent == Spec => []AcceptedIsCurrent
<1>1. Init => AcceptedIsCurrent
  BY DEF Init, AcceptedIsCurrent
<1>2. TypeOK /\ AcceptedIsCurrent /\ [Next]_vars => AcceptedIsCurrent'
  <2> SUFFICES ASSUME TypeOK, AcceptedIsCurrent, [Next]_vars PROVE AcceptedIsCurrent'
    OBVIOUS
  <2>1. ASSUME NEW tag \in Tag, NEW challenge \in Challenge, Present(tag, challenge),
               verdict' = "accepted"
        PROVE  AcceptedIsCurrent'
    <3>1. /\ att \in Attestation /\ att' = att
          /\ grant' = [key |-> tag, challenge |-> challenge, at |-> clock]
          /\ "accepted" \in VerifyAttestation(att, challenge, tag, clock)
      BY <2>1 DEF Present, TypeOK
    <3>2. grant'.at = clock
      BY <3>1
    <3>3. PICK w \in PathsOf(att) :
             /\ Current(w[1], clock)
             /\ \/ CurrentPath(w, clock)
                \/ \E c \in Intermediates(att.chain) :
                      ~Current(c, clock) /\ CurrentPath(w, c.to - 1)
      BY <3>1, AcceptedSound
    <3>. QED
      BY <3>1, <3>2, <3>3, Zenon DEF AcceptedIsCurrent
  <2>2. CASE UNCHANGED <<att, grant>>
    BY <2>2, Zenon DEF AcceptedIsCurrent
  <2>. QED
    BY <2>1, <2>2 DEF Next, Present, Tick, vars
<1>. QED
  BY <1>1, <1>2, KeyAttestationType, PTL DEF Spec

-----------------------------------------------------------------------------
(***************************************************************************)
(* What was accepted stays accepted.                                       *)
(***************************************************************************)

LEMMA WalkFacts ==
    ASSUME NEW leaf, NEW interms, NEW roots, NEW w \in Walks(leaf, interms, roots)
    PROVE  /\ Len(w) \in Nat /\ 1 <= Len(w) /\ DOMAIN w = 1..Len(w)
           /\ w[1] = leaf
           /\ \A i \in DOMAIN w : w[i] \in {leaf} \union interms \union roots
           /\ \A i \in 1..(Len(w) - 1) : w[i] \notin roots /\ SignedBy(w[i], w[i + 1])
           /\ \A i, j \in DOMAIN w : w[i] = w[j] => i = j
<1> DEFINE S == {leaf} \union interms \union roots
<1>1. /\ w \in UNION {[1..n -> S] : n \in 1..(Cardinality(interms) + 2)}
      /\ w[1] = leaf
      /\ \A i \in 1..(Len(w) - 1) : w[i] \notin roots /\ SignedBy(w[i], w[i + 1])
      /\ \A i, j \in DOMAIN w : w[i] = w[j] => i = j
  BY Zenon DEF Walks
<1> HIDE DEF S
<1>2. PICK n \in 1..(Cardinality(interms) + 2) : w \in [1..n -> S]
  BY <1>1
<1>3. n \in Int /\ 1 <= n
  BY <1>2
<1>4. w \in Seq(S)
  BY <1>2, <1>3
<1>5. n \in Nat /\ Len(w) = n /\ DOMAIN w = 1..n
  BY <1>2, <1>3, <1>4
<1>6. \A i \in DOMAIN w : w[i] \in S
  BY <1>2, <1>5
<1>. QED
  BY <1>1, <1>3, <1>5, <1>6 DEF S

\* There are no two intermediates.
AtMostOne(interms) == \A c, d \in interms : c = d

LEMMA OneIntermediate ==
    ASSUME NEW chain \in Seq(Certificate), Cardinality(Intermediates(chain)) <= 1
    PROVE  AtMostOne(Intermediates(chain))
<1> DEFINE all == {chain[i] : i \in DOMAIN chain}
<1>1. IsFiniteSet(all)
  <2>1. chain \in Seq(all)
    OBVIOUS
  <2>2. \A c \in all : \E i \in 1..Len(chain) : chain[i] = c
    OBVIOUS
  <2> HIDE DEF all
  <2>. QED
    BY <2>1, <2>2 DEF IsFiniteSet
<1>2. Intermediates(chain) \subseteq all
  BY DEF Intermediates, Parsed
<1> HIDE DEF all
<1>3. IsFiniteSet(Intermediates(chain))
  BY <1>1, <1>2, FS_Subset
<1>4. ASSUME NEW c \in Intermediates(chain), NEW d \in Intermediates(chain), c # d
      PROVE  FALSE
  <2>1. IsFiniteSet({c}) /\ Cardinality({c}) = 1
    BY FS_Singleton
  <2>2. Cardinality({c} \union {d}) = 2
    <3>1. Cardinality({c} \union {d}) =
            IF d \in {c} THEN Cardinality({c}) ELSE Cardinality({c}) + 1
      BY <2>1, FS_AddElement, Zenon
    <3>. QED
      BY <1>4, <2>1, <3>1
  <2>3. Cardinality({c} \union {d}) <= Cardinality(Intermediates(chain))
    BY <1>3, FS_Subset
  <2>4. Cardinality(Intermediates(chain)) \in Nat
    BY <1>3, FS_CardinalityType
  <2>. QED
    BY <2>2, <2>3, <2>4
<1>. QED
  BY <1>4 DEF AtMostOne

LEMMA VerifySucceeds ==
    ASSUME NEW leaf, NEW interms, NEW roots, NEW t,
           \E w \in Paths(leaf, interms, roots) : CurrentPath(w, t)
    PROVE  Verify(leaf, interms, roots, t) = {[error |-> "none", cert |-> leaf]}
BY Zenon DEF Verify

LEMMA VerifyFails ==
    ASSUME NEW leaf, NEW interms, NEW roots, NEW t,
           ~(\E w \in Paths(leaf, interms, roots) : CurrentPath(w, t)),
           NEW e \in Verify(leaf, interms, roots, t)
    PROVE  \E x \in Walks(leaf, interms, roots) :
              /\ \A i \in 1..(Len(x) - 1) : Current(x[i], t)
              /\ \/ e.error = "expired" /\ e.cert = Top(x) /\ ~Current(Top(x), t)
                 \/ /\ Current(Top(x), t) /\ Top(x) \notin roots
                    /\ \A p \in interms \union roots :
                          SignedBy(Top(x), p) => \E i \in DOMAIN x : x[i] = p
<1> DEFINE reached == {w \in Walks(leaf, interms, roots) :
                          \A i \in 1..(Len(w) - 1) : Current(w[i], t)}
           stuck(w) == \A p \in interms \union roots :
                          SignedBy(Top(w), p) => \E i \in DOMAIN w : w[i] = p
<1>1. e \in {[error |-> "expired", cert |-> Top(w)] : w \in {x \in reached : ~Current(Top(x), t)}}
            \union
            {[error |-> "unknown", cert |-> Top(w)] :
               w \in {x \in reached : Current(Top(x), t) /\ Top(x) \notin roots /\ stuck(x)}}
  BY Zenon DEF Verify
<1>2. CASE \E x \in reached : ~Current(Top(x), t) /\ e = [error |-> "expired", cert |-> Top(x)]
  BY <1>2
<1>3. CASE \E x \in reached : Current(Top(x), t) /\ Top(x) \notin roots /\ stuck(x)
  BY <1>3
<1> HIDE DEF reached, stuck
<1>. QED
  BY <1>1, <1>2, <1>3

\* With one intermediate, Verify stops at it or finds a path.
LEMMA VerifyStays ==
    ASSUME NEW leaf, NEW interms, NEW roots, NEW t,
           AtMostOne(interms), Current(leaf, t),
           NEW w \in Paths(leaf, interms, roots),
           \A p \in Paths(leaf, interms, roots) :
              Current(Top(p), t) /\ \A c \in interms : CurrentPath(p, c.to - 1),
           NEW e \in Verify(leaf, interms, roots, t)
    PROVE  e.error = "none" \/ Retried(e, leaf, interms, roots, t)
<1>1. CASE \E p \in Paths(leaf, interms, roots) : CurrentPath(p, t)
  BY <1>1, VerifySucceeds
<1>2. CASE ~(\E p \in Paths(leaf, interms, roots) : CurrentPath(p, t))
  <2>1. PICK x \in Walks(leaf, interms, roots) :
           /\ \A i \in 1..(Len(x) - 1) : Current(x[i], t)
           /\ \/ e.error = "expired" /\ e.cert = Top(x) /\ ~Current(Top(x), t)
              \/ /\ Current(Top(x), t) /\ Top(x) \notin roots
                 /\ \A p \in interms \union roots :
                       SignedBy(Top(x), p) => \E i \in DOMAIN x : x[i] = p
    BY <1>2, VerifyFails
  <2>2. /\ Len(x) \in Nat /\ 1 <= Len(x) /\ DOMAIN x = 1..Len(x)
        /\ x[1] = leaf
        /\ \A i \in DOMAIN x : x[i] \in {leaf} \union interms \union roots
        /\ \A i \in 1..(Len(x) - 1) : x[i] \notin roots
        /\ \A i, j \in DOMAIN x : x[i] = x[j] => i = j
    BY WalkFacts
  <2>3. CASE e.error = "expired" /\ e.cert = Top(x) /\ ~Current(Top(x), t)
    <3>1. Top(x) \in interms
      <4>1. Top(x) \in {leaf} \union interms \union roots
        BY <2>2 DEF Top
      <4>2. Top(x) \notin roots
        BY <2>3, Zenon DEF Paths
      <4>. QED
        BY <2>3, <4>1, <4>2
    <3>2. CurrentPath(w, e.cert.to - 1)
      BY <2>3, <3>1
    <3>3. [error |-> "none", cert |-> leaf] \in Verify(leaf, interms, roots, e.cert.to - 1)
      BY <3>2, VerifySucceeds
    <3>. QED
      BY <2>3, <3>1, <3>3, Zenon DEF Retried
  <2>4. CASE /\ Current(Top(x), t) /\ Top(x) \notin roots
             /\ \A p \in interms \union roots :
                   SignedBy(Top(x), p) => \E i \in DOMAIN x : x[i] = p
    <3>1. w \in Walks(leaf, interms, roots) /\ Top(w) \in roots /\ Current(Top(w), t)
      BY Zenon DEF Paths
    <3>2. /\ Len(w) \in Nat /\ 1 <= Len(w) /\ DOMAIN w = 1..Len(w)
          /\ w[1] = leaf
          /\ \A i \in DOMAIN w : w[i] \in {leaf} \union interms \union roots
          /\ \A i \in 1..(Len(w) - 1) : w[i] \notin roots /\ SignedBy(w[i], w[i + 1])
          /\ \A i, j \in DOMAIN w : w[i] = w[j] => i = j
      BY <3>1, WalkFacts
    <3>3. PICK m \in DOMAIN w : ~Current(w[m], t)
      BY <1>2 DEF CurrentPath
    <3>4. m \in Nat /\ 1 < m /\ m < Len(w)
      BY <3>1, <3>2, <3>3 DEF Top
    <3>5. w[m] \in interms
      BY <3>2, <3>4
    <3>6. \A i \in DOMAIN x : Current(x[i], t) /\ x[i] \notin roots
      BY <2>1, <2>2, <2>4 DEF Top
    <3>7. \A i \in DOMAIN x : x[i] = leaf
      BY <2>2, <3>3, <3>5, <3>6 DEF AtMostOne
    <3>8. Len(x) = 1 /\ Top(x) = leaf
      BY <2>2, <3>7 DEF Top
    <3>9. SignedBy(leaf, w[2]) /\ w[2] # leaf /\ w[2] \in interms \union roots
      BY <3>2, <3>4
    <3>. QED
      BY <2>4, <3>7, <3>8, <3>9
  <2>. QED
    BY <2>1, <2>3, <2>4
<1>. QED
  BY <1>1, <1>2

\* The chain that passed before passes at t, with the same leaf.
PassesLater(a, before, t) ==
    \A u \in verifyCert(a.chain, RootOf(a), before), v \in verifyCert(a.chain, RootOf(a), t) :
        u.code = "ok" => v.code = "ok" /\ v.cert = u.cert

\* verifyCert lets through later what it let through once.
LEMMA CertStays ==
    ASSUME NEW a \in Attestation, NEW before, NEW t, Ageing(a, t)
    PROVE  PassesLater(a, before, t)
<1> SUFFICES ASSUME NEW u \in verifyCert(a.chain, RootOf(a), before), u.code = "ok",
                    NEW v \in verifyCert(a.chain, RootOf(a), t)
             PROVE  v.code = "ok" /\ v.cert = u.cert
  BY Zenon DEF PassesLater
<1> DEFINE leaf == Leaf(a.chain)
           interms == Intermediates(a.chain)
           roots == TrustedRoots(a.chain, RootOf(a))
           Answer(e) == IF e.error = "none" \/ Retried(e, leaf, interms, roots, t)
                        THEN [code |-> "ok", cert |-> leaf]
                        ELSE [code |-> certVerifyError(e.error), cert |-> None]
<1>1. a.chain \in Seq(Certificate)
  BY AttestationAssumption
<1>2. /\ EndEntities(a.chain) # {} /\ u.cert = leaf
      /\ \E w \in Paths(leaf, interms, roots) : Trusted(a.chain, RootOf(a), w, before)
  BY <1>1, CertSound
<1>3. ~(\E i \in DOMAIN a.chain : a.chain[i].parse = "bad")
  BY DEF verifyCert, certVerifyError
<1>4. v \in {Answer(e) : e \in Verify(leaf, interms, roots, t)}
  BY <1>2, <1>3, Zenon DEF verifyCert
<1>5. PICK e \in Verify(leaf, interms, roots, t) : v = Answer(e)
  BY <1>4
<1>6. PICK w \in Paths(leaf, interms, roots) : TRUE
  BY <1>2
<1>7. \A p \in Paths(leaf, interms, roots) : p \in PathsOf(a) /\ p[1] = leaf
  <2>1. PICK i \in EndEntities(a.chain) : leaf = a.chain[i]
    BY <1>1, <1>2, LeafInChain
  <2> HIDE DEF leaf
  <2>. QED
    BY <2>1, PathsAgree, PathStart
<1>8. /\ AtMostOne(interms) /\ Current(leaf, t)
      /\ \A p \in Paths(leaf, interms, roots) :
            Current(Top(p), t) /\ \A c \in interms : CurrentPath(p, c.to - 1)
  <2>1. AtMostOne(interms)
    BY <1>1, OneIntermediate DEF Ageing
  <2> HIDE DEF leaf, roots
  <2>. QED
    BY <1>6, <1>7, <2>1 DEF Ageing
<1>9. e.error = "none" \/ Retried(e, leaf, interms, roots, t)
  <2> HIDE DEF leaf, interms, roots
  <2>. QED
    BY <1>6, <1>8, VerifyStays
<1>. QED
  BY <1>2, <1>5, <1>9

LEMMA AnswerStays ==
    ASSUME NEW a \in Attestation, NEW tag, NEW challenge, NEW before, NEW t, Ageing(a, t),
           "accepted" \in VerifyAttestation(a, challenge, tag, before),
           NEW x \in VerifyAttestation(a, challenge, tag, t)
    PROVE  x = "accepted"
<1>1. CASE a.format = "android"
  <2> DEFINE Says(v) == IF v.code # "ok" THEN v.code
                        ELSE LET c == Attested(a.chain, v.cert) IN
                             IF c = None THEN "certificate:extension"
                             ELSE FirstFailure(AndroidChecks(c.ext, c.key, challenge, tag))
  <2>1. /\ "accepted" \in verifyAndroid(a, challenge, tag, before)
        /\ x \in verifyAndroid(a, challenge, tag, t)
    BY <1>1, Zenon DEF VerifyAttestation
  <2>2. ~(Len(a.chain) < 2)
    BY <2>1, Zenon DEF verifyAndroid
  <2>3. PICK u \in verifyCert(a.chain, AndroidRoot, before) : "accepted" = Says(u)
    BY <2>1, <2>2, Zenon DEF verifyAndroid
  <2>4. PICK v \in verifyCert(a.chain, AndroidRoot, t) : x = Says(v)
    BY <2>1, <2>2, Zenon DEF verifyAndroid
  <2>5. u.code = "ok"
    BY <2>3, CodesOfCert
  <2>6. v.code = "ok" /\ v.cert = u.cert
    <3>1. RootOf(a) = AndroidRoot
      BY <1>1 DEF RootOf
    <3>2. PassesLater(a, before, t)
      BY CertStays
    <3>. QED
      BY <2>5, <3>1, <3>2, Zenon DEF PassesLater
  <2>. QED
    BY <2>3, <2>4, <2>5, <2>6
<1>2. CASE a.format = "apple"
  <2> DEFINE Says(v) == IF v.code # "ok" THEN v.code
                        ELSE IF /\ v.cert.ext = [auth |-> a.auth, challenge |-> challenge]
                                /\ tag = v.cert.key
                             THEN "accepted" ELSE "verification_failed"
  <2>1. /\ "accepted" \in verifyIOS(a, challenge, tag, before)
        /\ x \in verifyIOS(a, challenge, tag, t)
    BY <1>2 DEF VerifyAttestation
  <2>2. PICK u \in verifyCert(a.chain, AppleRoot, before) : "accepted" = Says(u)
    BY <2>1, Zenon DEF verifyIOS
  <2>3. PICK v \in verifyCert(a.chain, AppleRoot, t) : x = Says(v)
    BY <2>1, Zenon DEF verifyIOS
  <2>4. u.code = "ok"
    BY <2>2, CodesOfCert
  <2>5. v.code = "ok" /\ v.cert = u.cert
    <3>1. RootOf(a) = AppleRoot
      BY <1>2 DEF RootOf
    <3>2. PassesLater(a, before, t)
      BY CertStays
    <3>. QED
      BY <2>4, <3>1, <3>2, Zenon DEF PassesLater
  <2>. QED
    BY <2>2, <2>3, <2>4, <2>5
<1>3. CASE a.format \notin {"android", "apple"}
  BY <1>3 DEF VerifyAttestation
<1>. QED
  BY <1>1, <1>2, <1>3

\* The last acceptance was an answer to the attestation the phone has.
GrantInv ==
    grant # None =>
        "accepted" \in VerifyAttestation(att, grant.challenge, grant.key, grant.at)

\* An attestation once accepted is not refused later because its one intermediate
\* has expired: StaysAccepted holds of every step.
THEOREM KeyAttestationStaysAccepted == Spec => StaysAccepted
<1> DEFINE A == /\ clock' = clock
                /\ grant # None
                /\ asked' = <<grant.key, grant.challenge>>
                /\ Ageing(att, clock)
                => verdict' = "accepted"
<1>1. Init => GrantInv
  BY DEF Init, GrantInv
<1>2. TypeOK /\ GrantInv /\ [Next]_vars => GrantInv'
  <2> SUFFICES ASSUME TypeOK, GrantInv, [Next]_vars PROVE GrantInv'
    OBVIOUS
  <2>1. ASSUME NEW tag \in Tag, NEW challenge \in Challenge, Present(tag, challenge),
               verdict' = "accepted"
        PROVE  GrantInv'
    <3>1. /\ grant' = [key |-> tag, challenge |-> challenge, at |-> clock] /\ att' = att
          /\ "accepted" \in VerifyAttestation(att, challenge, tag, clock)
      BY <2>1 DEF Present
    <3>2. grant'.key = tag /\ grant'.challenge = challenge /\ grant'.at = clock
      BY <3>1
    <3>. QED
      BY <3>1, <3>2, Zenon DEF GrantInv
  <2>2. CASE UNCHANGED <<att, grant>>
    BY <2>2, Zenon DEF GrantInv
  <2>. QED
    BY <2>1, <2>2 DEF Next, Present, Tick, vars
<1>3. TypeOK /\ GrantInv /\ [Next]_vars => [A]_vars
  <2> SUFFICES ASSUME TypeOK, GrantInv, Next, clock' = clock, grant # None,
                      asked' = <<grant.key, grant.challenge>>, Ageing(att, clock)
               PROVE  verdict' = "accepted"
    BY DEF vars
  <2>1. PICK tag \in Tag, challenge \in Challenge : Present(tag, challenge)
    BY DEF Next, Tick, TypeOK
  <2>2. tag = grant.key /\ challenge = grant.challenge
    BY <2>1 DEF Present
  <2>3. verdict' \in VerifyAttestation(att, grant.challenge, grant.key, clock)
    BY <2>1, <2>2 DEF Present
  <2>4. "accepted" \in VerifyAttestation(att, grant.challenge, grant.key, grant.at)
    BY DEF GrantInv
  <2>5. att \in Attestation
    BY DEF TypeOK
  <2>. QED
    BY <2>3, <2>4, <2>5, AnswerStays
<1>. QED
  BY <1>1, <1>2, <1>3, KeyAttestationType, PTL DEF Spec, StaysAccepted

-----------------------------------------------------------------------------
(***************************************************************************)
(* Completeness.  A straight chain has one end entity, its intermediates   *)
(* are the certificates between, and the chain itself is a path to a root; *)
(* so Verify cannot fail, and no check of what the leaf says does.         *)
(***************************************************************************)

\* The chain is the path, with or without the root at its end.
LEMMA StraightShape ==
    ASSUME NEW a \in Attestation, NEW w, Straight(a, w)
    PROVE  /\ a.chain \in Seq(Certificate) /\ w \in Seq(Certificate)
           /\ Len(w) \in Nat /\ Len(w) > 1 /\ DOMAIN w = 1..Len(w)
           /\ DOMAIN a.chain = 1..Len(a.chain)
           /\ \/ Len(a.chain) = Len(w)
              \/ Len(a.chain) = Len(w) - 1 /\ Top(w) \in RootOf(a)
           /\ \A i \in DOMAIN a.chain : w[i] = a.chain[i]
<1>1. a.chain \in Seq(Certificate) /\ RootOf(a) \subseteq Certificate
  BY AttestationAssumption DEF RootOf
<1>2. Len(w) > 1
  BY Zenon DEF Straight
<1>3. CASE w = a.chain
  BY <1>1, <1>2, <1>3
<1>4. ASSUME NEW r \in RootOf(a), w = Append(a.chain, r)
      PROVE  /\ w \in Seq(Certificate) /\ Len(w) = Len(a.chain) + 1
             /\ w[Len(w)] = r
             /\ \A i \in DOMAIN a.chain : w[i] = a.chain[i]
  BY <1>1, <1>4
<1>5. w = a.chain \/ \E r \in RootOf(a) : w = Append(a.chain, r)
  BY Zenon DEF Straight
<1>6. CASE \E r \in RootOf(a) : w = Append(a.chain, r)
  <2>1. PICK r \in RootOf(a) : w = Append(a.chain, r)
    BY <1>6
  <2>2. /\ w \in Seq(Certificate) /\ Len(w) = Len(a.chain) + 1
        /\ w[Len(w)] = r
        /\ \A i \in DOMAIN a.chain : w[i] = a.chain[i]
    BY <1>4, <2>1
  <2>. QED
    BY <1>1, <1>2, <2>2 DEF Top
<1>. QED
  BY <1>3, <1>5, <1>6

\* What verifyCert takes for the leaf, the intermediates and the roots.
LEMMA StraightParts ==
    ASSUME NEW a \in Attestation, NEW w, Straight(a, w)
    PROVE  /\ EndEntities(a.chain) = {1}
           /\ Leaf(a.chain) = w[1]
           /\ Intermediates(a.chain) = {w[i] : i \in 2..(Len(w) - 1)}
           /\ Top(w) \in TrustedRoots(a.chain, RootOf(a))
           /\ \A i \in 1..(Len(w) - 1) : w[i] \notin TrustedRoots(a.chain, RootOf(a))
<1> DEFINE chain == a.chain
           n == Len(w)
           roots == TrustedRoots(chain, RootOf(a))
<1>1. /\ chain \in Seq(Certificate) /\ n \in Nat /\ n > 1
      /\ DOMAIN chain = 1..Len(chain) /\ Len(chain) \in Nat
      /\ Len(chain) = n \/ (Len(chain) = n - 1 /\ Top(w) \in RootOf(a))
      /\ \A i \in DOMAIN chain : w[i] = chain[i]
  BY StraightShape
<1>2. /\ \A i \in 1..(n - 1) : ~SelfIssued(w[i])
      /\ \A i \in 1..(n - 1) : w[i].ca <=> i # 1
      /\ SelfIssued(w[n]) /\ \E r \in RootOf(a) : r.key = w[n].key
  BY Zenon DEF Straight, Top
<1>3. Parsed(chain) = 1..Len(chain)
  <2>1. \A i \in DOMAIN chain : chain[i].parse \in {"ok", "repairable"}
    BY Zenon DEF Straight
  <2>. QED
    BY <1>1, <2>1 DEF Parsed
<1> HIDE DEF n
<1>4. EndEntities(chain) = {1}
  <2>1. \A i \in Parsed(chain) : ~SelfIssued(chain[i]) /\ ~chain[i].ca <=> i = 1
    BY <1>1, <1>2, <1>3
  <2>2. 1 \in Parsed(chain)
    BY <1>1, <1>3
  <2>. QED
    BY <2>1, <2>2 DEF EndEntities
<1>5. Leaf(chain) = w[1]
  <2>1. PICK i \in EndEntities(chain) : Leaf(chain) = chain[i]
    BY <1>1, <1>4, LeafInChain
  <2>. QED
    BY <1>1, <1>4, <2>1
<1>6. Intermediates(chain) = {w[i] : i \in 2..(n - 1)}
  <2>1. \A j \in Parsed(chain) : ~SelfIssued(chain[j]) /\ chain[j].ca <=> j \in 2..(n - 1)
    BY <1>1, <1>2, <1>3
  <2>2. 2..(n - 1) \subseteq Parsed(chain)
    BY <1>1, <1>3
  <2>3. {j \in Parsed(chain) : ~SelfIssued(chain[j]) /\ chain[j].ca} = 2..(n - 1)
    BY <2>1, <2>2
  <2>4. \A j \in 2..(n - 1) : chain[j] = w[j]
    BY <1>1
  <2>. QED
    BY <2>3, <2>4 DEF Intermediates
<1>7. Top(w) \in roots
  <2>1. CASE Top(w) \in RootOf(a)
    BY <2>1 DEF TrustedRoots
  <2>2. CASE Len(chain) = n
    <3>1. n \in Parsed(chain) /\ chain[n] = w[n]
      BY <1>1, <1>3, <2>2
    <3>. QED
      BY <1>2, <3>1 DEF TrustedRoots, Top, n
  <2>. QED
    BY <1>1, <2>1, <2>2
<1>8. \A c \in roots : SelfIssued(c)
  <2>1. \A c \in RootOf(a) : SelfIssued(c)
    BY AttestationAssumption DEF RootOf, SelfIssued
  <2>. QED
    BY <2>1 DEF TrustedRoots
<1>. QED
  BY <1>2, <1>4, <1>5, <1>6, <1>7, <1>8 DEF n

\* The chain is one of the paths Verify looks for.
LEMMA StraightPath ==
    ASSUME NEW a \in Attestation, NEW w, Straight(a, w)
    PROVE  w \in Paths(Leaf(a.chain), Intermediates(a.chain), TrustedRoots(a.chain, RootOf(a)))
<1> DEFINE leaf == Leaf(a.chain)
           interms == Intermediates(a.chain)
           roots == TrustedRoots(a.chain, RootOf(a))
           n == Len(w)
<1>1. /\ w \in Seq(Certificate) /\ n \in Nat /\ n > 1 /\ DOMAIN w = 1..n
  BY StraightShape
<1>2. /\ leaf = w[1]
      /\ interms = {w[i] : i \in 2..(n - 1)}
      /\ w[n] \in roots
      /\ \A i \in 1..(n - 1) : w[i] \notin roots
  BY StraightParts, Zenon DEF Top
<1>3. /\ \A i \in 1..(n - 1) : SignedBy(w[i], w[i + 1])
      /\ \A i, j \in DOMAIN w : w[i] = w[j] => i = j
  BY Zenon DEF Straight
<1> HIDE DEF leaf, interms, roots, n
<1>4. Cardinality(interms) = n - 2
  <2> DEFINE f == [i \in 1..(n - 2) |-> w[i + 1]]
  <2>1. n - 2 \in Nat
    BY <1>1
  <2>2. f \in [1..(n - 2) -> interms]
    BY <1>1, <1>2
  <2>3. \A i, j \in 1..(n - 2) : f[i] = f[j] => i = j
    BY <1>1, <1>3
  <2>4. \A c \in interms : \E i \in 1..(n - 2) : f[i] = c
    <3>1. ASSUME NEW k \in 2..(n - 1) PROVE \E i \in 1..(n - 2) : f[i] = w[k]
      <4>1. k - 1 \in 1..(n - 2) /\ f[k - 1] = w[k]
        BY <1>1, <3>1
      <4>. QED
        BY <4>1
    <3>. QED
      BY <1>2, <3>1
  <2> HIDE DEF f
  <2>5. f \in Bijection(1..(n - 2), interms)
    <3>1. DOMAIN f = 1..(n - 2)
      BY <2>2
    <3>2. f \in Injection(1..(n - 2), interms)
      BY <2>2, <2>3, <3>1, Zenon DEF Injection, IsInjective
    <3>3. f \in Surjection(1..(n - 2), interms)
      BY <2>2, <2>4, Zenon DEF Surjection
    <3>. QED
      BY <3>2, <3>3 DEF Bijection
  <2>. QED
    BY <2>1, <2>5, FS_CountingElements DEF ExistsBijection
<1>5. w \in UNION {[1..k -> {leaf} \union interms \union roots] :
                   k \in 1..(Cardinality(interms) + 2)}
  <2>1. \A i \in 1..n : w[i] \in {leaf} \union interms \union roots
    <3>1. ASSUME NEW i \in 1..n, i # 1, i # n PROVE w[i] \in interms
      BY <1>1, <1>2, <3>1
    <3>. QED
      BY <1>1, <1>2, <3>1
  <2>2. w \in [1..n -> {leaf} \union interms \union roots]
    BY <1>1, <2>1
  <2>3. n \in 1..(Cardinality(interms) + 2)
    BY <1>1, <1>4
  <2>. QED
    BY <2>2, <2>3
<1>6. w \in Walks(leaf, interms, roots)
  BY <1>2, <1>3, <1>5, Zenon DEF Walks, n
<1>. QED
  BY <1>2, <1>6, Zenon DEF Paths, Top, leaf, interms, roots, n

\* verifyCert has one answer to a straight chain that is current.
LEMMA StraightVerifies ==
    ASSUME NEW a \in Attestation, NEW w, NEW t, Straight(a, w), CurrentPath(w, t)
    PROVE  verifyCert(a.chain, RootOf(a), t) = {[code |-> "ok", cert |-> w[1]]}
<1> DEFINE leaf == Leaf(a.chain)
           interms == Intermediates(a.chain)
           roots == TrustedRoots(a.chain, RootOf(a))
           Answer(e) == IF e.error = "none" \/ Retried(e, leaf, interms, roots, t)
                        THEN [code |-> "ok", cert |-> leaf]
                        ELSE [code |-> certVerifyError(e.error), cert |-> None]
<1>1. EndEntities(a.chain) # {} /\ leaf = w[1]
  BY StraightParts
<1>2. ~(\E i \in DOMAIN a.chain : a.chain[i].parse = "bad")
  BY DEF Straight
<1>3. Verify(leaf, interms, roots, t) = {[error |-> "none", cert |-> leaf]}
  BY StraightPath, VerifySucceeds
<1>4. verifyCert(a.chain, RootOf(a), t) = {Answer(e) : e \in Verify(leaf, interms, roots, t)}
  BY <1>1, <1>2, Zenon DEF verifyCert
<1>5. \A e \in Verify(leaf, interms, roots, t) : Answer(e) = [code |-> "ok", cert |-> leaf]
  BY <1>3
<1> HIDE DEF leaf, interms, roots, Answer
<1>. QED
  BY <1>1, <1>3, <1>4, <1>5

\* No check of a description fails that says the key is well kept.
LEMMA WellKeptPasses ==
    ASSUME NEW a \in Attestation, NEW c, NEW tag, NEW challenge,
           a.format = "android", WellKept(a, c, tag, challenge)
    PROVE  FirstFailure(AndroidChecks(c.ext, c.key, challenge, tag)) = "accepted"
<1> DEFINE d == c.ext
           app == verifyAttestationApplicationID(AppOf(d))
           checks == AndroidChecks(d, c.key, challenge, tag)
<1>1. /\ c.key = tag /\ d \in KeyDescription
      /\ "software" \notin {d.level, d.keymaster}
      /\ {d.tee.origin, d.soft.origin} \ {Absent} = {0}
      /\ 2 \in d.tee.purpose
      /\ d.tee.boot = 0 /\ d.tee.locked # 0
      /\ {d.tee.app, d.soft.app} \ {Absent} = {"ours"}
      /\ d.challenge = challenge
  <2>1. a.format # "apple"
    OBVIOUS
  <2>. QED
    BY <2>1, Zenon DEF WellKept
<1>2. OriginOf(d) = 0
  <2>1. d.tee.origin \in {0, Absent} /\ d.soft.origin \in {0, Absent}
    BY <1>1, Zenon
  <2>. QED
    BY <2>1, Zenon DEF OriginOf
<1>3. 2 \in PurposeOf(d)
  BY <1>1 DEF PurposeOf
<1>4. app = "ok"
  <2>1. AppOf(d) = "ours"
    BY <1>1, Zenon DEF AppOf
  <2>. QED
    BY <2>1, Zenon DEF verifyAttestationApplicationID
<1> HIDE DEF app
<1>5. checks = <<
        <<"software" \in {d.level, d.keymaster}, "attestation_insecure">>,
        <<OriginOf(d) # 0, "attestation_key_not_generated">>,
        <<2 \notin PurposeOf(d), "attestation_key_purpose_invalid">>,
        <<RequireVerifiedBoot /\ ~(d.tee.boot = 0 /\ DeviceLocked(d.tee)),
          "attestation_boot_not_verified">>,
        <<CheckApp /\ app # "ok", app>>,
        <<d.challenge # challenge, "challenge">>,
        <<tag # c.key, "hardware_key_tag">> >>
  BY Zenon DEF AndroidChecks, app
<1> HIDE DEF checks, d
<1>6. DOMAIN checks = 1..7
  BY <1>5
<1>7. DeviceLocked(d.tee)
  BY <1>1, Zenon DEF DeviceLocked
<1>8. ASSUME NEW i \in 1..7 PROVE ~checks[i][1]
  <2>1. CASE i = 1
    BY <1>1, <1>5, <2>1
  <2>2. CASE i = 2
    BY <1>2, <1>5, <2>2
  <2>3. CASE i = 3
    BY <1>3, <1>5, <2>3
  <2>4. CASE i = 4
    BY <1>1, <1>5, <1>7, <2>4
  <2>5. CASE i = 5
    BY <1>4, <1>5, <2>5
  <2>6. CASE i = 6
    <3>1. d.challenge = challenge
      BY <1>1, Zenon DEF d
    <3>. QED
      BY <1>5, <2>6, <3>1
  <2>7. CASE i = 7
    <3>1. c.key = tag
      BY <1>1, Zenon
    <3>. QED
      BY <1>5, <2>7, <3>1
  <2>. QED
    BY <2>1, <2>2, <2>3, <2>4, <2>5, <2>6, <2>7
<1>9. FirstFailure(checks) = "accepted"
  BY <1>6, <1>8, FirstFailureCode
<1>. QED
  BY <1>9, Zenon DEF checks, d

\* The phone of a genuine attestation has one answer, whatever order Verify takes.
LEMMA GenuineAnswer ==
    ASSUME NEW a \in Attestation, NEW tag, NEW challenge, NEW t, Genuine(a, tag, challenge, t)
    PROVE  VerifyAttestation(a, challenge, tag, t) = {"accepted"}
<1>1. PICK w : Straight(a, w) /\ CurrentPath(w, t) /\ WellKept(a, w[1], tag, challenge)
  BY Zenon DEF Genuine
<1> DEFINE v == [code |-> "ok", cert |-> w[1]]
<1>2. verifyCert(a.chain, RootOf(a), t) = {v}
  BY <1>1, StraightVerifies
<1>3. v.code = "ok" /\ v.cert = w[1]
  OBVIOUS
<1> HIDE DEF v
<1>4. CASE a.format = "android"
  <2>1. verifyCert(a.chain, AndroidRoot, t) = {v}
    BY <1>2, <1>4 DEF RootOf
  <2>2. Len(a.chain) > 1 /\ w[1].ext \in KeyDescription
    BY <1>1, <1>4, Zenon DEF WellKept
  <2>3. ~(Len(a.chain) < 2)
    BY <2>2, AttestationAssumption
  <2>4. Attested(a.chain, v.cert) = w[1]
    BY <1>3, <2>2, AttestationAssumption DEF Attested
  <2>5. w[1] # None
    <3>1. w \in Seq(Certificate) /\ 1 \in DOMAIN w
      BY <1>1, StraightShape
    <3>. QED
      BY <3>1, AttestationAssumption
  <2>6. FirstFailure(AndroidChecks(w[1].ext, w[1].key, challenge, tag)) = "accepted"
    BY <1>1, <1>4, WellKeptPasses
  <2>7. verifyAndroid(a, challenge, tag, t) = {"accepted"}
    <3> DEFINE Says(u) ==
                 IF u.code # "ok" THEN u.code
                 ELSE LET c == Attested(a.chain, u.cert) IN
                      IF c = None THEN "certificate:extension"
                      ELSE FirstFailure(AndroidChecks(c.ext, c.key, challenge, tag))
    <3>1. verifyAndroid(a, challenge, tag, t) = {Says(u) : u \in verifyCert(a.chain, AndroidRoot, t)}
      BY <2>3, Zenon DEF verifyAndroid
    <3>2. Says(v) = "accepted"
      BY <1>3, <2>4, <2>5, <2>6, Zenon
    <3> HIDE DEF Says
    <3>. QED
      BY <2>1, <3>1, <3>2
  <2>. QED
    BY <1>4, <2>7 DEF VerifyAttestation
<1>5. CASE a.format = "apple"
  <2>1. verifyCert(a.chain, AppleRoot, t) = {v}
    BY <1>2, <1>5 DEF RootOf
  <2>2. w[1].ext = [auth |-> a.auth, challenge |-> challenge] /\ w[1].key = tag
    BY <1>1, <1>5, Zenon DEF WellKept
  <2>3. verifyIOS(a, challenge, tag, t) = {"accepted"}
    BY <1>3, <2>1, <2>2, Zenon DEF verifyIOS
  <2>. QED
    BY <1>5, <2>3 DEF VerifyAttestation
<1>6. a.format \in {"android", "apple"}
  BY <1>1, Zenon DEF WellKept
<1>. QED
  BY <1>4, <1>5, <1>6

\* GenuineAccepted holds: a phone whose chain goes straight up to a configured
\* root, is current, and attests a key that the hardware keeps for our app and
\* this challenge, is accepted, whatever crypto/x509 finds first.
THEOREM KeyAttestationGenuine == Spec => GenuineAccepted
<1>1. ASSUME TypeOK, Next, clock' = clock, Genuine(att, asked'[1], asked'[2], clock)
      PROVE  verdict' = "accepted"
  <2>1. PICK tag \in Tag, challenge \in Challenge : Present(tag, challenge)
    <3>1. ~Tick
      BY <1>1 DEF Tick, TypeOK
    <3>. QED
      BY <1>1, <3>1 DEF Next
  <2>2. asked'[1] = tag /\ asked'[2] = challenge
    BY <2>1 DEF Present
  <2>3. VerifyAttestation(att, challenge, tag, clock) = {"accepted"}
    BY <1>1, <2>2, GenuineAnswer DEF TypeOK
  <2>. QED
    BY <2>1, <2>3 DEF Present
<1>2. TypeOK /\ [Next]_vars =>
        [clock' = clock /\ Genuine(att, asked'[1], asked'[2], clock) => verdict' = "accepted"]_vars
  BY <1>1, Zenon
<1>. QED
  BY <1>2, KeyAttestationType, PTL DEF Spec, GenuineAccepted

=============================================================================
