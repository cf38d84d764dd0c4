--------------------------- MODULE KeyAttestation ---------------------------
(***************************************************************************)
(* Package attestation: whether the key of a phone is accepted.            *)
(*                                                                         *)
(* POST /instance calls Verify with the attestation, the nonce and the tag *)
(* of the key.  verifyCert finds the leaf among the certificates presented *)
(* and chains it to a configured root; the extension of the leaf, or of    *)
(* the raw certificate below it, says how the key is kept and for which    *)
(* challenge it was attested.  The service keeps nothing: what changes     *)
(* between two calls for one attestation is the time.                      *)
(*                                                                         *)
(* A certificate is a record: whether it parses, its names and keys, its   *)
(* validity, and the attestation in its extension.  A hash stands for what *)
(* is hashed; all keys are EC keys.                                        *)
(***************************************************************************)
EXTENDS Integers, Sequences, FiniteSets, FiniteSetsExt

CONSTANTS
    Name,           \* subjects and issuers of certificates
    Key,            \* public keys
    Tag,            \* tags of instances: the hash of a key is the key
    Challenge,      \* nonces
    Time,           \* limits of certificates' validity
    AndroidRoot,    \* configured roots, per platform
    AppleRoot,
    Attestation,    \* what phones may present
    RequireVerifiedBoot,    \* ATTESTATION_REQUIRE_VERIFIED_BOOT
    CheckApp,       \* a package name or a signing certificate is configured
    MaxClock,       \* bound on the clock
    Absent,         \* an optional element is not there
    None            \* no certificate, or no acceptance so far

(***************************************************************************)
(* KeyMint's AuthorizationList: every element is optional.  The origin is  *)
(* 0 for a key generated on the device; locked is the byte of a BOOLEAN,   *)
(* and a list without a root of trust reads as one of zeros.               *)
(***************************************************************************)
AuthorizationList ==
    [origin : {0, 1, 2, Absent}, purpose : SUBSET {2, 3}, boot : 0..3, locked : {0, 1, 255},
     app : {"ours", "package", "signer", "garbled", Absent}]
Level == {"software", "tee", "strongbox"}
KeyDescription ==
    [level : Level, keymaster : Level, challenge : Challenge,
     tee : AuthorizationList, soft : AuthorizationList]
AppleNonce == [auth : BOOLEAN, challenge : Challenge]

\* parse: "repairable" has a critical flag in BER only, "ignorable" an error of
\* its CRL distribution points, "bad" any other error.
Certificate ==
    [parse : {"ok", "repairable", "ignorable", "bad"},
     subject : Name, issuer : Name, key : Key, signer : Key,
     ca : BOOLEAN, signs : BOOLEAN, from : Time, to : Time,
     ext : KeyDescription \union AppleNonce \union {Absent}]

ASSUME AttestationAssumption ==
    /\ Time \subseteq Int
    /\ MaxClock \in Nat
    /\ AndroidRoot \union AppleRoot \subseteq {c \in Certificate : c.subject = c.issuer}
    /\ \A a \in Attestation :
          /\ a.format \in {"android", "apple", "other"}
          /\ a.auth \in BOOLEAN
          /\ a.chain \in Seq(Certificate)
          /\ \A i \in DOMAIN a.chain : a.format # "apple" => a.chain[i].ext \notin AppleNonce
          /\ \A i \in DOMAIN a.chain : a.format = "apple" => a.chain[i].ext \notin KeyDescription
    /\ RequireVerifiedBoot \in BOOLEAN /\ CheckApp \in BOOLEAN
    /\ None \notin Certificate /\ Absent \notin KeyDescription \union AppleNonce

-----------------------------------------------------------------------------
(***************************************************************************)
(* crypto/x509.                                                            *)
(***************************************************************************)

Current(c, t) == c.from <= t /\ t <= c.to
SignedBy(c, parent) == c.issuer = parent.subject /\ c.signer = parent.key

\* Sequences of certificates from the leaf up, each signed by the next, with at
\* most one root, at the end.
Walks(leaf, interms, roots) ==
    {w \in UNION {[1..n -> {leaf} \union interms \union roots] : n \in 1..(Cardinality(interms) + 2)} :
        /\ w[1] = leaf
        /\ \A i \in 1..(Len(w) - 1) : w[i] \notin roots /\ SignedBy(w[i], w[i + 1])
        /\ \A i, j \in DOMAIN w : w[i] = w[j] => i = j}

Top(w) == w[Len(w)]
Paths(leaf, interms, roots) == {w \in Walks(leaf, interms, roots) : Top(w) \in roots}
CurrentPath(w, t) == \A i \in DOMAIN w : Current(w[i], t)

\* Verify goes up from a certificate as long as it is current.  Without a path it
\* reports a certificate it stopped at: out of date, or signed by none it knows.
Verify(leaf, interms, roots, t) ==
    IF \E w \in Paths(leaf, interms, roots) : CurrentPath(w, t)
    THEN {[error |-> "none", cert |-> leaf]}
    ELSE LET reached == {w \in Walks(leaf, interms, roots) :
                            \A i \in 1..(Len(w) - 1) : Current(w[i], t)}
             stuck(w) == \A p \in interms \union roots :
                            SignedBy(Top(w), p) => \E i \in DOMAIN w : w[i] = p
         IN  {[error |-> "expired", cert |-> Top(w)] : w \in {x \in reached : ~Current(Top(x), t)}}
             \union
             {[error |-> "unknown", cert |-> Top(w)] :
                w \in {x \in reached : Current(Top(x), t) /\ Top(x) \notin roots /\ stuck(x)}}

-----------------------------------------------------------------------------
(***************************************************************************)
(* verifyCert.                                                             *)
(***************************************************************************)

\* Fault: what is not strict DER is left out.
Parsed_Strict(chain) == {i \in DOMAIN chain : chain[i].parse = "ok"}

\* A repaired certificate keeps the bytes its signature was made over.
Parsed(chain) == {i \in DOMAIN chain : chain[i].parse \in {"ok", "repairable"}}
SelfIssued(c) == c.subject = c.issuer

\* Fault: every self-issued certificate presented is a root.
TrustedRoots_All(chain, roots) ==
    roots \union {chain[i] : i \in {j \in Parsed(chain) : SelfIssued(chain[j])}}

\* A self-issued certificate with the key of a configured root is another
\* certificate of that root.
TrustedRoots(chain, roots) ==
    roots \union {chain[i] : i \in {j \in Parsed(chain) :
        SelfIssued(chain[j]) /\ \E r \in roots : r.key = chain[j].key}}

Intermediates(chain) ==
    {chain[i] : i \in {j \in Parsed(chain) : ~SelfIssued(chain[j]) /\ chain[j].ca}}

EndEntities(chain) == {i \in Parsed(chain) : ~SelfIssued(chain[i]) /\ ~chain[i].ca}

\* The first end-entity certificate that signs, or else the first one.
Leaf(chain) ==
    LET signing == {i \in EndEntities(chain) : chain[i].signs}
    IN  chain[Min(IF signing # {} THEN signing ELSE EndEntities(chain))]

\* Fault: the raw error is handed on.
certVerifyError_Raw(error) == error

certVerifyError(error) ==
    IF error = "expired" THEN "certificate_expired"
    ELSE IF error = "unknown" THEN "certificate_untrusted"
    ELSE "certificate_invalid"

\* Fault: any certificate that is out of date is looked at in its own time.
Retried_Any(e, leaf, interms, roots, now) ==
    /\ e.error = "expired"
    /\ [error |-> "none", cert |-> leaf] \in Verify(leaf, interms, roots, e.cert.to - 1)

\* Fault: the time is taken behind the end of the certificate.
Retried_After(e, leaf, interms, roots, now) ==
    /\ e.error = "expired" /\ e.cert \in interms
    /\ Current(leaf, now)
    /\ [error |-> "none", cert |-> leaf] \in Verify(leaf, interms, roots, e.cert.to + 1)

\* Out of date is an intermediate, and the leaf is not: try once more, at the
\* last second of that intermediate.
Retried(e, leaf, interms, roots, now) ==
    /\ e.error = "expired" /\ e.cert \in interms
    /\ Current(leaf, now)
    /\ [error |-> "none", cert |-> leaf] \in Verify(leaf, interms, roots, e.cert.to - 1)

\* The answers: a code, and the leaf when the code is "ok".
verifyCert(chain, configured, now) ==
    IF \E i \in DOMAIN chain : chain[i].parse = "bad"
    THEN {[code |-> c, cert |-> None] : c \in {"certificate_malformed", certVerifyError("other")}}
    ELSE IF EndEntities(chain) = {} THEN {[code |-> certVerifyError("other"), cert |-> None]}
    ELSE LET leaf == Leaf(chain)
             interms == Intermediates(chain)
             roots == TrustedRoots(chain, configured)
         IN  {IF e.error = "none" \/ Retried(e, leaf, interms, roots, now)
              THEN [code |-> "ok", cert |-> leaf]
              ELSE [code |-> certVerifyError(e.error), cert |-> None] :
                 e \in Verify(leaf, interms, roots, now)}

-----------------------------------------------------------------------------
(***************************************************************************)
(* verifyAndroid and verifyIOS.                                            *)
(***************************************************************************)

\* The first of a list of checks <<failed, code>> that failed decides.
FirstFailure(checks) ==
    LET failed == {i \in DOMAIN checks : checks[i][1]}
    IN  IF failed = {} THEN "accepted" ELSE checks[Min(failed)][2]

\* Fault: the signature of the raw leaf is not checked.
Attested_Unsigned(chain, cert) ==
    IF cert.ext # Absent THEN cert
    ELSE IF chain[1].ext # Absent THEN chain[1] ELSE None

\* The certificate that attests the key: the verified one, or one without an
\* attestation has signed it and it comes first in the chain (its validity is
\* not looked at, and it need not parse in full).
Attested(chain, cert) ==
    IF cert.ext # Absent THEN cert
    ELSE IF /\ chain[1].ext # Absent
            /\ chain[1].parse # "repairable"
            /\ chain[1].signer = cert.key
    THEN chain[1] ELSE None

\* An origin that is not there reads as 0; the software list only adds to it.
OriginOf(d) ==
    LET origin(list) == IF list.origin = Absent THEN 0 ELSE list.origin
    IN  IF origin(d.tee) = 0 THEN origin(d.soft) ELSE origin(d.tee)
PurposeOf(d) == IF d.tee.purpose = {} THEN d.soft.purpose ELSE d.tee.purpose
AppOf(d) == IF d.tee.app = Absent THEN d.soft.app ELSE d.tee.app

\* parseRootOfTrust: any byte but 0 is a TRUE, whatever DER demands.
DeviceLocked(list) == list.locked # 0

verifyAttestationApplicationID(app) ==
    CASE app = "ours" -> "ok"
      [] app = "package" -> "attestation_package_mismatch"
      [] app = "signer" -> "attestation_signing_cert_mismatch"
      [] OTHER -> "certificate:extension"

AndroidChecks(d, key, challenge, tag) ==
    LET app == verifyAttestationApplicationID(AppOf(d)) IN <<
    <<"software" \in {d.level, d.keymaster}, "attestation_insecure">>,
    <<OriginOf(d) # 0, "attestation_key_not_generated">>,
    <<2 \notin PurposeOf(d), "attestation_key_purpose_invalid">>,
    <<RequireVerifiedBoot /\ ~(d.tee.boot = 0 /\ DeviceLocked(d.tee)), "attestation_boot_not_verified">>,
    <<CheckApp /\ app # "ok", app>>,
    <<d.challenge # challenge, "challenge">>,
    <<tag # key, "hardware_key_tag">> >>

verifyAndroid(a, challenge, tag, now) ==
    IF Len(a.chain) < 2 THEN {"key_attestation"}
    ELSE {IF v.code # "ok" THEN v.code
          ELSE LET c == Attested(a.chain, v.cert) IN
               IF c = None THEN "certificate:extension"
               ELSE FirstFailure(AndroidChecks(c.ext, c.key, challenge, tag)) :
             v \in verifyCert(a.chain, AndroidRoot, now)}

\* Apple's extension holds one hash over the authenticator data and the challenge.
verifyIOS(a, challenge, tag, now) ==
    {IF v.code # "ok" THEN v.code
     ELSE IF /\ v.cert.ext = [auth |-> a.auth, challenge |-> challenge]
             /\ tag = v.cert.key
     THEN "accepted" ELSE "verification_failed" :
        v \in verifyCert(a.chain, AppleRoot, now)}

VerifyAttestation(a, challenge, tag, now) ==
    CASE a.format = "android" -> verifyAndroid(a, challenge, tag, now)
      [] a.format = "apple" -> verifyIOS(a, challenge, tag, now)
      [] OTHER -> {"verification_failed"}

Verdict == {"accepted", "certificate_malformed", "certificate_invalid", "certificate_expired",
            "certificate_untrusted", "key_attestation", "certificate:extension",
            "attestation_insecure", "attestation_key_not_generated",
            "attestation_key_purpose_invalid", "attestation_boot_not_verified",
            "attestation_package_mismatch", "attestation_signing_cert_mismatch", "challenge", "hardware_key_tag", "verification_failed"}

-----------------------------------------------------------------------------

VARIABLES
    clock,
    att,        \* the attestation the phone has
    asked,      \* the tag and the challenge of the last call
    verdict,    \* the answer to it
    grant       \* the last acceptance: of which key, for what challenge, and when

vars == <<clock, att, asked, verdict, grant>>

TypeOK ==
    /\ clock \in Nat
    /\ att \in Attestation
    /\ asked \in Tag \X Challenge
    /\ verdict \in Verdict \union {None}
    /\ grant \in [key : Tag, challenge : Challenge, at : Nat] \union {None}

Init ==
    /\ clock = 0
    /\ att \in Attestation
    /\ asked \in Tag \X Challenge
    /\ verdict = None
    /\ grant = None

\* The phone presents its attestation, for a tag and a challenge.
Present(tag, challenge) ==
    /\ asked' = <<tag, challenge>>
    /\ verdict' \in VerifyAttestation(att, challenge, tag, clock)
    /\ grant' = IF verdict' = "accepted"
                THEN [key |-> tag, challenge |-> challenge, at |-> clock] ELSE grant
    /\ UNCHANGED <<clock, att>>

Tick ==
    /\ clock < MaxClock
    /\ clock' = clock + 1
    /\ UNCHANGED <<att, asked, verdict, grant>>

Next ==
    \/ \E tag \in Tag, challenge \in Challenge : Present(tag, challenge)
    \/ Tick

Spec == Init /\ [][Next]_vars

-----------------------------------------------------------------------------
(***************************************************************************)
(* Properties.                                                             *)
(***************************************************************************)

RootOf(a) == IF a.format = "android" THEN AndroidRoot ELSE AppleRoot
\* Chains of signatures from an end-entity certificate presented to a root.
PathsOf(a) ==
    UNION {Paths(a.chain[i], Intermediates(a.chain),
                 RootOf(a) \union {a.chain[j] : j \in {k \in DOMAIN a.chain :
                    SelfIssued(a.chain[k]) /\ \E r \in RootOf(a) : r.key = a.chain[k].key}}) :
           i \in EndEntities(a.chain)}

\* A key is accepted only if a certificate attests that very key for that very
\* challenge, and it is signed, over the certificates presented, by the key of a
\* configured root: no part is taken from one certificate and another from
\* another, whatever end-entity certificates the chain brings.
AcceptedIsAttested ==
    grant # None =>
        \E w \in PathsOf(att), i \in DOMAIN att.chain :
            /\ att.chain[i] = w[1] \/ att.chain[i].signer = w[1].key
            /\ att.chain[i].key = grant.key
            /\ att.chain[i].ext # Absent
            /\ att.chain[i].ext.challenge = grant.challenge
            /\ att.format = "android" => att.chain[i].ext.level # "software"

\* What is accepted is current up to an intermediate: the leaf always, and the
\* other certificates at the same moment, which is now or, if an intermediate is
\* out of date, its last second.  (So is the root: see the README.)
AcceptedIsCurrent ==
    grant # None =>
        \E w \in PathsOf(att) :
            /\ Current(w[1], grant.at)
            /\ \/ CurrentPath(w, grant.at)
               \/ \E c \in Intermediates(att.chain) :
                     ~Current(c, grant.at) /\ CurrentPath(w, c.to - 1)

\* A chain that goes straight up from the certificate of the key, with the configured
\* root, or another certificate of it, at its end or left out.
Straight(a, w) ==
    /\ w = a.chain \/ \E r \in RootOf(a) : w = Append(a.chain, r)
    /\ \A i \in DOMAIN a.chain : a.chain[i].parse \in {"ok", "repairable"}
    /\ \A i \in 1..(Len(w) - 1) : ~SelfIssued(w[i]) /\ SignedBy(w[i], w[i + 1])
    /\ \A i \in 1..(Len(w) - 1) : w[i].ca <=> i # 1
    /\ \A i, j \in DOMAIN w : w[i] = w[j] => i = j
    /\ Len(w) > 1 /\ SelfIssued(Top(w)) /\ \E r \in RootOf(a) : r.key = Top(w).key

\* What the certificate of a key says that the hardware made, keeps and attests
\* for our app; origin and app are in one of Android's two lists, or in both alike.
WellKept(a, c, tag, challenge) ==
    /\ c.key = tag
    /\ \/ a.format = "apple" /\ c.ext = [auth |-> a.auth, challenge |-> challenge]
       \/ /\ a.format = "android" /\ Len(a.chain) > 1 /\ c.ext \in KeyDescription
          /\ "software" \notin {c.ext.level, c.ext.keymaster}
          /\ {c.ext.tee.origin, c.ext.soft.origin} \ {Absent} = {0}
          /\ 2 \in c.ext.tee.purpose
          /\ c.ext.tee.boot = 0 /\ c.ext.tee.locked # 0
          /\ {c.ext.tee.app, c.ext.soft.app} \ {Absent} = {"ours"}
          /\ c.ext.challenge = challenge

Genuine(a, tag, challenge, t) ==
    \E w \in {a.chain} \union {Append(a.chain, r) : r \in RootOf(a)} :
        Straight(a, w) /\ CurrentPath(w, t) /\ WellKept(a, w[1], tag, challenge)

\* No genuine phone is turned away while its certificates are current, whatever
\* order crypto/x509 tries them in: the only answer to it is an acceptance.
GenuineAccepted ==
    [][clock' = clock /\ Genuine(att, asked'[1], asked'[2], clock) => verdict' = "accepted"]_vars

\* Chains of one intermediate at most, that was in use for a while together with
\* the leaf and a root that is still current.
Ageing(a, t) ==
    /\ Cardinality(Intermediates(a.chain)) <= 1
    /\ \A w \in PathsOf(a) :
          /\ Current(w[1], t)
          /\ Current(Top(w), t)
          /\ \A c \in Intermediates(a.chain) : CurrentPath(w, c.to - 1)

\* An attestation once accepted is not refused later because its intermediate
\* has expired meanwhile ("attestations signed under them remain valid").
StaysAccepted ==
    [][/\ clock' = clock
       /\ grant # None
       /\ asked' = <<grant.key, grant.challenge>>
       /\ Ageing(att, clock)
       => verdict' = "accepted"]_vars

=============================================================================
