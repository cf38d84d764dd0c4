-------------------------- MODULE MCKeyAttestation --------------------------
(***************************************************************************)
(* A small instance of KeyAttestation for TLC: the chains phones bring,    *)
(* with validities that end at different times.                            *)
(***************************************************************************)
EXTENDS KeyAttestation

CONSTANTS k1, k2, c1, c2

MCTime == 0..9

CertOf(subject, issuer, key, signer, from, to) ==
    [parse |-> "ok", subject |-> subject, issuer |-> issuer, key |-> key, signer |-> signer,
     ca |-> FALSE, signs |-> TRUE, from |-> from, to |-> to, ext |-> Absent]
CA(subject, issuer, from, to) ==
    [CertOf(subject, issuer, subject, issuer, from, to) EXCEPT !.ca = TRUE]

MCAndroidRoot == {CA("R", "R", 0, 9), CA("S", "S", 0, 3)}
MCAppleRoot == {CA("A", "A", 0, 9)}

Tee == [origin |-> 0, purpose |-> {2}, boot |-> 0, locked |-> 1, app |-> "ours"]
Soft == [origin |-> Absent, purpose |-> {}, boot |-> 0, locked |-> 0, app |-> Absent]
Description == [level |-> "tee", keymaster |-> "strongbox", challenge |-> c1,
                tee |-> Tee, soft |-> Soft]

LeafOf(key, issuer, from, to) ==
    [CertOf("leaf", issuer, key, issuer, from, to) EXCEPT !.ext = Description]
Plain(key, issuer) == [LeafOf(key, issuer, 0, 6) EXCEPT !.ext = Absent]
Inner == CA("I", "R", 0, 3)

\* Chains that differ in how long their certificates last.
Ages == {
    <<LeafOf(k1, "I", 1, 6), Inner, CA("R", "R", 0, 9)>>,
    \* the upper intermediate ends first
    <<LeafOf(k1, "J", 0, 6), CA("J", "I", 0, 4), CA("I", "R", 0, 2)>>,
    \* an intermediate that is not valid yet
    <<LeafOf(k1, "I", 0, 4), CA("I", "R", 2, 4)>>,
    \* the root presented is the old certificate of a configured one
    <<LeafOf(k1, "R", 0, 5), CA("R", "R", 0, 2)>>,
    \* the configured root ends
    <<LeafOf(k1, "I", 0, 6), CA("I", "S", 0, 2)>>,
    <<LeafOf(k1, "S", 0, 6), CA("S", "S", 0, 3)>>}

\* Chains that differ in where the attestation is.
Shapes == {
    \* a raw leaf below the end-entity certificate that has signed it, or another
    <<[LeafOf(k2, "leaf", 0, 1) EXCEPT !.parse = "ignorable", !.signer = k1], Plain(k1, "I"), Inner>>,
    <<[LeafOf(k2, "leaf", 0, 1) EXCEPT !.parse = "ignorable", !.signer = "X"], Plain(k1, "I"), Inner>>,
    \* two end-entity certificates, of which one is for signatures
    <<[LeafOf(k2, "I", 0, 6) EXCEPT !.signs = FALSE], LeafOf(k1, "I", 0, 6), Inner>>,
    <<[LeafOf(k1, "I", 0, 4) EXCEPT !.parse = "repairable"], Inner>>,
    <<LeafOf(k1, "X", 0, 6), CA("X", "X", 0, 9)>>,
    <<Plain(k1, "I"), Inner>>,
    <<[LeafOf(k1, "I", 0, 6) EXCEPT !.parse = "bad"], Inner>>,
    <<Inner, CA("R", "R", 0, 9)>>,
    <<LeafOf(k1, "R", 0, 6)>>}

\* Descriptions that fall short in one point; most phones have the app in the
\* software list, which is none.
Descriptions == {
    [Description EXCEPT !.keymaster = "software"],
    [Description EXCEPT !.soft.origin = 2],
    [Description EXCEPT !.tee.origin = Absent, !.tee.purpose = {}, !.soft.purpose = {2, 3}],
    [Description EXCEPT !.tee.purpose = {3}],
    [Description EXCEPT !.tee.locked = 0],
    [Description EXCEPT !.tee.app = Absent],
    [Description EXCEPT !.tee.app = Absent, !.soft.app = "ours"],
    [Description EXCEPT !.tee.app = "package"],
    [Description EXCEPT !.tee.app = Absent, !.soft.app = "signer"]}

Android(chain) == [format |-> "android", auth |-> FALSE, chain |-> chain]
Apple(auth) ==
    [format |-> "apple", auth |-> auth,
     chain |-> <<[LeafOf(k1, "I", 0, 3) EXCEPT !.ext = [auth |-> TRUE, challenge |-> c1]],
                 CA("I", "A", 0, 2)>>]

MCAttestation ==
    {Android(chain) : chain \in Ages \union Shapes}
    \union {Android(<<[LeafOf(k1, "I", 0, 6) EXCEPT !.ext = d], Inner>>) : d \in Descriptions}
    \union {Apple(TRUE), Apple(FALSE), [format |-> "other", auth |-> FALSE, chain |-> <<>>]}

=============================================================================
