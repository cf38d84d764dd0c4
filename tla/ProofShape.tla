----------------------------- MODULE ProofShape -----------------------------
(***************************************************************************)
(* Where a credential request keeps its key attestation.                   *)
(*                                                                         *)
(* A request has a "proof" object or a list "proofs" of them (one object   *)
(* stands for a list of one; anything else is an empty list).  A proof     *)
(* object has a "jwt" and an "attestation", each a string or an array.     *)
(* What the code takes from such a field depends on its first element,     *)
(* and, once blanks are filtered out, on the next that is not blank: a     *)
(* field is those two.  An element of "attestation" is a WUA, one of "jwt" *)
(* is named after the WUA in the proof JWT's header.                       *)
(***************************************************************************)
CONSTANTS
    Wua,        \* wallet unit attestations
    Absent,     \* the object has no such field
    Blank,      \* an empty string, or no string at all
    Plain       \* a proof JWT without key_attestation

Element == Wua \union {Blank, Plain}
Field == [first : Element, next : Element]
ProofObject == [jwt : Field \union {Absent}, attestation : Field \union {Absent}]

ASSUME ShapeAssumption ==
    /\ Blank \notin Wua /\ Plain \notin Wua /\ Blank # Plain
    /\ Absent \notin Field /\ Absent \notin ProofObject

\* A request; proofs[1] and proofs[2] stand for the first two of the list.
Shape == [proof : ProofObject \union {Absent}, proofs : [{1, 2} -> ProofObject \union {Absent}]]

\* extractFirstString: Blank is its error.
FirstString(field) == IF field = Absent THEN Blank ELSE field.first

\* extractProofJWT: the proof object, or else the first of the proofs.
ProofJWT(p) ==
    LET object == IF p.proof # Absent THEN p.proof ELSE p.proofs[1]
    IN  IF object = Absent THEN Blank ELSE FirstString(object.jwt)

\* The key_attestation header peekJWT finds in a proof JWT, if it has one.
KeyAttestation(jwt) == IF jwt \in Wua THEN jwt ELSE Blank

\* proofHasKeyAttestation
HasKeyAttestation(p) == KeyAttestation(ProofJWT(p)) # Blank

HasAttestation(object) == object # Absent /\ object.attestation # Absent

\* extractProofAttestation: the field it finds, in any of the proofs.
AttestationField(p) ==
    IF p.proof # Absent THEN p.proof.attestation
    ELSE IF HasAttestation(p.proofs[1]) THEN p.proofs[1].attestation
    ELSE IF HasAttestation(p.proofs[2]) THEN p.proofs[2].attestation
    ELSE Absent

\* The mode and the key of extractAccessContextKey; a Blank key is its error.
ProofMode(p) == IF AttestationField(p) # Absent THEN "attestation" ELSE "jwt"

AccessContextKey(p) ==
    IF ProofMode(p) = "attestation" THEN FirstString(AttestationField(p))
    ELSE KeyAttestation(ProofJWT(p))

\* Blanks are filtered out of an array, unless nothing would be left.
Compact(field) ==
    IF field # Absent /\ field.first = Blank /\ field.next # Blank
    THEN [first |-> field.next, next |-> Blank]
    ELSE field

\* credentialJWT rewrites the jwt of a "proof" object before it validates it.
Normalise(p) ==
    IF p.proof = Absent THEN p
    ELSE [p EXCEPT !.proof.jwt = Compact(@)]

=============================================================================
