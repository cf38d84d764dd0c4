--------------------------- MODULE MCIssuerRoutes ---------------------------
(***************************************************************************)
(* Small instances of IssuerRoutes for TLC.                                *)
(***************************************************************************)
EXTENDS IssuerRoutes

CONSTANTS u1, u2

\* Strings, arrays, arrays with blanks in front, and blanks only.
Fields == {<<u1, Blank>>, <<u1, u2>>, <<Blank, u1>>, <<Plain, u1>>, <<Blank, Blank>>}

AField(pair) == [first |-> pair[1], next |-> pair[2]]

JWT(pair) == [jwt |-> AField(pair), attestation |-> Absent]
Both(pair) == [jwt |-> AField(pair), attestation |-> AField(<<u2, Blank>>)]

NoProofs == [i \in {1, 2} |-> Absent]

\* A proof object, with or without an attestation, and lists of proofs, in which
\* the attestation may stand beside another proof's jwt.
MCPayload ==
    {[proof |-> JWT(f), proofs |-> NoProofs] : f \in Fields}
    \union {[proof |-> Both(<<u1, Blank>>), proofs |-> NoProofs],
            [proof |-> Absent, proofs |-> <<JWT(<<u1, u2>>), Absent>>],
            [proof |-> Absent, proofs |-> <<JWT(<<u1, Blank>>), Both(<<u1, Blank>>)>>]}

=============================================================================
