------------------------- MODULE IssuerRoutesProofs -------------------------
(***************************************************************************)
(* Theorems about IssuerRoutes and the shapes of ProofShape, for every set *)
(* of wallets, keys, attestations and payloads.                            *)
(***************************************************************************)
EXTENDS IssuerRoutes, TLAPS

\* A request without a body, and one that was rewritten, are requests.
LEMMA NoBodyShape == NoBody \in Shape
  BY DEF NoBody, Shape

LEMMA NormaliseShape ==
  ASSUME NEW p \in Shape PROVE Normalise(p) \in Shape
<1>1. CASE p.proof = Absent
  BY <1>1 DEF Normalise
<1>2. CASE p.proof # Absent
  <2>1. p.proof \in ProofObject
    BY <1>2 DEF Shape
  <2>2. Compact(p.proof.jwt) \in Field \union {Absent}
    BY <2>1 DEF ProofObject, Field, Element, Compact
  <2>3. [p.proof EXCEPT !.jwt = Compact(@)] \in ProofObject
    BY <2>1, <2>2 DEF ProofObject
  <2>. QED
    BY <1>2, <2>3 DEF Normalise, Shape
<1>. QED
  BY <1>1, <1>2

\* What is taken for a key attestation is a WUA or blank.
LEMMA KeyAttestationType ==
  ASSUME NEW jwt PROVE KeyAttestation(jwt) \in Wua \union {Blank}
  BY DEF KeyAttestation

\* Rewriting the jwt of a body moves neither the place of its attestation nor,
\* when its proof JWT has one, the key attestation there.
LEMMA NormaliseKeeps ==
  ASSUME NEW p \in Shape
  PROVE  /\ ProofMode(Normalise(p)) = ProofMode(p)
         /\ HasKeyAttestation(p) =>
              KeyAttestation(ProofJWT(Normalise(p))) = KeyAttestation(ProofJWT(p))
<1>1. CASE p.proof = Absent
  BY <1>1 DEF Normalise
<1>2. CASE p.proof # Absent
  <2>1. p.proof \in ProofObject
    BY <1>2 DEF Shape
  <2> DEFINE object == [p.proof EXCEPT !.jwt = Compact(@)]
  <2>2. Normalise(p).proof = object
    BY <1>2 DEF Normalise, Shape
  <2>3. object \in ProofObject /\ object.attestation = p.proof.attestation
        /\ object.jwt = Compact(p.proof.jwt)
    <3>1. Compact(p.proof.jwt) \in Field \union {Absent}
      BY <2>1 DEF ProofObject, Field, Element, Compact
    <3>. QED
      BY <2>1, <3>1 DEF ProofObject
  <2>4. object # Absent
    BY <2>3, ShapeAssumption
  <2>5. AttestationField(Normalise(p)) = AttestationField(p)
    BY <1>2, <2>2, <2>3, <2>4 DEF AttestationField
  <2>6. ASSUME HasKeyAttestation(p)
        PROVE  KeyAttestation(ProofJWT(Normalise(p))) = KeyAttestation(ProofJWT(p))
    <3>1. ProofJWT(p) = FirstString(p.proof.jwt)
      BY <1>2 DEF ProofJWT
    <3>2. ProofJWT(Normalise(p)) = FirstString(Compact(p.proof.jwt))
      BY <2>2, <2>3, <2>4 DEF ProofJWT
    <3>3. p.proof.jwt # Absent /\ p.proof.jwt.first # Blank
      BY <2>6, <3>1, ShapeAssumption DEF HasKeyAttestation, KeyAttestation, FirstString
    <3>4. Compact(p.proof.jwt) = p.proof.jwt
      BY <3>3 DEF Compact
    <3>. QED
      BY <3>1, <3>2, <3>4
  <2>. QED
    BY <2>5, <2>6 DEF ProofMode
<1>. QED
  BY <1>1, <1>2

\* What is relayed is never an internal code.
LEMMA RelayedType ==
  ASSUME NEW r \in Reply
  PROVE  Relayed(r) \in [error : {"none"} \union ExternalError, nonce : Nat]
<1>1. Translate(r.error) \in ExternalError
  BY DEF Translate, ExternalError
<1>. QED
  BY <1>1 DEF Relayed, Reply, InternalError, ExternalError, Forwarding

-----------------------------------------------------------------------------
(***************************************************************************)
(* What holds of a call at each of its stages.                             *)
(***************************************************************************)

\* A call that goes to IDAuth came with an attestation, unless it refreshes.
AttestedInv ==
    \A w \in Wallet : pc[w] \in {"txcode", "token"} /\ grant[w] # "refresh_token" =>
        /\ presented[w].wia \in Wallet /\ presented[w].pop = presented[w].wia
        /\ wia[presented[w].wia] # 0

\* Nothing is validated before a context was taken, and what will be validated
\* is what the context was taken for.
ContextInv ==
    \A w \in Wallet :
        /\ pc[w] \in {"idle", "pop", "validate"} => validated[w] = Blank
        /\ pc[w] = "validate" => Validatee(w) = popped[w]
        /\ validated[w] # Blank => validated[w] = popped[w]

\* A context is taken by no call that may end with a token, and by no wallet
\* that has one.
BearerInv ==
    \A w \in Wallet :
        /\ pc[w] \in {"idle", "txcode", "token", "credential", "pop"} => popped[w] = Blank
        /\ pc[w] = "pop" => got[w] # "token"
        /\ pc[w] # "replied" => reply[w] = NoReply
        /\ reply[w].kind = "token" => popped[w] = Blank
        /\ got[w] = "token" => popped[w] = Blank

USE DEF Goto, Refuse, Respond

\* The types of the calls, of what they carry and of what wallets are told: a
\* wallet is never answered with an internal error code.
THEOREM RoutesType == Spec => []TypeOK
<1>1. Init => TypeOK
  BY NoBodyShape, RoutesAssumption
     DEF Init, TypeOK, Grant, Reply, NoReply, NoAnswer, PreAuthorized, Handling
<1>2. TypeOK /\ [Next]_vars => TypeOK'
  <2> SUFFICES ASSUME TypeOK, [Next]_vars PROVE TypeOK'
    OBVIOUS
  <2> USE RoutesAssumption DEF TypeOK, Handling, ExternalError, inputVars, wuaVars
  <2>1. ASSUME NEW w \in Wallet, NEW a \in Wallet \union {Nobody},
               NEW b \in Key \union {Nobody}, NEW code \in {"none", "entered"},
               TokenCall(w, [wia |-> a, pop |-> b], code)
        PROVE  TypeOK'
    <3>1. /\ presented' \in [Wallet -> [wia : Wallet \union {Nobody}, pop : Key \union {Nobody}]]
          /\ tx' \in [Wallet -> {"none", "entered", "0"}]
          /\ UNCHANGED <<clock, inputVars, challenge, wuaVars, reply, redeemed, got>>
      BY <2>1 DEF TokenCall
    <3>2. CASE Refuse(w, "invalid_client")
      BY <3>1, <3>2
    <3>3. ASSUME NEW next \in {"txcode", "token"}, Goto(w, next), UNCHANGED answer
          PROVE  TypeOK'
      BY <3>1, <3>3
    <3>. HIDE DEF TypeOK
    <3>. QED
      BY <2>1, <3>2, <3>3 DEF TokenCall
  <2>2. ASSUME NEW w \in Wallet, OtherGrant(w) PROVE TypeOK'
    BY <2>2 DEF OtherGrant
  <2>3. ASSUME NEW w \in Wallet, InjectTXCode(w) PROVE TypeOK'
    BY <2>3 DEF InjectTXCode
  <2>4. ASSUME NEW w \in Wallet, NEW p \in Payload, NEW dpop \in BOOLEAN,
               CredentialCall(w, p, dpop)
        PROVE  TypeOK'
    <3>1. payload' \in [Wallet -> Shape] /\ UNCHANGED <<clock, inputVars, tx, challenge, popped,
                                                       validated, presented, reply, redeemed, got>>
      BY <2>4 DEF CredentialCall
    <3>2. CASE Goto(w, IF ByWua(p, dpop) THEN "pop" ELSE "credential") /\ UNCHANGED answer
      BY <3>1, <3>2
    <3>3. CASE Refuse(w, "invalid_request")
      BY <3>1, <3>3
    <3>. QED
      BY <2>4, <3>2, <3>3 DEF CredentialCall
  <2>5. ASSUME NEW w \in Wallet, PopContext(w) PROVE TypeOK'
    <3>1. Normalise(payload[w]) \in Shape
      BY NormaliseShape
    <3>2. /\ popped' \in [Wallet -> Wua \union {Blank}] /\ payload' \in [Wallet -> Shape]
          /\ UNCHANGED <<clock, inputVars, tx, challenge, validated, presented, reply,
                         redeemed, got>>
      <4>1. UNCHANGED <<clock, inputVars, tx, challenge, validated, presented, reply,
                        redeemed, got>>
        BY <2>5 DEF PopContext
      <4>2. popped' \in [Wallet -> Wua \union {Blank}]
        <5>1. popped' = popped \/ \E u \in Wua : popped' = [popped EXCEPT ![w] = u]
          BY <2>5 DEF PopContext
        <5>. QED
          BY <5>1
      <4>3. payload' = payload \/ payload' = [payload EXCEPT ![w] = Normalise(@)]
        BY <2>5 DEF PopContext
      <4>. QED
        BY <3>1, <4>1, <4>2, <4>3
    <3>3. CASE Goto(w, "validate") /\ UNCHANGED answer
      BY <3>2, <3>3
    <3>4. ASSUME NEW error \in {"invalid_request", "server_error"}, Refuse(w, error)
          PROVE  TypeOK'
      BY <3>2, <3>4
    <3>. HIDE DEF TypeOK
    <3>. QED
      BY <2>5, <3>3, <3>4 DEF PopContext
  <2>6. ASSUME NEW w \in Wallet, ValidateProof(w) PROVE TypeOK'
    <3>1. Validatee(w) \in Wua \union {Blank}
      BY KeyAttestationType DEF Validatee
    <3>2. ASSUME NEW error \in {"invalid_request", "server_error"}, Refuse(w, error)
          PROVE  TypeOK'
      BY <2>6, <3>1, <3>2 DEF ValidateProof
    <3>3. CASE Goto(w, "wua") /\ UNCHANGED answer
      BY <2>6, <3>1, <3>3 DEF ValidateProof
    <3>. QED
      BY <2>6, <3>1, <3>2, <3>3 DEF ValidateProof
  <2>7. ASSUME NEW w \in Wallet, Serve(w) PROVE TypeOK'
    <3>1. /\ redeemed' \in SUBSET Wallet
          /\ UNCHANGED <<clock, inputVars, tx, challenge, wuaVars, presented, answer, got>>
      BY <2>7 DEF Serve, Grants
    <3>2. ASSUME NEW error \in InternalError, Respond(w, "problem", error, challenge)
          PROVE  TypeOK'
      BY <3>1, <3>2 DEF Reply
    <3>3. CASE Respond(w, "oauth", "use_dpop_nonce", challenge)
      BY <3>1, <3>3 DEF Reply
    <3>4. CASE Respond(w, pc[w], "none", challenge)
      BY <2>7, <3>1, <3>4 DEF Reply, Serve
    <3>. QED
      BY <2>7, <3>2, <3>3, <3>4 DEF Serve, Grants
  <2>8. ASSUME NEW w \in Wallet, ServiceFails(w) PROVE TypeOK'
    <3>1. /\ redeemed' \in SUBSET Wallet
          /\ UNCHANGED <<clock, inputVars, tx, challenge, wuaVars, presented, answer, got>>
      BY <2>8 DEF ServiceFails
    <3>2. CASE Respond(w, "failed", "none", 0)
      BY <3>1, <3>2 DEF Reply
    <3>3. CASE Respond(w, "garbled", "none", challenge)
      BY <3>1, <3>3 DEF Reply
    <3>. QED
      BY <2>8, <3>2, <3>3 DEF ServiceFails
  <2>9. ASSUME NEW w \in Wallet, Relay(w) PROVE TypeOK'
    <3>1. Relayed(reply[w]) \in [error : {"none"} \union ExternalError, nonce : Nat]
      BY RelayedType
    <3>2. NoReply \in Reply
      BY DEF NoReply, Reply
    <3>. QED
      BY <2>9, <3>1, <3>2 DEF Relay
  <2>10. ASSUME NEW w \in Wallet, Read(w) PROVE TypeOK'
    BY <2>10, NoBodyShape DEF Read, NoAnswer
  <2>11. ASSUME NEW w \in Wallet, IssueWia(w) PROVE TypeOK'
    BY <2>11 DEF IssueWia
  <2>12. CASE NewChallenge
    BY <2>12 DEF NewChallenge
  <2>13. CASE Tick
    BY <2>13 DEF Tick
  <2>14. CASE UNCHANGED vars
    BY <2>14 DEF vars
  <2>. HIDE DEF TypeOK
  <2>. QED
    BY <2>1, <2>2, <2>3, <2>4, <2>5, <2>6, <2>7, <2>8, <2>9, <2>10, <2>11, <2>12,
       <2>13, <2>14 DEF Next, Handle
<1>. QED
  BY <1>1, <1>2, PTL DEF Spec

-----------------------------------------------------------------------------
(***************************************************************************)
(* The attestation behind a redeemed grant.                                *)
(***************************************************************************)

LEMMA AttestedStep ==
  ASSUME TypeOK, AttestedInv, [Next]_vars PROVE AttestedInv'
<1> USE DEF TypeOK, AttestedInv, inputVars, wuaVars
<1>1. ASSUME NEW w \in Wallet, NEW a \in Wallet \union {Nobody},
             NEW b \in Key \union {Nobody}, NEW code \in {"none", "entered"},
             TokenCall(w, [wia |-> a, pop |-> b], code)
      PROVE  AttestedInv'
  <2>1. CASE NeedsAttestation(w) /\ ~Attested([wia |-> a, pop |-> b])
    BY <1>1, <2>1 DEF TokenCall
  <2>2. CASE grant[w] = "refresh_token"
    BY <1>1, <2>2 DEF TokenCall, NeedsAttestation
  <2>3. CASE Attested([wia |-> a, pop |-> b])
    <3>1. a \in Wallet /\ b = a /\ wia[a] # 0
      BY <2>3 DEF Attested, ValidWia, ValidPop
    <3>2. presented' = [presented EXCEPT ![w] = [wia |-> a, pop |-> b]] /\ UNCHANGED <<wia, grant>>
          /\ \A v \in Wallet \ {w} : pc'[v] = pc[v]
      BY <1>1 DEF TokenCall
    <3>. QED
      BY <3>1, <3>2
  <2>. QED
    BY <2>1, <2>2, <2>3 DEF NeedsAttestation
<1>2. ASSUME NEW w \in Wallet, OtherGrant(w) PROVE AttestedInv'
  BY <1>2 DEF OtherGrant
<1>3. ASSUME NEW w \in Wallet, InjectTXCode(w) PROVE AttestedInv'
  BY <1>3 DEF InjectTXCode
<1>4. ASSUME NEW w \in Wallet, NEW p \in Payload, NEW dpop \in BOOLEAN,
             CredentialCall(w, p, dpop)
      PROVE  AttestedInv'
  BY <1>4 DEF CredentialCall
<1>5. ASSUME NEW w \in Wallet, PopContext(w) PROVE AttestedInv'
  BY <1>5 DEF PopContext
<1>6. ASSUME NEW w \in Wallet, ValidateProof(w) PROVE AttestedInv'
  BY <1>6 DEF ValidateProof
<1>7. ASSUME NEW w \in Wallet, Serve(w) PROVE AttestedInv'
  BY <1>7 DEF Serve, Grants
<1>8. ASSUME NEW w \in Wallet, ServiceFails(w) PROVE AttestedInv'
  BY <1>8 DEF ServiceFails
<1>9. ASSUME NEW w \in Wallet, Relay(w) PROVE AttestedInv'
  BY <1>9 DEF Relay
<1>10. ASSUME NEW w \in Wallet, Read(w) PROVE AttestedInv'
  BY <1>10 DEF Read
<1>11. ASSUME NEW w \in Wallet, IssueWia(w) PROVE AttestedInv'
  BY <1>11, RoutesAssumption DEF IssueWia
<1>12. CASE NewChallenge
  BY <1>12 DEF NewChallenge
<1>13. CASE Tick
  BY <1>13 DEF Tick
<1>14. CASE UNCHANGED vars
  BY <1>14 DEF vars
<1> HIDE DEF AttestedInv, TypeOK
<1>. QED
  BY <1>1, <1>2, <1>3, <1>4, <1>5, <1>6, <1>7, <1>8, <1>9, <1>10, <1>11, <1>12,
     <1>13, <1>14 DEF Next, Handle

\* A grant other than a refresh token is redeemed only for a call that came with
\* a wallet instance attestation and a PoP of the key it binds.
THEOREM RoutesRedeemedAttested == Spec => RedeemedAttested
<1>1. Init => AttestedInv
  BY DEF Init, AttestedInv
<1>2. ASSUME TypeOK, AttestedInv, [Next]_vars
      PROVE  \A w \in redeemed' \ redeemed : grant[w] # "refresh_token" =>
                /\ presented[w].wia \in Wallet /\ presented[w].pop = presented[w].wia
                /\ wia[presented[w].wia] # 0
  <2>1. ASSUME NEW v \in Wallet, Serve(v) \/ ServiceFails(v), NEW w \in redeemed' \ redeemed
        PROVE  w \in Wallet /\ pc[w] = "token"
    BY <2>1 DEF Serve, ServiceFails, Grants
  <2>2. ASSUME ~\E v \in Wallet : Serve(v) \/ ServiceFails(v) PROVE redeemed' = redeemed
    BY <1>2, <2>2 DEF Next, Handle, vars, TokenCall, OtherGrant, InjectTXCode, CredentialCall,
       PopContext, ValidateProof, Relay, Read, IssueWia, NewChallenge, Tick
  <2>. QED
    BY <1>2, <2>1, <2>2 DEF AttestedInv
<1>. QED
  BY <1>1, <1>2, RoutesType, AttestedStep, PTL DEF Spec, RedeemedAttested

-----------------------------------------------------------------------------
(***************************************************************************)
(* The context that is taken, and the attestation that is validated.       *)
(***************************************************************************)

LEMMA ContextStep ==
  ASSUME TypeOK, ContextInv, [Next]_vars PROVE ContextInv'
<1> USE DEF TypeOK, ContextInv, Validatee, wuaVars
<1>1. ASSUME NEW w \in Wallet, NEW a \in Wallet \union {Nobody},
             NEW b \in Key \union {Nobody}, NEW code \in {"none", "entered"},
             TokenCall(w, [wia |-> a, pop |-> b], code)
      PROVE  ContextInv'
  BY <1>1 DEF TokenCall
<1>2. ASSUME NEW w \in Wallet, OtherGrant(w) PROVE ContextInv'
  BY <1>2 DEF OtherGrant
<1>3. ASSUME NEW w \in Wallet, InjectTXCode(w) PROVE ContextInv'
  BY <1>3 DEF InjectTXCode
<1>4. ASSUME NEW w \in Wallet, NEW p \in Payload, NEW dpop \in BOOLEAN,
             CredentialCall(w, p, dpop)
      PROVE  ContextInv'
  BY <1>4 DEF CredentialCall
<1>5. ASSUME NEW w \in Wallet, PopContext(w) PROVE ContextInv'
  <2> DEFINE key == AccessContextKey(payload[w])
  <2>1. CASE pc' = [pc EXCEPT ![w] = "validate"]
    <3>1. /\ key \in Wua /\ popped' = [popped EXCEPT ![w] = key]
          /\ payload' = [payload EXCEPT ![w] = Normalise(payload[w])] /\ validated' = validated
      BY <1>5, <2>1 DEF PopContext
    <3>2. payload[w] \in Shape
      OBVIOUS
    <3>3. ProofMode(payload'[w]) = ProofMode(payload[w])
      BY <3>1, <3>2, NormaliseKeeps
    <3>4. ASSUME ProofMode(payload[w]) = "jwt"
          PROVE  KeyAttestation(ProofJWT(payload'[w])) = key
      <4>1. key = KeyAttestation(ProofJWT(payload[w]))
        BY <3>4 DEF AccessContextKey
      <4>2. HasKeyAttestation(payload[w])
        BY <3>1, <4>1, ShapeAssumption DEF HasKeyAttestation
      <4>. QED
        BY <3>1, <3>2, <4>1, <4>2, NormaliseKeeps
    <3>5. Validatee(w)' = popped'[w]
      BY <3>1, <3>3, <3>4
    <3>. HIDE DEF Validatee, key
    <3>6. validated[w] = Blank /\ pc'[w] = "validate"
      BY <1>5, <2>1 DEF PopContext
    <3>7. ASSUME NEW v \in Wallet \ {w}
          PROVE  /\ pc'[v] = pc[v] /\ popped'[v] = popped[v] /\ payload'[v] = payload[v]
      BY <2>1, <3>1
    <3>. QED
      BY <3>1, <3>5, <3>6, <3>7 DEF Validatee
  <2>2. CASE pc'[w] = "answered"
    <3>1. /\ validated[w] = Blank /\ validated' = validated
          /\ \A v \in Wallet \ {w} : popped'[v] = popped[v] /\ payload'[v] = payload[v]
                                    /\ pc'[v] = pc[v]
      BY <1>5 DEF PopContext
    <3>. QED
      BY <2>2, <3>1
  <2>. QED
    BY <1>5, <2>1, <2>2 DEF PopContext
<1>6. ASSUME NEW w \in Wallet, ValidateProof(w) PROVE ContextInv'
  <2>1. pc[w] = "validate" /\ validated' = [validated EXCEPT ![w] = Validatee(w)]
        /\ UNCHANGED <<payload, popped>> /\ pc'[w] \in {"wua", "answered"}
        /\ \A v \in Wallet \ {w} : pc'[v] = pc[v]
    BY <1>6 DEF ValidateProof
  <2>. QED
    BY <2>1
<1>7. ASSUME NEW w \in Wallet, Serve(w) PROVE ContextInv'
  BY <1>7 DEF Serve, Grants
<1>8. ASSUME NEW w \in Wallet, ServiceFails(w) PROVE ContextInv'
  BY <1>8 DEF ServiceFails
<1>9. ASSUME NEW w \in Wallet, Relay(w) PROVE ContextInv'
  BY <1>9 DEF Relay
<1>10. ASSUME NEW w \in Wallet, Read(w) PROVE ContextInv'
  BY <1>10 DEF Read
<1>11. ASSUME NEW w \in Wallet, IssueWia(w) PROVE ContextInv'
  BY <1>11 DEF IssueWia
<1>12. CASE NewChallenge
  BY <1>12 DEF NewChallenge
<1>13. CASE Tick
  BY <1>13 DEF Tick
<1>14. CASE UNCHANGED vars
  BY <1>14 DEF vars
<1> HIDE DEF ContextInv, TypeOK, Validatee
<1>. QED
  BY <1>1, <1>2, <1>3, <1>4, <1>5, <1>6, <1>7, <1>8, <1>9, <1>10, <1>11, <1>12,
     <1>13, <1>14 DEF Next, Handle

LEMMA BearerStep ==
  ASSUME TypeOK, BearerInv, [Next]_vars PROVE BearerInv'
<1> USE DEF TypeOK, BearerInv, inputVars, wuaVars
<1>1. ASSUME NEW w \in Wallet, NEW a \in Wallet \union {Nobody},
             NEW b \in Key \union {Nobody}, NEW code \in {"none", "entered"},
             TokenCall(w, [wia |-> a, pop |-> b], code)
      PROVE  BearerInv'
  BY <1>1 DEF TokenCall
<1>2. ASSUME NEW w \in Wallet, OtherGrant(w) PROVE BearerInv'
  BY <1>2 DEF OtherGrant
<1>3. ASSUME NEW w \in Wallet, InjectTXCode(w) PROVE BearerInv'
  BY <1>3 DEF InjectTXCode
<1>4. ASSUME NEW w \in Wallet, NEW p \in Payload, NEW dpop \in BOOLEAN,
             CredentialCall(w, p, dpop)
      PROVE  BearerInv'
  <2>1. /\ pc[w] = "idle" /\ pc'[w] \in {"pop", "credential", "answered"}
        /\ pc'[w] = "pop" => got[w] # "token"
        /\ UNCHANGED <<popped, reply, got>> /\ \A v \in Wallet \ {w} : pc'[v] = pc[v]
    BY <1>4 DEF CredentialCall, ByWua
  <2>. QED
    BY <2>1
<1>5. ASSUME NEW w \in Wallet, PopContext(w) PROVE BearerInv'
  <2>1. /\ pc[w] = "pop" /\ pc'[w] \in {"validate", "answered"}
        /\ UNCHANGED <<reply, got>>
        /\ \A v \in Wallet \ {w} : pc'[v] = pc[v] /\ popped'[v] = popped[v]
    BY <1>5 DEF PopContext
  <2>2. reply[w].kind # "token" /\ got[w] # "token"
    BY <2>1 DEF NoReply
  <2>. QED
    BY <2>1, <2>2
<1>6. ASSUME NEW w \in Wallet, ValidateProof(w) PROVE BearerInv'
  <2>1. /\ pc[w] = "validate" /\ pc'[w] \in {"wua", "answered"}
        /\ UNCHANGED <<popped, reply, got>> /\ \A v \in Wallet \ {w} : pc'[v] = pc[v]
    BY <1>6 DEF ValidateProof
  <2>. QED
    BY <2>1
<1>7. ASSUME NEW w \in Wallet, Serve(w) PROVE BearerInv'
  <2>1. /\ pc'[w] = "replied" /\ reply'[w].kind \in {"oauth", "problem", pc[w]}
        /\ UNCHANGED <<popped, got>>
        /\ \A v \in Wallet \ {w} : pc'[v] = pc[v] /\ reply'[v] = reply[v]
    BY <1>7 DEF Serve, Grants
  <2>. QED
    BY <2>1
<1>8. ASSUME NEW w \in Wallet, ServiceFails(w) PROVE BearerInv'
  <2>1. /\ pc'[w] = "replied" /\ reply'[w].kind \in {"failed", "garbled"}
        /\ UNCHANGED <<popped, got>>
        /\ \A v \in Wallet \ {w} : pc'[v] = pc[v] /\ reply'[v] = reply[v]
    BY <1>8 DEF ServiceFails
  <2>. QED
    BY <2>1
<1>9. ASSUME NEW w \in Wallet, Relay(w) PROVE BearerInv'
  <2>1. /\ pc[w] = "replied" /\ pc'[w] = "answered" /\ reply'[w] = NoReply
        /\ got'[w] = "token" => reply[w].kind = "token" \/ got[w] = "token"
        /\ popped' = popped
        /\ \A v \in Wallet \ {w} : pc'[v] = pc[v] /\ reply'[v] = reply[v] /\ got'[v] = got[v]
    BY <1>9 DEF Relay
  <2>. QED
    BY <2>1 DEF NoReply
<1>10. ASSUME NEW w \in Wallet, Read(w) PROVE BearerInv'
  BY <1>10 DEF Read
<1>11. ASSUME NEW w \in Wallet, IssueWia(w) PROVE BearerInv'
  BY <1>11 DEF IssueWia
<1>12. CASE NewChallenge
  BY <1>12 DEF NewChallenge
<1>13. CASE Tick
  BY <1>13 DEF Tick
<1>14. CASE UNCHANGED vars
  BY <1>14 DEF vars
<1> HIDE DEF BearerInv, TypeOK
<1>. QED
  BY <1>1, <1>2, <1>3, <1>4, <1>5, <1>6, <1>7, <1>8, <1>9, <1>10, <1>11, <1>12,
     <1>13, <1>14 DEF Next, Handle

LEMMA BearerInvariant == Spec => []BearerInv
<1>1. Init => BearerInv
  BY DEF Init, BearerInv, NoReply
<1>. QED
  BY <1>1, RoutesType, BearerStep, PTL DEF Spec

\* The WUA that is validated is the one whose context was taken, for every shape
\* a request can have.
THEOREM RoutesContextOfValidated == Spec => []ContextOfValidated
<1>1. Init => ContextInv
  BY DEF Init, ContextInv
<1>2. ContextInv => ContextOfValidated
  BY DEF ContextInv, ContextOfValidated
<1>. QED
  BY <1>1, <1>2, RoutesType, ContextStep, PTL DEF Spec

-----------------------------------------------------------------------------
(***************************************************************************)
(* Nonces for DPoP proofs.  What a wallet knows is no newer than what the  *)
(* services ask for, and what is on its way to it is no older than what it *)
(* knows, or is no nonce at all.                                           *)
(***************************************************************************)

Newer(w, nonce) == nonce = 0 \/ (known[w] <= nonce /\ nonce <= challenge)

NonceOf(w) ==
    /\ known[w] <= challenge
    /\ Newer(w, reply[w].nonce)
    /\ Newer(w, answer[w].nonce)
    /\ reply[w].kind = "oauth" => reply[w].nonce > known[w]
    /\ reply[w].error = "use_dpop_nonce" => reply[w].kind = "oauth"
    /\ answer[w].error = "use_dpop_nonce" => answer[w].nonce > known[w]

NonceInv == challenge > 0 /\ \A w \in Wallet : NonceOf(w)

\* No answer takes a wallet back to an older nonce.
NonceNeverOlder == [][\A w \in Wallet : known'[w] >= known[w]]_vars

\* What is relayed carries the nonce of the reply, or none; a challenge carries it.
LEMMA RelayedNonce ==
  ASSUME NEW r \in Reply
  PROVE  /\ Relayed(r).nonce \in {0, r.nonce}
         /\ Relayed(r).error = "use_dpop_nonce" =>
               (r.kind = "oauth" \/ r.error = "use_dpop_nonce") /\ Relayed(r).nonce = r.nonce
<1>1. Translate(r.error) # "use_dpop_nonce"
  BY Zenon DEF Translate
<1>2. CASE r.kind = "problem"
  BY <1>1, <1>2 DEF Relayed
<1>3. CASE r.kind = "oauth"
  BY <1>3 DEF Relayed
<1>4. CASE r.kind = "wua"
  BY <1>4 DEF Relayed
<1>5. CASE r.kind \in {"token", "credential"}
  BY <1>5 DEF Relayed
<1>6. CASE r.kind \in {"none", "garbled", "failed"}
  BY <1>6 DEF Relayed
<1>. QED
  BY <1>2, <1>3, <1>4, <1>5, <1>6 DEF Reply, Forwarding

LEMMA NonceStep ==
  ASSUME TypeOK, BearerInv, NonceInv, [Next]_vars PROVE NonceInv'
<1>a. /\ challenge \in Nat /\ challenge > 0
      /\ known \in [Wallet -> Nat] /\ reply \in [Wallet -> Reply]
      /\ answer \in [Wallet -> [error : {"none"} \union ExternalError, nonce : Nat]]
      /\ \A v \in Wallet : NonceOf(v)
  BY DEF TypeOK, NonceInv
<1>b. \A v \in Wallet : known[v] \in Nat /\ reply[v].nonce \in Nat /\ answer[v].nonce \in Nat
  BY <1>a DEF Reply
\* A step that changes nothing but one answer, by a refusal, keeps it all.
<1>1. ASSUME NEW w \in Wallet, UNCHANGED <<challenge, known, reply>>,
             \/ UNCHANGED answer
             \/ \E error : error # "use_dpop_nonce" /\ Refuse(w, error)
      PROVE  NonceInv'
  <2>1. \A v \in Wallet : \/ answer'[v] = answer[v]
                          \/ answer'[v].nonce = 0 /\ answer'[v].error # "use_dpop_nonce"
    BY <1>1, <1>a
  <2>2. ASSUME NEW v \in Wallet PROVE NonceOf(v)'
    BY <1>1, <1>a, <2>1 DEF NonceOf, Newer
  <2>. QED
    BY <1>1, <1>a, <2>2 DEF NonceInv
<1>2. ASSUME NEW w \in Wallet, NEW a \in Wallet \union {Nobody},
             NEW b \in Key \union {Nobody}, NEW code \in {"none", "entered"},
             TokenCall(w, [wia |-> a, pop |-> b], code)
      PROVE  NonceInv'
  <2>1. /\ UNCHANGED <<challenge, known, reply>>
        /\ UNCHANGED answer \/ Refuse(w, "invalid_client")
    BY <1>2, Zenon DEF TokenCall, inputVars
  <2>. QED
    BY <1>1, <2>1
<1>3. ASSUME NEW w \in Wallet, OtherGrant(w) PROVE NonceInv'
  <2>1. UNCHANGED <<challenge, known, reply>> /\ Refuse(w, "unsupported_grant_type")
    BY <1>3, Zenon DEF OtherGrant, inputVars
  <2>. QED
    BY <1>1, <2>1
<1>4. ASSUME NEW w \in Wallet, InjectTXCode(w) PROVE NonceInv'
  <2>1. UNCHANGED <<challenge, known, reply, answer>>
    BY <1>4, Zenon DEF InjectTXCode, inputVars
  <2>. QED
    BY <1>1, <2>1
<1>5. ASSUME NEW w \in Wallet, NEW p \in Payload, NEW dpop \in BOOLEAN,
             CredentialCall(w, p, dpop)
      PROVE  NonceInv'
  <2>1. /\ UNCHANGED <<challenge, known, reply>>
        /\ UNCHANGED answer \/ Refuse(w, "invalid_request")
    BY <1>5, Zenon DEF CredentialCall, inputVars
  <2>. QED
    BY <1>1, <2>1
<1>6. ASSUME NEW w \in Wallet, PopContext(w) PROVE NonceInv'
  <2>1. /\ UNCHANGED <<challenge, known, reply>>
        /\ UNCHANGED answer \/ Refuse(w, "invalid_request") \/ Refuse(w, "server_error")
    BY <1>6, Zenon DEF PopContext, inputVars
  <2>. QED
    BY <1>1, <2>1
<1>7. ASSUME NEW w \in Wallet, ValidateProof(w) PROVE NonceInv'
  <2>1. /\ UNCHANGED <<challenge, known, reply>>
        /\ UNCHANGED answer \/ \E error \in {"invalid_request", "server_error"} : Refuse(w, error)
    BY <1>7, Zenon DEF ValidateProof, inputVars
  <2>. QED
    BY <1>1, <2>1
<1>8. ASSUME NEW w \in Wallet, Serve(w) \/ ServiceFails(w) PROVE NonceInv'
  <2>1. /\ UNCHANGED <<challenge, known, answer>>
        /\ \/ Respond(w, "oauth", "use_dpop_nonce", challenge) /\ known[w] # challenge
           \/ \E kind, error, nonce : /\ Respond(w, kind, error, nonce)
                                      /\ kind # "oauth" /\ error # "use_dpop_nonce"
                                      /\ nonce \in {0, challenge}
    <3>1. Serve(w) => UNCHANGED <<challenge, known, answer>> /\
             (\/ Respond(w, "oauth", "use_dpop_nonce", challenge) /\ known[w] # challenge
              \/ Respond(w, pc[w], "none", challenge) /\ pc[w] # "oauth"
              \/ \E error \in InternalError : Respond(w, "problem", error, challenge))
      BY DEF Serve, Grants, inputVars, Forwarding
    <3>2. ServiceFails(w) => UNCHANGED <<challenge, known, answer>> /\
             (Respond(w, "failed", "none", 0) \/ Respond(w, "garbled", "none", challenge))
      BY Zenon DEF ServiceFails, inputVars
    <3>3. "use_dpop_nonce" \notin InternalError
      BY DEF InternalError
    <3>. HIDE DEF Respond
    <3>. QED
      BY <1>8, <3>1, <3>2, <3>3
  <2>2. \A v \in Wallet :
           \/ reply'[v] = reply[v]
           \/ reply'[v].kind = "oauth" /\ reply'[v].nonce = challenge /\ known[v] # challenge
           \/ /\ reply'[v].kind # "oauth" /\ reply'[v].error # "use_dpop_nonce"
              /\ reply'[v].nonce \in {0, challenge}
    BY <2>1, <1>a
  <2>3. ASSUME NEW v \in Wallet PROVE NonceOf(v)'
    <3>a. /\ NonceOf(v) /\ known[v] \in Nat /\ challenge \in Nat /\ challenge > 0
          /\ answer'[v] = answer[v] /\ known'[v] = known[v] /\ challenge' = challenge
      BY <2>1, <1>a, <1>b
    <3>1. CASE reply'[v] = reply[v]
      BY <3>a, <3>1 DEF NonceOf, Newer
    <3>2. CASE reply'[v].kind = "oauth" /\ reply'[v].nonce = challenge /\ known[v] # challenge
      BY <3>a, <3>2 DEF NonceOf, Newer
    <3>3. CASE /\ reply'[v].kind # "oauth" /\ reply'[v].error # "use_dpop_nonce"
               /\ reply'[v].nonce \in {0, challenge}
      BY <3>a, <3>3 DEF NonceOf, Newer
    <3>. QED
      BY <2>2, <3>1, <3>2, <3>3
  <2>. QED
    BY <2>1, <1>a, <2>3 DEF NonceInv
<1>9. ASSUME NEW w \in Wallet, Relay(w) PROVE NonceInv'
  <2>1. /\ UNCHANGED <<challenge, known>>
        /\ answer' = [answer EXCEPT ![w] = Relayed(reply[w])]
        /\ reply' = [reply EXCEPT ![w] = NoReply]
    BY <1>9, Zenon DEF Relay, inputVars
  <2>2. /\ answer'[w].nonce \in {0, reply[w].nonce}
        /\ answer'[w].error = "use_dpop_nonce" => answer'[w].nonce > known[w]
    <3>1. /\ Relayed(reply[w]).nonce \in {0, reply[w].nonce}
          /\ Relayed(reply[w]).error = "use_dpop_nonce" =>
                /\ reply[w].kind = "oauth" \/ reply[w].error = "use_dpop_nonce"
                /\ Relayed(reply[w]).nonce = reply[w].nonce
      BY <1>a, RelayedNonce
    <3>2. answer'[w] = Relayed(reply[w])
      BY <2>1, <1>a
    <3>. QED
      BY <3>1, <3>2, <1>a DEF NonceOf
  <2>3. reply'[w].kind = "none" /\ reply'[w].error = "none" /\ reply'[w].nonce = 0
    BY <2>1, <1>a DEF NoReply
  <2>4. \A v \in Wallet \ {w} : answer'[v] = answer[v] /\ reply'[v] = reply[v]
    BY <2>1, <1>a
  <2>5. ASSUME NEW v \in Wallet PROVE NonceOf(v)'
    BY <2>1, <2>2, <2>3, <2>4, <1>a, <1>b DEF NonceOf, Newer
  <2>. QED
    BY <2>1, <1>a, <2>5 DEF NonceInv
<1>10. ASSUME NEW w \in Wallet, Read(w) PROVE NonceInv'
  <2>1. /\ UNCHANGED <<challenge, reply>>
        /\ known' = [known EXCEPT ![w] = IF answer[w].nonce > 0 THEN answer[w].nonce ELSE @]
        /\ answer' = [answer EXCEPT ![w] = NoAnswer]
        /\ pc[w] = "answered"
    BY <1>10, Zenon DEF Read
  <2>2. /\ \A v \in Wallet \ {w} : known'[v] = known[v] /\ answer'[v] = answer[v]
        /\ known'[w] = IF answer[w].nonce > 0 THEN answer[w].nonce ELSE known[w]
        /\ answer'[w].nonce = 0 /\ answer'[w].error = "none"
    BY <2>1, <1>a DEF NoAnswer
  <2>3. reply'[w].nonce = 0 /\ reply'[w].kind = "none" /\ reply'[w].error = "none"
    BY <2>1 DEF BearerInv, NoReply
  <2>4. ASSUME NEW v \in Wallet PROVE NonceOf(v)'
    <3>1. CASE v = w
      BY <2>1, <2>2, <2>3, <1>a, <1>b, <3>1 DEF NonceOf, Newer
    <3>2. CASE v # w
      BY <2>1, <2>2, <1>a, <1>b, <3>2 DEF NonceOf, Newer
    <3>. QED
      BY <3>1, <3>2
  <2>. QED
    BY <2>1, <1>a, <2>4 DEF NonceInv
<1>11. CASE NewChallenge
  <2>1. challenge' = challenge + 1 /\ UNCHANGED <<known, reply, answer>>
    BY <1>11, Zenon DEF NewChallenge, inputVars
  <2>2. ASSUME NEW v \in Wallet PROVE NonceOf(v)'
    BY <2>1, <1>a, <1>b DEF NonceOf, Newer
  <2>. QED
    BY <2>1, <2>2, <1>a DEF NonceInv
<1>12. CASE UNCHANGED <<challenge, known, reply, answer>>
  BY <1>12 DEF NonceInv, NonceOf, Newer
<1>13. ASSUME NEW w \in Wallet, IssueWia(w) PROVE UNCHANGED <<challenge, known, reply, answer>>
  BY <1>13, Zenon DEF IssueWia
<1>14. Tick \/ UNCHANGED vars => UNCHANGED <<challenge, known, reply, answer>>
  BY Zenon DEF Tick, vars, inputVars
<1>. HIDE DEF NonceInv, TypeOK
<1>. QED
  BY <1>2, <1>3, <1>4, <1>5, <1>6, <1>7, <1>8, <1>9, <1>10, <1>11, <1>12, <1>13, <1>14
     DEF Next, Handle

LEMMA NonceInvariant == Spec => []NonceInv
<1>1. Init => NonceInv
  BY RoutesAssumption DEF Init, NonceInv, NonceOf, Newer, NoReply, NoAnswer
<1>. QED
  BY <1>1, RoutesType, BearerInvariant, NonceStep, PTL DEF Spec

\* A wallet that is told to use a nonce is told a nonce it did not know: it is never
\* left to try again with the one that was refused.
THEOREM RoutesChallengeTeaches == Spec => []ChallengeTeaches
<1>1. NonceInv => ChallengeTeaches
  BY DEF NonceInv, NonceOf, ChallengeTeaches
<1>. QED
  BY <1>1, NonceInvariant, PTL

THEOREM RoutesNonceNeverOlder == Spec => NonceNeverOlder
<1>1. ASSUME TypeOK, NonceInv, [Next]_vars, NEW w \in Wallet PROVE known'[w] >= known[w]
  <2>1. ASSUME NEW v \in Wallet, Read(v) PROVE known'[w] >= known[w]
    <3>1. known' = [known EXCEPT ![v] = IF answer[v].nonce > 0 THEN answer[v].nonce ELSE @]
      BY <2>1, Zenon DEF Read
    <3>2. known \in [Wallet -> Nat] /\ Newer(v, answer[v].nonce) /\ answer[v].nonce \in Nat
      BY <1>1 DEF TypeOK, NonceInv, NonceOf
    <3>. QED
      BY <3>1, <3>2 DEF Newer
  <2>2. CASE UNCHANGED known
    BY <1>1, <2>2 DEF TypeOK
  <2>3. (\E v \in Wallet : Read(v)) \/ UNCHANGED known
    BY <1>1, Zenon DEF Next, Handle, Serve, ServiceFails, vars, TokenCall, OtherGrant, InjectTXCode,
       CredentialCall, PopContext, ValidateProof, Relay, IssueWia, NewChallenge, Tick, inputVars
  <2>. QED
    BY <2>1, <2>2, <2>3
<1>2. TypeOK /\ NonceInv /\ [Next]_vars => [\A w \in Wallet : known'[w] >= known[w]]_vars
  BY <1>1
<1>. QED
  BY <1>2, RoutesType, NonceInvariant, PTL DEF Spec, NonceNeverOlder

-----------------------------------------------------------------------------
(***************************************************************************)
(* Transaction codes.                                                      *)
(***************************************************************************)

\* A code that the wallet has entered goes to IDAuth as it is: the zero of an empty
\* cache only ever takes the place of no code, for a grant that asks for one.
EnteredCodeKept ==
    [][\A w \in Wallet : tx'[w] = "0" /\ tx[w] # "0" =>
          tx[w] = "none" /\ grant[w] = PreAuthorized]_vars

CodeMissing ==
    \A w \in Wallet : pc[w] = "txcode" => tx[w] = "none" /\ grant[w] = PreAuthorized

LEMMA CodeStep ==
  ASSUME TypeOK, CodeMissing, [Next]_vars PROVE CodeMissing'
<1>1. ASSUME NEW w \in Wallet, NEW a \in Wallet \union {Nobody},
             NEW b \in Key \union {Nobody}, NEW code \in {"none", "entered"},
             TokenCall(w, [wia |-> a, pop |-> b], code)
      PROVE  CodeMissing'
  <2>1. /\ tx' = [tx EXCEPT ![w] = code] /\ UNCHANGED grant
        /\ \/ Goto(w, "answered")
           \/ Goto(w, IF grant[w] = PreAuthorized /\ code = "none" THEN "txcode" ELSE "token")
    BY <1>1, Zenon DEF TokenCall, inputVars
  <2>. QED
    BY <2>1 DEF CodeMissing, TypeOK
<1>2. ASSUME NEW w \in Wallet, NEW next, next # "txcode", Goto(w, next), UNCHANGED grant,
             \A v \in Wallet \ {w} : tx'[v] = tx[v]
      PROVE  CodeMissing'
  BY <1>2 DEF CodeMissing, TypeOK
<1>3. ASSUME NEW w \in Wallet, InjectTXCode(w) \/ Read(w) PROVE CodeMissing'
  <2>1. /\ Goto(w, "token") \/ Goto(w, "idle")
        /\ UNCHANGED grant
        /\ \A v \in Wallet \ {w} : tx'[v] = tx[v]
    BY <1>3 DEF InjectTXCode, Read, inputVars, TypeOK
  <2>. HIDE DEF Goto
  <2>. QED
    BY <1>2, <2>1
<1>4. ASSUME NEW w \in Wallet,
             \/ OtherGrant(w) \/ PopContext(w) \/ ValidateProof(w) \/ Relay(w)
             \/ Serve(w) \/ ServiceFails(w)
             \/ \E p \in Payload, dpop \in BOOLEAN : CredentialCall(w, p, dpop)
      PROVE  CodeMissing'
  <2>1. /\ UNCHANGED <<grant, tx>>
        /\ \E next \in {"answered", "validate", "wua", "replied", "pop", "credential"} : Goto(w, next)
    BY <1>4 DEF OtherGrant, PopContext, ValidateProof, Relay, Serve, Grants, ServiceFails,
       CredentialCall, inputVars
  <2>. HIDE DEF Goto
  <2>. QED
    BY <1>2, <2>1
<1>5. CASE UNCHANGED <<grant, tx, pc>>
  BY <1>5 DEF CodeMissing
<1>6. \A w \in Wallet : IssueWia(w) => UNCHANGED <<grant, tx, pc>>
  BY Zenon DEF IssueWia
<1>7. NewChallenge \/ Tick \/ UNCHANGED vars => UNCHANGED <<grant, tx, pc>>
  BY Zenon DEF NewChallenge, Tick, vars, inputVars
<1>. QED
  BY <1>1, <1>3, <1>4, <1>5, <1>6, <1>7 DEF Next, Handle

THEOREM RoutesEnteredCodeKept == Spec => EnteredCodeKept
<1>1. Init => CodeMissing
  BY DEF Init, CodeMissing
<1>2. ASSUME TypeOK, CodeMissing, [Next]_vars, NEW w \in Wallet, tx'[w] = "0", tx[w] # "0"
      PROVE  tx[w] = "none" /\ grant[w] = PreAuthorized
  <2>1. ASSUME NEW v \in Wallet, InjectTXCode(v) PROVE v = w /\ pc[w] = "txcode"
    BY <1>2, <2>1 DEF InjectTXCode, TypeOK
  <2>2. ASSUME NEW v \in Wallet, NEW a \in Wallet \union {Nobody},
               NEW b \in Key \union {Nobody}, NEW code \in {"none", "entered"}
        PROVE  ~TokenCall(v, [wia |-> a, pop |-> b], code)
    BY <1>2, <2>2 DEF TokenCall, TypeOK
  <2>3. ASSUME NEW v \in Wallet PROVE ~Read(v)
    BY <1>2, <2>3 DEF Read, TypeOK
  <2>4. \E v \in Wallet : InjectTXCode(v)
    <3>1. tx' # tx
      BY <1>2
    <3>. QED
      BY <1>2, <2>2, <2>3, <3>1, Zenon
         DEF Next, Handle, Serve, ServiceFails, vars, OtherGrant, CredentialCall, PopContext,
             ValidateProof, Relay, IssueWia, NewChallenge, Tick, inputVars
  <2>. QED
    BY <1>2, <2>1, <2>4 DEF CodeMissing
<1>3. TypeOK /\ CodeMissing /\ [Next]_vars =>
        [\A w \in Wallet : tx'[w] = "0" /\ tx[w] # "0" =>
            tx[w] = "none" /\ grant[w] = PreAuthorized]_vars
  BY <1>2
<1>. QED
  BY <1>1, <1>3, RoutesType, CodeStep, PTL DEF Spec, EnteredCodeKept

=============================================================================
