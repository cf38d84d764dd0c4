---------------------------- MODULE IssuerRoutes ----------------------------
(***************************************************************************)
(* POST /token and POST /credential: the service stands between wallets    *)
(* and the two services that answer them, IDAuth and the issuer.           *)
(*                                                                         *)
(* A wallet redeems a grant at /token and then asks for a credential at    *)
(* /credential, with a DPoP proof; or it presents a wallet unit            *)
(* attestation and no DPoP proof.  The handlers check what they must,      *)
(* forward the request, and relay the answer.  The service behind may      *)
(* challenge a DPoP proof with a nonce, with which the wallet tries again. *)
(*                                                                         *)
(* The services and the wallets are modelled by what the handlers are      *)
(* written for.  One counter stands for the nonces of both services.       *)
(***************************************************************************)
EXTENDS Integers, ProofShape

CONSTANTS
    Wallet,         \* each wallet has a key, a grant and one call at a time
    Key,            \* the keys of the wallets, and others
    Nobody,         \* no attestation, no PoP
    Payload,        \* shapes of credential requests
    Lifetime,       \* of a wallet instance attestation (a day)
    MaxClock,       \* bound on the clock
    MaxChallenge    \* bound on the nonces the services go through

ASSUME RoutesAssumption ==
    /\ Wallet \subseteq Key /\ Nobody \notin Key
    /\ Payload \subseteq Shape
    /\ Lifetime \in Nat \ {0}
    /\ MaxClock \in Nat
    /\ MaxChallenge \in Nat

PreAuthorized == "pre-authorized_code"
Grant == {PreAuthorized, "authorization_code", "refresh_token"}

VARIABLES
    clock,
    wia,        \* wia[w]: when the attestation of w's key expires; 0 without one
    grant,      \* grant[w]: the type of w's grant
    tx,         \* tx[w]: the transaction code in w's call
    challenge,  \* the DPoP nonce the services ask for
    known,      \* known[w]: the latest nonce w has been told
    pc,         \* where w's call stands
    presented,  \* whose attestation and whose PoP w's token call presents
    payload,    \* the body of w's credential call
    popped,     \* the WUA whose context the call has taken
    validated,  \* the WUA ValidateWUA was given
    reply,      \* what the service behind answered
    answer,     \* what the wallet was answered
    redeemed,   \* wallets whose grant IDAuth has redeemed
    got         \* what each wallet has got so far

inputVars == <<wia, grant, known>>
wuaVars == <<payload, popped, validated>>
vars == <<clock, inputVars, tx, challenge, wuaVars, pc, presented, reply, answer, redeemed, got>>

Handling == {"txcode", "token", "credential", "pop", "validate", "wua"}
Forwarding == {"token", "credential", "wua"}

InternalError == {"preAuthTXCodeInvalid", "proofInvalid", "notYetMapped"}
ExternalError == {"use_dpop_nonce", "invalid_grant", "invalid_proof", "server_error",
                  "invalid_client", "invalid_request", "unsupported_grant_type"}

\* The answer of a service is a success for one of the calls, an RFC 9457
\* problem, an OAuth error, something else, or does not arrive.
Reply ==
    [kind : {"problem"}, error : InternalError, nonce : Nat]
    \union [kind : {"none", "oauth", "garbled", "failed"} \union Forwarding,
            error : {"none", "use_dpop_nonce"}, nonce : Nat]

NoBody == [proof |-> Absent, proofs |-> [i \in {1, 2} |-> Absent]]
NoReply == [kind |-> "none", error |-> "none", nonce |-> 0]
NoAnswer == [error |-> "none", nonce |-> 0]

TypeOK ==
    /\ clock \in Nat
    /\ wia \in [Wallet -> Nat]
    /\ grant \in [Wallet -> Grant]
    /\ tx \in [Wallet -> {"none", "entered", "0"}]
    /\ challenge \in Nat
    /\ known \in [Wallet -> Nat]
    /\ pc \in [Wallet -> {"idle", "replied", "answered"} \union Handling]
    /\ presented \in [Wallet -> [wia : Wallet \union {Nobody}, pop : Key \union {Nobody}]]
    /\ payload \in [Wallet -> Shape]
    /\ popped \in [Wallet -> Wua \union {Blank}]
    /\ validated \in [Wallet -> Wua \union {Blank}]
    /\ reply \in [Wallet -> Reply]
    /\ answer \in [Wallet -> [error : {"none"} \union ExternalError, nonce : Nat]]
    /\ redeemed \in SUBSET Wallet
    /\ got \in [Wallet -> {"nothing", "token", "credential"}]

Init ==
    /\ clock = 0
    /\ wia = [w \in Wallet |-> 0]
    /\ grant \in [Wallet -> Grant]
    /\ tx = [w \in Wallet |-> "none"]
    /\ challenge = 1
    /\ known = [w \in Wallet |-> 0]
    /\ pc = [w \in Wallet |-> "idle"]
    /\ presented = [w \in Wallet |-> [wia |-> Nobody, pop |-> Nobody]]
    /\ payload = [w \in Wallet |-> NoBody]
    /\ popped = [w \in Wallet |-> Blank]
    /\ validated = [w \in Wallet |-> Blank]
    /\ reply = [w \in Wallet |-> NoReply]
    /\ answer = [w \in Wallet |-> NoAnswer]
    /\ redeemed = {}
    /\ got = [w \in Wallet |-> "nothing"]

Goto(w, next) == pc' = [pc EXCEPT ![w] = next]

\* The handler answers the wallet itself.
Refuse(w, error) ==
    /\ Goto(w, "answered")
    /\ answer' = [answer EXCEPT ![w] = [error |-> error, nonce |-> 0]]

-----------------------------------------------------------------------------
(***************************************************************************)
(* POST /token.                                                            *)
(***************************************************************************)

\* VerifyAttestation: an attestation of this service that has not expired.
ValidWia(who) == who.wia # Nobody /\ clock < wia[who.wia]

\* Fault: the PoP may be signed with any key.
ValidPop_AnyKey(who) == who.pop # Nobody

\* VerifyAttestationPoP: a PoP for this service, signed with the key in the
\* attestation's cnf.  Nothing keeps it from being presented again.
ValidPop(who) == who.pop = who.wia

\* validateClientAttestation
Attested(who) == ValidWia(who) /\ ValidPop(who)

\* Fault: every grant needs an attestation.
NeedsAttestation_Always(w) == TRUE

NeedsAttestation(w) == grant[w] # "refresh_token"

\* The wallet redeems its grant; code is the transaction code it enters.
TokenCall(w, who, code) ==
    /\ pc[w] = "idle"
    /\ got[w] = "nothing"
    /\ presented' = [presented EXCEPT ![w] = who]
    /\ tx' = [tx EXCEPT ![w] = code]
    /\ IF NeedsAttestation(w) /\ ~Attested(who)
       THEN Refuse(w, "invalid_client")
       ELSE /\ Goto(w, IF grant[w] = PreAuthorized /\ code = "none" THEN "txcode" ELSE "token")
            /\ UNCHANGED answer
    /\ UNCHANGED <<clock, inputVars, challenge, wuaVars, reply, redeemed, got>>

\* A grant of a type the service does not know.
OtherGrant(w) ==
    /\ pc[w] = "idle"
    /\ Refuse(w, "unsupported_grant_type")
    /\ UNCHANGED <<clock, inputVars, tx, challenge, wuaVars, presented, reply, redeemed, got>>

\* GetTXCode: nothing fills the cache it reads, and a look-up that finds nothing
\* is not an error: its zero becomes the transaction code.  A cache that fails
\* leaves the request as it is.
InjectTXCode(w) ==
    /\ pc[w] = "txcode"
    /\ tx' \in {tx, [tx EXCEPT ![w] = "0"]}
    /\ Goto(w, "token")
    /\ UNCHANGED <<clock, inputVars, challenge, wuaVars, presented, reply, answer, redeemed, got>>

-----------------------------------------------------------------------------
(***************************************************************************)
(* POST /credential.                                                       *)
(***************************************************************************)

\* Fault: a key attestation in the proof decides alone.
ByWua_AnyDPoP(p, dpop) == HasKeyAttestation(p)

\* A request with a DPoP proof is never one that has a WUA for bearer.
ByWua(p, dpop) == HasKeyAttestation(p) /\ ~dpop

\* The body is parsed, the route chosen, and Authorization demanded.
CredentialCall(w, p, dpop) ==
    /\ pc[w] = "idle"
    /\ dpop <=> got[w] = "token"
    /\ payload' = [payload EXCEPT ![w] = p]
    /\ \/ /\ Goto(w, IF ByWua(p, dpop) THEN "pop" ELSE "credential")
          /\ UNCHANGED answer
       \/ Refuse(w, "invalid_request")
    /\ UNCHANGED <<clock, inputVars, tx, challenge, popped, validated, presented,
                   reply, redeemed, got>>

\* The context is taken out of the cache, and then the jwt of the body rewritten.
\* There may be none, or the cache fails (module WalletUnit); then again the data
\* for the credential may not be had.
PopContext(w) ==
    LET key == AccessContextKey(payload[w]) IN
    /\ pc[w] = "pop"
    /\ \/ /\ key \in Wua
          /\ popped' = [popped EXCEPT ![w] = key]
          /\ payload' = [payload EXCEPT ![w] = Normalise(@)]
          /\ \/ Goto(w, "validate") /\ UNCHANGED answer
             \/ Refuse(w, "server_error")
       \/ /\ Refuse(w, "invalid_request")
          /\ UNCHANGED <<popped, payload>>
    /\ UNCHANGED <<clock, inputVars, tx, challenge, validated, presented, reply, redeemed, got>>

\* Fault: the proof JWT is always what is validated.
Validatee_JWT(w) == KeyAttestation(ProofJWT(payload[w]))

\* validateJWT reads the body again, the other mode has kept the key.
Validatee(w) ==
    IF ProofMode(payload[w]) = "jwt" THEN KeyAttestation(ProofJWT(payload[w])) ELSE popped[w]

ValidateProof(w) ==
    /\ pc[w] = "validate"
    /\ validated' = [validated EXCEPT ![w] = Validatee(w)]
    /\ \/ Goto(w, "wua") /\ UNCHANGED answer
       \/ \E error \in {"invalid_request", "server_error"} : Refuse(w, error)
    /\ UNCHANGED <<clock, inputVars, tx, challenge, payload, popped, presented,
                   reply, redeemed, got>>

-----------------------------------------------------------------------------
(***************************************************************************)
(* The services behind, and what is relayed of their answers.              *)
(***************************************************************************)

Respond(w, kind, error, nonce) ==
    /\ Goto(w, "replied")
    /\ reply' = [reply EXCEPT ![w] = [kind |-> kind, error |-> error, nonce |-> nonce]]

\* The service does what it was asked for.
Grants(w) ==
    /\ Respond(w, pc[w], "none", challenge)
    /\ redeemed' = IF pc[w] = "token" THEN redeemed \union {w} ELSE redeemed

\* A service may refuse a grant redeemed before, a transaction code the wallet
\* did not enter, and a credential request without a DPoP proof.
MayRefuse(w) ==
    \/ pc[w] = "token" /\ (w \in redeemed \/ tx[w] = "0")
    \/ pc[w] = "credential" /\ got[w] # "token"
    \/ pc[w] = "wua"

\* A DPoP proof without the current nonce is challenged.
Serve(w) ==
    /\ pc[w] \in Forwarding
    /\ IF pc[w] # "wua" /\ known[w] # challenge
       THEN Respond(w, "oauth", "use_dpop_nonce", challenge) /\ UNCHANGED redeemed
       ELSE \/ /\ pc[w] = "token" => w \notin redeemed
               /\ Grants(w)
            \/ /\ MayRefuse(w)
               /\ \E error \in InternalError : Respond(w, "problem", error, challenge)
               /\ UNCHANGED redeemed
    /\ UNCHANGED <<clock, inputVars, tx, challenge, wuaVars, presented, answer, got>>

\* The service fails, before or after it has done what it was asked for.
ServiceFails(w) ==
    /\ pc[w] \in Forwarding
    /\ Respond(w, "failed", "none", 0) \/ Respond(w, "garbled", "none", challenge)
    /\ redeemed' \in {redeemed, IF pc[w] = "token" THEN redeemed \union {w} ELSE redeemed}
    /\ UNCHANGED <<clock, inputVars, tx, challenge, wuaVars, presented, answer, got>>

\* Fault: a code without a translation is passed on.
Translate_Raw(error) ==
    CASE error = "preAuthTXCodeInvalid" -> "invalid_grant"
      [] error = "proofInvalid" -> "invalid_proof"
      [] OTHER -> error

\* oid4vciTranslate: a code without a translation is a server error.
Translate(error) ==
    CASE error = "preAuthTXCodeInvalid" -> "invalid_grant"
      [] error = "proofInvalid" -> "invalid_proof"
      [] OTHER -> "server_error"

\* Fault: only a success carries the DPoP-Nonce header on.
Relayed_NoNonce(r) ==
    CASE r.kind = "problem" -> [error |-> Translate(r.error), nonce |-> 0]
      [] r.kind = "oauth" -> [error |-> r.error, nonce |-> 0]
      [] r.kind = "wua" -> [error |-> "none", nonce |-> 0]
      [] r.kind \in {"token", "credential"} -> [error |-> "none", nonce |-> r.nonce]
      [] OTHER -> [error |-> "server_error", nonce |-> r.nonce]

\* relayDownstreamProblem, and what the handlers make of a success.  The nonce
\* of the service is carried on, except from the success of a call with a WUA.
Relayed(r) ==
    CASE r.kind = "problem" -> [error |-> Translate(r.error), nonce |-> r.nonce]
      [] r.kind = "oauth" -> [error |-> r.error, nonce |-> r.nonce]
      [] r.kind = "wua" -> [error |-> "none", nonce |-> 0]
      [] r.kind \in {"token", "credential"} -> [error |-> "none", nonce |-> r.nonce]
      [] OTHER -> [error |-> "server_error", nonce |-> r.nonce]

Relay(w) ==
    /\ pc[w] = "replied"
    /\ Goto(w, "answered")
    /\ answer' = [answer EXCEPT ![w] = Relayed(reply[w])]
    /\ got' = [got EXCEPT ![w] = IF reply[w].kind \in {"token", "credential"} /\ @ # "credential"
                               THEN reply[w].kind ELSE @]
    /\ reply' = [reply EXCEPT ![w] = NoReply]
    /\ UNCHANGED <<clock, inputVars, tx, challenge, wuaVars, presented, redeemed>>

-----------------------------------------------------------------------------
(***************************************************************************)
(* Around the handlers.                                                    *)
(***************************************************************************)

\* The wallet takes note of the nonce; the call is over.
Read(w) ==
    /\ pc[w] = "answered"
    /\ Goto(w, "idle")
    /\ known' = [known EXCEPT ![w] = IF answer[w].nonce > 0 THEN answer[w].nonce ELSE @]
    /\ answer' = [answer EXCEPT ![w] = NoAnswer]
    /\ tx' = [tx EXCEPT ![w] = "none"]
    /\ presented' = [presented EXCEPT ![w] = [wia |-> Nobody, pop |-> Nobody]]
    /\ popped' = [popped EXCEPT ![w] = Blank]
    /\ validated' = [validated EXCEPT ![w] = Blank]
    /\ payload' = [payload EXCEPT ![w] = NoBody]
    /\ UNCHANGED <<clock, wia, grant, challenge, reply, redeemed, got>>

\* IssueWalletInstanceAttestation, for the wallet's key.
IssueWia(w) ==
    /\ wia[w] <= clock
    /\ wia' = [wia EXCEPT ![w] = clock + Lifetime]
    /\ UNCHANGED <<clock, grant, tx, challenge, known, wuaVars, pc, presented, reply, answer,
                   redeemed, got>>

NewChallenge ==
    /\ challenge < MaxChallenge
    /\ challenge' = challenge + 1
    /\ UNCHANGED <<clock, inputVars, tx, wuaVars, pc, presented, reply, answer, redeemed, got>>

Tick ==
    /\ clock < MaxClock
    /\ clock' = clock + 1
    /\ UNCHANGED <<inputVars, tx, challenge, wuaVars, pc, presented, reply, answer, redeemed, got>>

Handle(w) == InjectTXCode(w) \/ PopContext(w) \/ ValidateProof(w) \/ Relay(w)

Next ==
    \/ \E w \in Wallet, a \in Wallet \union {Nobody}, b \in Key \union {Nobody},
         code \in {"none", "entered"} : TokenCall(w, [wia |-> a, pop |-> b], code)
    \/ \E w \in Wallet, p \in Payload, dpop \in BOOLEAN : CredentialCall(w, p, dpop)
    \/ \E w \in Wallet :
          OtherGrant(w) \/ Handle(w) \/ Serve(w) \/ ServiceFails(w) \/ Read(w) \/ IssueWia(w)
    \/ NewChallenge \/ Tick

Spec == Init /\ [][Next]_vars

\* The wallet's own attestation and PoP, and its transaction code.
Earnest(w) == TokenCall(w, [wia |-> w, pop |-> w], "entered")

\* A request with the token, whatever its proof, that the handler can forward.
Request(w) == \E p \in Payload : CredentialCall(w, p, TRUE) /\ pc'[w] # "answered"

\* Handlers run to their end, and wallets read their answers.  A wallet that
\* has something to get keeps trying in earnest and renews an attestation its
\* grant needs; a service that is asked over and over does not always fail.
Fairness ==
    \A w \in Wallet :
        /\ WF_vars(Handle(w)) /\ WF_vars(Read(w))
        /\ WF_vars(Serve(w) \/ ServiceFails(w))
        /\ SF_vars(Serve(w) /\ tx[w] = "entered")
        /\ SF_vars(Serve(w) /\ got[w] = "token")
        /\ SF_vars(Earnest(w))
        /\ grant[w] # "refresh_token" => SF_vars(IssueWia(w))
        /\ SF_vars(Request(w))

FairSpec == Spec /\ Fairness

-----------------------------------------------------------------------------
(***************************************************************************)
(* Properties.                                                             *)
(***************************************************************************)

\* IDAuth redeems a grant, other than a refresh token, only for a call that came
\* with a wallet instance attestation and a PoP of the key it binds.
RedeemedAttested ==
    [][\A w \in redeemed' \ redeemed : grant[w] # "refresh_token" =>
          /\ presented[w].wia \in Wallet /\ presented[w].pop = presented[w].wia
          /\ wia[presented[w].wia] # 0]_vars

\* Whatever the shape of the request: the WUA that is validated is the one whose
\* context the call has taken, though the body was rewritten in between.
ContextOfValidated ==
    \A w \in Wallet : validated[w] # Blank => validated[w] = popped[w]

\* An answer that asks for a nonce has one the wallet does not know yet: no try is
\* wasted on a challenge that teaches nothing, whatever was relayed before.
ChallengeTeaches ==
    \A w \in Wallet : answer[w].error = "use_dpop_nonce" => answer[w].nonce > known[w]

\* A wallet that keeps trying gets its token, unless the answer is lost with
\* which IDAuth redeemed the grant: it learns every nonce it needs, and needs no
\* attestation to refresh.
GrantSucceeds ==
    \A w \in Wallet : got[w] = "nothing" /\ w \notin redeemed
        ~> got[w] # "nothing" \/ (w \in redeemed /\ reply[w].kind \in {"failed", "garbled"})

\* With the token it gets its credential, also when the proof carries a key
\* attestation, and whatever becomes of access contexts.
CredentialSucceeds ==
    \A w \in Wallet : got[w] = "token" ~> got[w] = "credential"

\* "Inject tx_code cached during QR generation": no other code is injected.
TXCodeFromOffer == \A w \in Wallet : tx[w] \in {"none", "entered"}

=============================================================================
