---------------------------- MODULE Registration ----------------------------
(***************************************************************************)
(* Registering a wallet instance.                                          *)
(*                                                                         *)
(* POST /nonce runs behind the TryAuthenticate middleware and mints a      *)
(* nonce whose audience is the session of the caller, or "anonymous".  The *)
(* device attests a key with the nonce as challenge.  POST /instance       *)
(* verifies the attestation, consumes the nonce, asks IDAuth for the       *)
(* session's person and creates the instance in the database.              *)
(*                                                                         *)
(* The module composes with Nonce: a Request is a call of POST /instance,  *)
(* and the nonce service's steps are those of Nonce.                       *)
(***************************************************************************)
EXTENDS Nonce

CONSTANTS
    Key,            \* hardware keys; the tag of an instance is the hash of its key
    Session,        \* IDAuth sessions
    Anonymous,      \* the audience of a nonce minted without a session
    Outages         \* IDAuth and the database may fail

ASSUME RegistrationAssumption ==
    /\ Anonymous \notin Session
    /\ Outages \in BOOLEAN

VARIABLES
    session,    \* session[s]: its state at IDAuth
    audience,   \* audience[n]: whom the token of n was minted for
    attested,   \* <<key, nonce>>: key attestations made by devices
    stage,      \* where each call stands in the handler of POST /instance
    key,        \* the key its attestation is for
    owner,      \* whom the instance it creates belongs to
    inserted    \* calls whose create_instance the database has executed

handlerVars == <<stage, key, owner, inserted>>
identityVars == <<session, audience, attested>>
regVars == <<vars, identityVars, handlerVars>>

SessionState == {"limited", "authorized", "ended"}
Audience == Session \union {Anonymous}

RegTypeOK ==
    /\ TypeOK
    /\ session \in [Session -> SessionState]
    /\ audience \in [Nonce -> Audience]
    /\ attested \in SUBSET (Key \X Nonce)
    /\ stage \in [Request -> {"new", "rejected", "nonce", "person", "created", "failed", "crashed"}]
    /\ key \in [Request -> Key]
    /\ owner \in [Request -> Audience]
    /\ inserted \in SUBSET Request

RegInit ==
    /\ Init
    /\ session \in [Session -> SessionState]
    /\ audience = [n \in Nonce |-> Anonymous]
    /\ attested = {}
    /\ stage = [r \in Request |-> "new"]
    /\ key \in {[r \in Request |-> k] : k \in Key}
    /\ owner = [r \in Request |-> Anonymous]
    /\ inserted = {}

MayFail == IF Outages THEN BOOLEAN ELSE {FALSE}

-----------------------------------------------------------------------------
(***************************************************************************)
(* POST /nonce.                                                            *)
(***************************************************************************)

\* TryAuthenticate lets a request without Authorization through, and one whose
\* session IDAuth reports active and authorized.  Any other session, and any
\* failure of IDAuth, is an error response and changes nothing.
Passes(who) == who = Anonymous \/ (who \in Session /\ session[who] = "authorized")

\* The token of a user without a sid claim is minted for the anonymous user.
IssueNonce(n, who) ==
    /\ Passes(who)
    /\ Mint(n)
    /\ \E sid \in {who, Anonymous} : audience' = [audience EXCEPT ![n] = sid]
    /\ UNCHANGED <<session, attested, handlerVars>>

-----------------------------------------------------------------------------
(***************************************************************************)
(* POST /instance.                                                         *)
(***************************************************************************)

\* Fault: the challenge in the attestation is not compared with the nonce.
Submit_AnyChallenge(r, a, k, n, p) ==
    /\ stage[r] = "new"
    /\ a \in attested
    /\ key' = [key EXCEPT ![r] = k]
    /\ IF a[1] = k
       THEN stage' = [stage EXCEPT ![r] = "nonce"] /\ Arrive(r, n, p)
       ELSE stage' = [stage EXCEPT ![r] = "rejected"] /\ UNCHANGED vars
    /\ UNCHANGED <<identityVars, owner, inserted>>

\* The body brings an attestation a, the tag of a key k and a challenge n.
\* Verify wants a sound attestation of that key with that challenge; only then
\* is ValidateNonce called.
Submit(r, a, k, n, p) ==
    /\ stage[r] = "new"
    /\ a \in attested
    /\ key' = [key EXCEPT ![r] = k]
    /\ \E sound \in BOOLEAN :
          IF sound /\ a = <<k, n>>
          THEN stage' = [stage EXCEPT ![r] = "nonce"] /\ Arrive(r, n, p)
          ELSE stage' = [stage EXCEPT ![r] = "rejected"] /\ UNCHANGED vars
    /\ UNCHANGED <<identityVars, owner, inserted>>

\* A step of ValidateNonce.
NonceStep(r) ==
    /\ Serve(r)
    /\ UNCHANGED <<identityVars, handlerVars>>

\* Fault: without an answer from IDAuth the instance is created as anonymous.
FetchUser_Fallback(r) ==
    /\ stage[r] = "nonce"
    /\ pc[r] = "accepted"
    /\ audience[nonce[r]] # Anonymous
    /\ \E fails \in MayFail :
          owner' = [owner EXCEPT ![r] = IF fails THEN Anonymous ELSE audience[nonce[r]]]
    /\ stage' = [stage EXCEPT ![r] = "person"]
    /\ UNCHANGED <<vars, identityVars, key, inserted>>

\* UserInfo for the session in the token.  Whether the session is still active
\* or authorized is not looked at; IDAuth may refuse one that has ended.
FetchUser(r) ==
    LET s == audience[nonce[r]] IN
    /\ stage[r] = "nonce"
    /\ pc[r] = "accepted"
    /\ s # Anonymous
    /\ \/ /\ stage' = [stage EXCEPT ![r] = "person"]
          /\ owner' = [owner EXCEPT ![r] = s]
       \/ /\ Outages \/ session[s] = "ended"
          /\ stage' = [stage EXCEPT ![r] = "failed"]
          /\ UNCHANGED owner
    /\ UNCHANGED <<vars, identityVars, key, inserted>>

\* Fault: nothing is done for an anonymous nonce.
Create_PersonOnly(r) ==
    /\ stage[r] = "person"
    /\ inserted' = inserted \union {r}
    /\ stage' = [stage EXCEPT ![r] = "created"]
    /\ UNCHANGED <<vars, identityVars, key, owner>>

\* Fault: the nonce's answer is not looked at.
Create_AnyNonce(r) ==
    /\ \/ stage[r] = "person"
       \/ stage[r] = "nonce" /\ pc[r] \in Answered /\ audience[nonce[r]] = Anonymous
    /\ inserted' = inserted \union {r}
    /\ stage' = [stage EXCEPT ![r] = "created"]
    /\ UNCHANGED <<vars, identityVars, key, owner>>

\* create_instance, for the person or for the anonymous user.  After an error
\* the row may exist all the same: its answer was lost.
Create(r) ==
    /\ \/ stage[r] = "person"
       \/ stage[r] = "nonce" /\ pc[r] = "accepted" /\ audience[nonce[r]] = Anonymous
    /\ \/ /\ inserted' = inserted \union {r}
          /\ stage' = [stage EXCEPT ![r] = "created"]
       \/ /\ Outages
          /\ inserted' \in {inserted, inserted \union {r}}
          /\ stage' = [stage EXCEPT ![r] = "failed"]
    /\ UNCHANGED <<vars, identityVars, key, owner>>

-----------------------------------------------------------------------------
(***************************************************************************)
(* Around the handlers.                                                    *)
(***************************************************************************)

\* The wallet has its device attest a key with a nonce it was given.
Attest(k, n) ==
    /\ n \in minted
    /\ attested' = attested \union {<<k, n>>}
    /\ UNCHANGED <<vars, session, audience, handlerVars>>

\* A session is logged in or ends.
SessionChange(s) ==
    /\ session[s] # "ended"
    /\ session' = [session EXCEPT ![s] = IF @ = "limited" THEN "authorized" ELSE "ended"]
    /\ UNCHANGED <<vars, audience, attested, handlerVars>>

InHandler(r) ==
    \/ stage[r] = "person"
    \/ stage[r] = "nonce" /\ pc[r] \in InFlight \union {"accepted"}

\* A restart loses the calls the process was serving.
Restart(p) ==
    /\ Crash(p)
    /\ stage' = [r \in Request |->
                   IF replica[r] = p /\ InHandler(r) THEN "crashed" ELSE stage[r]]
    /\ UNCHANGED <<identityVars, key, owner, inserted>>

RegTick == Tick /\ UNCHANGED <<identityVars, handlerVars>>

Handle(r) == FetchUser(r) \/ Create(r)

RegNext ==
    \/ \E n \in Nonce, who \in Audience : IssueNonce(n, who)
    \/ \E s \in Session : SessionChange(s)
    \/ \E k \in Key, n \in Nonce : Attest(k, n)
    \/ \E r \in Request, a \in attested, k \in Key, n \in Nonce, p \in Replica :
          Submit(r, a, k, n, p)
    \/ \E r \in Request : NonceStep(r) \/ Handle(r)
    \/ \E p \in Replica : Restart(p)
    \/ RegTick

\* As in Nonce; calls to IDAuth and to the database return.
RegFairness ==
    /\ \A r \in Request : WF_regVars(NonceStep(r)) /\ WF_regVars(Handle(r))
    /\ \A r \in Request : SF_regVars(Lock(r) /\ UNCHANGED <<identityVars, handlerVars>>)

RegSpec == RegInit /\ [][RegNext]_regVars
RegFairSpec == RegSpec /\ RegFairness

-----------------------------------------------------------------------------
(***************************************************************************)
(* Properties.                                                             *)
(***************************************************************************)

\* A nonce creates one instance for as long as it is valid: not two, whether
\* calls overlap, repeat one that failed half-way, or bring other attestations.
OneInstancePerNonce ==
    \A r, s \in inserted :
        r # s /\ nonce[r] = nonce[s] => at[r] >= exp[nonce[r]] \/ at[s] >= exp[nonce[s]]

\* An instance belongs to the session its nonce was minted for and to no other,
\* and is anonymous only if its nonce was.
OwnerIsMinter ==
    \A r \in inserted : owner[r] = audience[nonce[r]]

\* An instance is created only for a key whose device attested it with this
\* nonce, and only after the nonce service let that nonce through.
FreshlyAttested ==
    \A r \in inserted : <<key[r], nonce[r]>> \in attested /\ Granted(r)

\* Every call that got as far as the nonce is answered, or lost in a restart.
RegistrationEnds ==
    \A r \in Request : stage[r] = "nonce"
        ~> \/ stage[r] \in {"created", "failed", "crashed"}
           \/ pc[r] \in {"invalid", "reused"}

=============================================================================
