------------------------- MODULE RegistrationProofs -------------------------
(***************************************************************************)
(* Theorems about Registration.  They stand on those about Nonce: the      *)
(* composed system runs the nonce service, so what is proved of the        *)
(* service holds of the composition as it is.                              *)
(***************************************************************************)
EXTENDS Registration, NonceProofs

USE DEF handlerVars, identityVars, Audience, callVars, Granted, Never, Unlock

-----------------------------------------------------------------------------

\* A step of the composition is a step of the nonce service or leaves it alone.
LEMMA NonceStepOrStutter == [RegNext]_regVars => [Next]_vars
<1> SUFFICES ASSUME [RegNext]_regVars PROVE [Next]_vars
  OBVIOUS
<1>1. CASE UNCHANGED regVars
  BY <1>1 DEF regVars
<1>2. ASSUME NEW n \in Nonce, NEW who \in Audience, IssueNonce(n, who) PROVE Next
  BY <1>2 DEF IssueNonce, Next
<1>3. ASSUME NEW s \in Session, SessionChange(s) PROVE UNCHANGED vars
  BY <1>3 DEF SessionChange
<1>4. ASSUME NEW k \in Key, NEW n \in Nonce, Attest(k, n) PROVE UNCHANGED vars
  BY <1>4 DEF Attest
<1>5. ASSUME NEW r \in Request, NEW a \in attested, NEW k \in Key, NEW n \in Nonce,
             NEW p \in Replica, Submit(r, a, k, n, p)
      PROVE  Next \/ UNCHANGED vars
  BY <1>5 DEF Submit, Next
<1>6. ASSUME NEW r \in Request, NonceStep(r) PROVE Next
  BY <1>6 DEF NonceStep, Next
<1>7. ASSUME NEW r \in Request, Handle(r) PROVE UNCHANGED vars
  BY <1>7 DEF Handle, FetchUser, Create
<1>8. ASSUME NEW p \in Replica, Restart(p) PROVE Next
  BY <1>8 DEF Restart, Next
<1>9. CASE RegTick
  BY <1>9 DEF RegTick, Next
<1>. QED
  BY <1>1, <1>2, <1>3, <1>4, <1>5, <1>6, <1>7, <1>8, <1>9 DEF RegNext

\* Registration runs the nonce service as it is specified on its own.
THEOREM RegistrationRunsNonce == RegSpec => Spec
<1>1. RegInit => Init
  BY DEF RegInit
<1>. QED
  BY <1>1, NonceStepOrStutter, PTL DEF RegSpec, Spec

-----------------------------------------------------------------------------
(***************************************************************************)
(* Types.                                                                  *)
(***************************************************************************)

HandlerType ==
    /\ session \in [Session -> SessionState]
    /\ audience \in [Nonce -> Audience]
    /\ attested \in SUBSET (Key \X Nonce)
    /\ stage \in [Request -> {"new", "rejected", "nonce", "person", "created", "failed", "crashed"}]
    /\ key \in [Request -> Key]
    /\ owner \in [Request -> Audience]
    /\ inserted \in SUBSET Request

LEMMA HandlerTypeStep ==
    ASSUME TypeOK, HandlerType, [RegNext]_regVars
    PROVE  HandlerType'
<1> USE DEF HandlerType
<1>1. CASE UNCHANGED regVars
  BY <1>1 DEF regVars
<1>2. ASSUME NEW n \in Nonce, NEW who \in Audience, IssueNonce(n, who) PROVE HandlerType'
  BY <1>2 DEF IssueNonce
<1>3. ASSUME NEW s \in Session, SessionChange(s) PROVE HandlerType'
  BY <1>3 DEF SessionChange, SessionState
<1>4. ASSUME NEW k \in Key, NEW n \in Nonce, Attest(k, n) PROVE HandlerType'
  BY <1>4 DEF Attest
<1>5. ASSUME NEW r \in Request, NEW a \in attested, NEW k \in Key, NEW n \in Nonce,
             NEW p \in Replica, Submit(r, a, k, n, p)
      PROVE  HandlerType'
  BY <1>5 DEF Submit
<1>6. ASSUME NEW r \in Request, NonceStep(r) PROVE HandlerType'
  BY <1>6 DEF NonceStep
<1>7. ASSUME NEW r \in Request, FetchUser(r) PROVE HandlerType'
  <2>1. nonce[r] \in Nonce
    BY DEF TypeOK
  <2>. QED
    BY <1>7, <2>1 DEF FetchUser
<1>8. ASSUME NEW r \in Request, Create(r) PROVE HandlerType'
  BY <1>8 DEF Create
<1>9. ASSUME NEW p \in Replica, Restart(p) PROVE HandlerType'
  BY <1>9 DEF Restart
<1>10. CASE RegTick
  BY <1>10 DEF RegTick
<1>. QED
  BY <1>1, <1>2, <1>3, <1>4, <1>5, <1>6, <1>7, <1>8, <1>9, <1>10 DEF RegNext, Handle

\* The types of registration: those of the nonce service hold because it runs
\* as specified, those of the handlers' state step by step.
THEOREM RegistrationType == RegSpec => []RegTypeOK
<1>1. RegInit => HandlerType
  BY DEF RegInit, HandlerType
<1>2. RegTypeOK <=> TypeOK /\ HandlerType
  BY DEF RegTypeOK, HandlerType
<1>3. TypeOK /\ HandlerType /\ [RegNext]_regVars => HandlerType'
  BY HandlerTypeStep
<1>. QED
  BY <1>1, <1>2, <1>3, RegistrationRunsNonce, NonceType, PTL DEF RegSpec

-----------------------------------------------------------------------------
(***************************************************************************)
(* What the handler knows at each stage.                                   *)
(***************************************************************************)

\* A call has reached the database or is about to with a person.
Identified(r) == stage[r] = "person" \/ r \in inserted

\* Attestations are made with nonces already minted, whose audience is settled;
\* a call past Verify holds one of them, and one that is identified was let
\* through by the nonce service and acts for the audience of its nonce.
HandlerOf(r) ==
    /\ stage[r] \in {"new", "rejected"} => r \notin inserted
    /\ stage[r] \in {"new", "rejected", "nonce"} /\ r \notin inserted => owner[r] = Anonymous
    /\ stage[r] = "nonce" => <<key[r], nonce[r]>> \in attested /\ r \notin inserted
    /\ pc[r] \in {"stored", "accepted"} => Granted(r)
    /\ Identified(r) =>
          /\ <<key[r], nonce[r]>> \in attested
          /\ Granted(r)
          /\ owner[r] = audience[nonce[r]]

HandlerInv ==
    /\ \A k \in Key, n \in Nonce : <<k, n>> \in attested => n \in minted
    /\ \A r \in Request : HandlerOf(r)

LEMMA HandlerInvInit == RegInit => HandlerInv
BY DEF RegInit, Init, HandlerInv, HandlerOf, Identified

\* What Submit leaves alone.
LEMMA SubmitKeeps ==
    ASSUME NEW r \in Request, NEW a \in attested, NEW k \in Key, NEW n \in Nonce,
           NEW p \in Replica, Submit(r, a, k, n, p)
    PROVE  UNCHANGED <<identityVars, owner, inserted, minted, at>>
<1>1. UNCHANGED <<identityVars, owner, inserted>> /\ (Arrive(r, n, p) \/ UNCHANGED vars)
  BY DEF Submit
<1>. QED
  BY <1>1 DEF Arrive, vars

\* What it does to the calls.
LEMMA SubmitChanges ==
    ASSUME TypeOK, HandlerType,
           NEW r \in Request, NEW a \in attested, NEW k \in Key, NEW n \in Nonce,
           NEW p \in Replica, Submit(r, a, k, n, p)
    PROVE  /\ \A q \in Request \ {r} :
                 stage'[q] = stage[q] /\ key'[q] = key[q] /\ nonce'[q] = nonce[q] /\ pc'[q] = pc[q]
           /\ \/ stage'[r] = "rejected"
              \/ stage'[r] = "nonce" /\ <<key'[r], nonce'[r]>> \in attested
           /\ pc'[r] \in {pc[r], "waiting", "invalid"}
<1>1. /\ stage \in [Request -> {"new", "rejected", "nonce", "person", "created", "failed", "crashed"}]
      /\ key \in [Request -> Key]
  BY DEF HandlerType
<1>2. nonce \in [Request -> Nonce] /\ pc \in [Request -> {"idle", "crashed"} \union InFlight \union Answered]
  BY DEF TypeOK
<1>3. key' = [key EXCEPT ![r] = k]
  BY DEF Submit
<1>4. CASE stage' = [stage EXCEPT ![r] = "nonce"] /\ Arrive(r, n, p) /\ a = <<k, n>>
  <2>1. /\ nonce' = [nonce EXCEPT ![r] = n]
        /\ attested' = attested /\ <<k, n>> \in attested
        /\ \E v \in {"waiting", "invalid"} : pc' = [pc EXCEPT ![r] = v]
    <3>1. attested' = attested
      BY DEF Submit
    <3>. QED
      BY <1>4, <3>1 DEF Arrive
  <2>. QED
    BY <1>1, <1>2, <1>3, <1>4, <2>1
<1>5. CASE stage' = [stage EXCEPT ![r] = "rejected"] /\ UNCHANGED vars
  <2>1. UNCHANGED <<nonce, pc>>
    BY <1>5 DEF vars
  <2>. QED
    BY <1>1, <1>3, <1>5, <2>1
<1>. QED
  BY <1>4, <1>5 DEF Submit

LEMMA HandlerInvStep ==
    ASSUME TypeOK, HandlerType, HandlerInv, [RegNext]_regVars
    PROVE  HandlerInv'
<1> USE DEF HandlerInv, HandlerOf, Identified, TypeOK, HandlerType
<1>1. CASE UNCHANGED regVars
  BY <1>1 DEF regVars, vars
<1>2. ASSUME NEW n \in Nonce, NEW who \in Audience, IssueNonce(n, who) PROVE HandlerInv'
  <2>1. \A m \in minted : m \in minted' /\ audience'[m] = audience[m]
    BY <1>2 DEF IssueNonce, Mint
  <2>2. UNCHANGED <<attested, handlerVars, pc, nonce, at>>
    BY <1>2 DEF IssueNonce, Mint
  <2>. QED
    BY <2>1, <2>2
<1>3. ASSUME NEW s \in Session, SessionChange(s) PROVE HandlerInv'
  BY <1>3 DEF SessionChange, vars
<1>4. ASSUME NEW k \in Key, NEW n \in Nonce, Attest(k, n) PROVE HandlerInv'
  BY <1>4 DEF Attest, vars
<1>5. ASSUME NEW r \in Request, NEW a \in attested, NEW k \in Key, NEW n \in Nonce,
             NEW p \in Replica, Submit(r, a, k, n, p)
      PROVE  HandlerInv'
  <2>1. UNCHANGED <<identityVars, owner, inserted, minted, at>>
    BY <1>5, SubmitKeeps
  <2>2. \A q \in Request \ {r} :
           stage'[q] = stage[q] /\ key'[q] = key[q] /\ nonce'[q] = nonce[q] /\ pc'[q] = pc[q]
    BY <1>5, SubmitChanges
  <2>3. /\ stage'[r] = "rejected" \/ (stage'[r] = "nonce" /\ <<key'[r], nonce'[r]>> \in attested)
        /\ pc'[r] \in {pc[r], "waiting", "invalid"}
    BY <1>5, SubmitChanges
  <2>4. stage[r] = "new" /\ r \notin inserted
    BY <1>5 DEF Submit
  <2>5. \A kk \in Key, m \in Nonce : <<kk, m>> \in attested' => m \in minted'
    BY <2>1 DEF identityVars
  <2>6. \A q \in Request \ {r} : HandlerOf(q)'
    <3>1. ASSUME NEW q \in Request \ {r} PROVE HandlerOf(q)'
      <4>1. UNCHANGED <<stage[q], key[q], nonce[q], pc[q], owner[q], at[q], inserted, attested, audience>>
        BY <2>1, <2>2 DEF identityVars
      <4>2. HandlerOf(q)
        OBVIOUS
      <4>. QED
        BY <4>1, <4>2 DEF Granted, HandlerOf
    <3>. QED
      BY <3>1
  <2>7. HandlerOf(r)'
    <3>1. UNCHANGED <<owner, inserted, at, attested>> /\ owner[r] = Anonymous
      BY <2>1, <2>4 DEF identityVars, HandlerOf
    <3>2. ~Identified(r)' /\ stage'[r] \in {"rejected", "nonce"}
      BY <2>3, <2>4, <3>1
    <3>3. pc'[r] \in {"stored", "accepted"} => Granted(r)'
      BY <2>3, <2>4, <3>1 DEF Granted, HandlerOf
    <3>. QED
      BY <2>3, <2>4, <3>1, <3>2, <3>3 DEF HandlerOf
  <2>. QED
    BY <2>5, <2>6, <2>7
<1>6. ASSUME NEW r \in Request, NonceStep(r) PROVE HandlerInv'
  <2>1. UNCHANGED <<identityVars, handlerVars, minted, nonce>>
    BY <1>6 DEF NonceStep, Serve, Lock, CheckMarker, StoreMarker, Return
  <2>2. \A q \in Request : Granted(q) => Granted(q)'
    BY <1>6 DEF NonceStep, Serve, Lock, CheckMarker, StoreMarker, Return
  <2>3. \A q \in Request : pc'[q] \in {"stored", "accepted"} => Granted(q)'
    <3>1. CASE Lock(r) \/ CheckMarker(r) \/ Return(r)
      <4>1. /\ UNCHANGED at
            /\ pc[r] = "stored" \/ pc'[r] \notin {"stored", "accepted"}
            /\ \A q \in Request \ {r} : pc'[q] = pc[q]
        BY <3>1 DEF Lock, CheckMarker, Return
      <4>. QED
        BY <4>1
    <3>2. CASE StoreMarker(r)
      <4>1. at' = [at EXCEPT ![r] = clock] /\ pc' = [pc EXCEPT ![r] = "stored"]
        BY <3>2 DEF StoreMarker
      <4>2. at'[r] = clock /\ clock # -1
        BY <4>1
      <4>3. \A q \in Request \ {r} : at'[q] = at[q] /\ pc'[q] = pc[q]
        BY <4>1
      <4>. QED
        BY <4>2, <4>3
    <3>. QED
      BY <1>6, <3>1, <3>2 DEF NonceStep, Serve
  <2>. QED
    BY <2>1, <2>2, <2>3
<1>7. ASSUME NEW r \in Request, FetchUser(r) PROVE HandlerInv'
  BY <1>7 DEF FetchUser, vars
<1>8. ASSUME NEW r \in Request, Create(r) PROVE HandlerInv'
  BY <1>8 DEF Create, vars
<1>9. ASSUME NEW p \in Replica, Restart(p) PROVE HandlerInv'
  <2>1. UNCHANGED <<identityVars, key, owner, inserted, minted, nonce, at>>
    BY <1>9 DEF Restart, Crash
  <2>2. \A q \in Request : stage'[q] \in {stage[q], "crashed"} /\ pc'[q] \in {pc[q], "crashed"}
    BY <1>9 DEF Restart, Crash
  <2>. QED
    BY <2>1, <2>2
<1>10. CASE RegTick
  BY <1>10 DEF RegTick, Tick
<1>. QED
  BY <1>1, <1>2, <1>3, <1>4, <1>5, <1>6, <1>7, <1>8, <1>9, <1>10 DEF RegNext, Handle

\* What the handler knows is invariant.
THEOREM RegistrationKnows == RegSpec => []HandlerInv
<1>1. RegTypeOK <=> TypeOK /\ HandlerType
  BY DEF RegTypeOK, HandlerType
<1>2. TypeOK /\ HandlerType /\ HandlerInv /\ [RegNext]_regVars => HandlerInv'
  BY HandlerInvStep
<1>. QED
  BY <1>1, <1>2, HandlerInvInit, RegistrationType, PTL DEF RegSpec

-----------------------------------------------------------------------------

\* An instance belongs to the session its nonce was minted for, whatever fails.
THEOREM RegistrationOwner == RegSpec => []OwnerIsMinter
<1>1. HandlerInv /\ RegTypeOK => OwnerIsMinter
  BY DEF HandlerInv, HandlerOf, Identified, OwnerIsMinter, RegTypeOK
<1>. QED
  BY <1>1, RegistrationKnows, RegistrationType, PTL

\* Every instance's key was attested with the nonce its creation consumed.
THEOREM RegistrationAttested == RegSpec => []FreshlyAttested
<1>1. HandlerInv /\ RegTypeOK => FreshlyAttested
  BY DEF HandlerInv, HandlerOf, Identified, FreshlyAttested, RegTypeOK
<1>. QED
  BY <1>1, RegistrationKnows, RegistrationType, PTL

\* With one process and a reliable cache a valid nonce creates one instance:
\* the single use of the nonce, carried over to the rows of the database.
THEOREM RegistrationOneInstance == ASSUME Reliable PROVE RegSpec => []OneInstancePerNonce
<1>1. HandlerInv /\ RegTypeOK /\ SingleUseWhileValid => OneInstancePerNonce
  BY DEF HandlerInv, HandlerOf, Identified, SingleUseWhileValid, OneInstancePerNonce, RegTypeOK
<1>. QED
  BY <1>1, RegistrationKnows, RegistrationType, RegistrationRunsNonce, NonceSingleUse, PTL

\* OneInstancePerNonce for the calls that one process serves.
OneInstancePerProcess ==
    \A r, s \in inserted :
        r # s /\ nonce[r] = nonce[s] /\ replica[r] = replica[s]
            => at[r] >= exp[nonce[r]] \/ at[s] >= exp[nonce[s]]

\* However many processes there are: with a cache that answers and loses nothing,
\* a valid nonce creates at most one instance through each of them, whatever
\* becomes of the calls to IDAuth and to the database.
THEOREM RegistrationOnePerProcess == ASSUME CacheKeeps PROVE RegSpec => []OneInstancePerProcess
<1>1. HandlerInv /\ RegTypeOK /\ SingleUsePerProcess => OneInstancePerProcess
  BY DEF HandlerInv, HandlerOf, Identified, SingleUsePerProcess, OneInstancePerProcess, RegTypeOK
<1>. QED
  BY <1>1, RegistrationKnows, RegistrationType, RegistrationRunsNonce,
     NonceSingleUsePerProcess, PTL

=============================================================================
