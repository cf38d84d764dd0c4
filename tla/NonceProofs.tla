---------------------------- MODULE NonceProofs -----------------------------
(***************************************************************************)
(* Theorems about Nonce, for every set of requests, nonces and replicas.   *)
(***************************************************************************)
EXTENDS Nonce, TLAPS

USE DEF Never, Serving, InFlight, Answered, Granted, Unlock, callVars

\* A token's expiration is no later than the time it is computed from.
LEMMA WholeSecondBound ==
    ASSUME NEW t \in Nat 
    PROVE  WholeSecond(t) \in Int /\ WholeSecond(t) <= t /\ WholeSecond(t) > t - Second
<1>1. Second \in Nat /\ Second > 0
  BY ParamAssumption
<1>2. t % Second \in 0..(Second - 1)
  BY <1>1
<1>. QED
  BY <1>1, <1>2 DEF WholeSecond

LEMMA EntryEndsType ==
    ASSUME NEW ttl \in Int, clock \in Nat
    PROVE  EntryEnds(ttl) \subseteq Int /\ \A e \in EntryEnds(ttl) : e >= clock + ttl
BY ParamAssumption DEF EntryEnds

\* TypeOK is an invariant: the counterpart of the types of the Go variables, and
\* the bound NonceTTL puts on every expiration claim.
THEOREM NonceType == Spec => []TypeOK
<1>1. Init => TypeOK
  BY ParamAssumption DEF Init, TypeOK
<1>2. TypeOK /\ [Next]_vars => TypeOK'
  <2> SUFFICES ASSUME TypeOK, [Next]_vars PROVE TypeOK'
    OBVIOUS
  <2> USE DEF TypeOK
  <2>1. CASE \E n \in Nonce : Mint(n)
    <3>1. PICK n \in Nonce : Mint(n)
      BY <2>1
    <3>2. clock + NonceTTL \in Nat
      BY ParamAssumption
    <3>3. /\ WholeSecond(clock + NonceTTL) \in Int
          /\ WholeSecond(clock + NonceTTL) <= clock + NonceTTL
      BY <3>2, WholeSecondBound
    <3>. QED
      BY <3>1, <3>3 DEF Mint
  <2>2. CASE \E r \in Request, n \in Nonce, p \in Replica : Arrive(r, n, p)
    BY <2>2 DEF Arrive
  <2>3. ASSUME NEW r \in Request, Lock(r) PROVE TypeOK'
    BY <2>3 DEF Lock
  <2>4. ASSUME NEW r \in Request, CheckMarker(r) PROVE TypeOK'
    BY <2>4 DEF CheckMarker
  <2>5. ASSUME NEW r \in Request, StoreMarker(r) PROVE TypeOK'
    <3>1. exp[nonce[r]] - now[r] \in Int
      OBVIOUS
    <3>2. marker' \in [Replica -> [Nonce -> Int]]
      BY <2>5, <3>1, EntryEndsType DEF StoreMarker, Mark
    <3>. QED
      BY <2>5, <3>2 DEF StoreMarker
  <2>6. ASSUME NEW r \in Request, Return(r) PROVE TypeOK'
    BY <2>6 DEF Return
  <2>7. CASE \E p \in Replica : Crash(p)
    <3>1. PICK p \in Replica : Crash(p)
      BY <2>7
    <3>2. marker' \in [Replica -> [Nonce -> Int]]
      BY <3>1 DEF Crash
    <3>3. pc' \in [Request -> {"idle", "crashed"} \union InFlight \union Answered]
      BY <3>1 DEF Crash
    <3>. QED
      BY <3>1, <3>2, <3>3 DEF Crash
  <2>8. CASE Tick
    BY <2>8, ParamAssumption DEF Tick
  <2>9. CASE UNCHANGED vars
    BY <2>9 DEF vars
  <2>. QED
    BY <2>1, <2>2, <2>3, <2>4, <2>5, <2>6, <2>7, <2>8, <2>9 DEF Next, Serve
<1>. QED
  BY <1>1, <1>2, PTL DEF Spec

-----------------------------------------------------------------------------

\* The critical section is exclusive in every configuration: with failing
\* caches, several replicas and crashes.
THEOREM NonceLock == Spec => []LockHeldByServing
<1>1. Init => LockHeldByServing
  BY ParamAssumption DEF Init, LockHeldByServing
<1>2. TypeOK /\ LockHeldByServing /\ [Next]_vars => LockHeldByServing'
  <2> SUFFICES ASSUME TypeOK, LockHeldByServing, [Next]_vars PROVE LockHeldByServing'
    OBVIOUS
  <2> USE ParamAssumption DEF TypeOK, LockHeldByServing
  <2>1. CASE \E n \in Nonce : Mint(n)
    BY <2>1 DEF Mint
  <2>2. CASE \E r \in Request, n \in Nonce, p \in Replica : Arrive(r, n, p)
    BY <2>2 DEF Arrive
  <2>3. ASSUME NEW r \in Request, Lock(r) PROVE LockHeldByServing'
    BY <2>3 DEF Lock
  <2>4. ASSUME NEW r \in Request, CheckMarker(r) PROVE LockHeldByServing'
    BY <2>4 DEF CheckMarker
  <2>5. ASSUME NEW r \in Request, StoreMarker(r) PROVE LockHeldByServing'
    BY <2>5 DEF StoreMarker
  <2>6. ASSUME NEW r \in Request, Return(r) PROVE LockHeldByServing'
    BY <2>6 DEF Return
  <2>7. CASE \E p \in Replica : Crash(p)
    BY <2>7 DEF Crash
  <2>8. CASE Tick
    BY <2>8 DEF Tick
  <2>9. CASE UNCHANGED vars
    BY <2>9 DEF vars
  <2>. QED
    BY <2>1, <2>2, <2>3, <2>4, <2>5, <2>6, <2>7, <2>8, <2>9 DEF Next, Serve
<1>. QED
  BY <1>1, <1>2, NonceType, PTL DEF Spec

-----------------------------------------------------------------------------

\* A marker exists only where some request stored it.
MarkerHasOwner ==
    \A p \in Replica, n \in Nonce :
        marker[p][n] > 0 => \E s \in Request : Granted(s) /\ nonce[s] = n

\* A request has a grant only after its store.
GrantAfterStore ==
    \A r \in Request : Granted(r) => pc[r] \in {"stored", "accepted", "crashed"}

ReuseInv == MarkerHasOwner /\ GrantAfterStore /\ ReuseAnswerJustified

\* A nonce is reported as reused only when another request was granted it: with
\* any number of replicas, with failing caches and with restarts.
THEOREM NonceReuseJustified == Spec => []ReuseAnswerJustified
<1>1. Init => ReuseInv
  BY DEF Init, ReuseInv, MarkerHasOwner, GrantAfterStore, ReuseAnswerJustified
<1>2. TypeOK /\ ReuseInv /\ [Next]_vars => ReuseInv'
  <2> SUFFICES ASSUME TypeOK, ReuseInv, [Next]_vars PROVE ReuseInv'
    OBVIOUS
  <2>a. MarkerHasOwner /\ GrantAfterStore /\ ReuseAnswerJustified
    BY DEF ReuseInv
  <2>1. CASE \E n \in Nonce : Mint(n)
    BY <2>1, <2>a DEF Mint, ReuseInv, MarkerHasOwner, GrantAfterStore, ReuseAnswerJustified
  <2>2. ASSUME NEW r \in Request, NEW n \in Nonce, NEW p \in Replica, Arrive(r, n, p)
        PROVE  ReuseInv'
    <3>1. /\ UNCHANGED <<marker, at>>
          /\ ~Granted(r)
          /\ \A s \in Request \ {r} : pc'[s] = pc[s] /\ nonce'[s] = nonce[s]
          /\ pc'[r] \in {"waiting", "invalid"}
          /\ \A s \in Request : Granted(s) => Granted(s)' /\ nonce'[s] = nonce[s]
      BY <2>2, <2>a DEF Arrive, TypeOK, GrantAfterStore
    <3>2. MarkerHasOwner'
      BY <2>a, <3>1 DEF MarkerHasOwner
    <3>3. GrantAfterStore'
      BY <2>a, <3>1 DEF GrantAfterStore
    <3>4. ReuseAnswerJustified'
      <4> SUFFICES ASSUME NEW s \in Request, pc'[s] = "reused"
                   PROVE  \E t \in Request \ {s} : Granted(t)' /\ nonce'[t] = nonce'[s]
        BY DEF ReuseAnswerJustified
      <4>1. s # r /\ pc[s] = "reused"
        BY <3>1
      <4>2. PICK t \in Request \ {s} : Granted(t) /\ nonce[t] = nonce[s]
        BY <2>a, <4>1 DEF ReuseAnswerJustified
      <4>. QED
        BY <3>1, <4>1, <4>2
    <3>. QED
      BY <3>2, <3>3, <3>4 DEF ReuseInv
  <2>3. ASSUME NEW r \in Request, Lock(r) PROVE ReuseInv'
    <3>1. /\ UNCHANGED <<marker, at, nonce>>
          /\ \A s \in Request : pc'[s] = pc[s] \/ (pc[s] = "waiting" /\ pc'[s] = "locked")
      BY <2>3 DEF Lock, TypeOK
    <3>2. MarkerHasOwner'
      BY <2>a, <3>1 DEF MarkerHasOwner
    <3>3. GrantAfterStore'
      BY <2>a, <3>1 DEF GrantAfterStore
    <3>4. ReuseAnswerJustified'
      BY <2>a, <3>1 DEF ReuseAnswerJustified
    <3>. QED
      BY <3>2, <3>3, <3>4 DEF ReuseInv
  <2>4. ASSUME NEW r \in Request, CheckMarker(r) PROVE ReuseInv'
    <3>1. /\ UNCHANGED <<marker, at, nonce>>
          /\ nonce[r] \in Nonce /\ replica[r] \in Replica
          /\ \A s \in Request \ {r} : pc'[s] = pc[s]
          /\ pc[r] = "locked" /\ pc'[r] \in {"reused", "checked"}
      BY <2>4 DEF CheckMarker, TypeOK
    <3>2. ~Granted(r)
      BY <2>a, <3>1 DEF GrantAfterStore
    <3>3. pc'[r] = "reused" => marker[replica[r]][nonce[r]] > 0
      BY <2>4 DEF CheckMarker, MarkerLive, TypeOK
    <3>4. pc'[r] = "reused" => \E s \in Request \ {r} : Granted(s) /\ nonce[s] = nonce[r]
      BY <2>a, <3>1, <3>2, <3>3 DEF MarkerHasOwner
    <3>5. MarkerHasOwner'
      BY <2>a, <3>1 DEF MarkerHasOwner
    <3>6. GrantAfterStore'
      BY <2>a, <3>1, <3>2 DEF GrantAfterStore
    <3>7. ReuseAnswerJustified'
      BY <2>a, <3>1, <3>4 DEF ReuseAnswerJustified
    <3>. QED
      BY <3>5, <3>6, <3>7 DEF ReuseInv
  <2>5. ASSUME NEW r \in Request, StoreMarker(r) PROVE ReuseInv'
    <3>1. /\ Granted(r)'
          /\ \A s \in Request : Granted(s) => Granted(s)'
          /\ \A s \in Request \ {r} : pc'[s] = pc[s] /\ at'[s] = at[s]
          /\ pc'[r] = "stored"
          /\ UNCHANGED nonce
      BY <2>5 DEF StoreMarker, TypeOK
    <3>2. ASSUME NEW p \in Replica, NEW n \in Nonce
          PROVE  n = nonce[r] \/ marker'[p][n] = marker[p][n]
      <4>1. PICK until : UNCHANGED marker \/ Mark(replica[r], nonce[r], until)
        BY <2>5 DEF StoreMarker
      <4>. QED
        BY <4>1 DEF Mark, TypeOK
    <3>3. MarkerHasOwner'
      BY <2>a, <3>1, <3>2 DEF MarkerHasOwner
    <3>4. GrantAfterStore'
      BY <2>a, <3>1 DEF GrantAfterStore
    <3>5. ReuseAnswerJustified'
      BY <2>a, <3>1 DEF ReuseAnswerJustified
    <3>. QED
      BY <3>3, <3>4, <3>5 DEF ReuseInv
  <2>6. ASSUME NEW r \in Request, Return(r) PROVE ReuseInv'
    <3>1. /\ UNCHANGED <<marker, at, nonce>>
          /\ \A s \in Request : pc'[s] = pc[s] \/ pc'[s] = "accepted"
      BY <2>6 DEF Return, TypeOK
    <3>2. MarkerHasOwner'
      BY <2>a, <3>1 DEF MarkerHasOwner
    <3>3. GrantAfterStore'
      BY <2>a, <3>1 DEF GrantAfterStore
    <3>4. ReuseAnswerJustified'
      BY <2>a, <3>1 DEF ReuseAnswerJustified
    <3>. QED
      BY <3>2, <3>3, <3>4 DEF ReuseInv
  <2>7. ASSUME NEW p \in Replica, Crash(p) PROVE ReuseInv'
    <3>1. /\ UNCHANGED <<at, nonce>>
          /\ \A s \in Request : pc'[s] = pc[s] \/ pc'[s] = "crashed"
      BY <2>7 DEF Crash, TypeOK
    <3>2. ASSUME NEW q \in Replica, NEW n \in Nonce, marker'[q][n] > 0
          PROVE  marker[q][n] > 0
      <4>1. CASE UNCHANGED marker
        BY <3>2, <4>1
      <4>2. CASE marker' = [marker EXCEPT ![p] = [m \in Nonce |-> 0]]
        BY <3>2, <4>2 DEF TypeOK
      <4>. QED
        BY <2>7, <4>1, <4>2 DEF Crash
    <3>3. MarkerHasOwner'
      BY <2>a, <3>1, <3>2 DEF MarkerHasOwner
    <3>4. GrantAfterStore'
      BY <2>a, <3>1 DEF GrantAfterStore
    <3>5. ReuseAnswerJustified'
      BY <2>a, <3>1 DEF ReuseAnswerJustified
    <3>. QED
      BY <3>3, <3>4, <3>5 DEF ReuseInv
  <2>8. CASE Tick
    BY <2>8, <2>a DEF Tick, ReuseInv, MarkerHasOwner, GrantAfterStore, ReuseAnswerJustified
  <2>9. CASE UNCHANGED vars
    BY <2>9, <2>a DEF vars, ReuseInv, MarkerHasOwner, GrantAfterStore, ReuseAnswerJustified
  <2>. QED
    BY <2>1, <2>2, <2>3, <2>4, <2>5, <2>6, <2>7, <2>8, <2>9 DEF Next, Serve
<1>3. ReuseInv => ReuseAnswerJustified
  BY DEF ReuseInv
<1>. QED
  BY <1>1, <1>2, <1>3, NonceType, PTL DEF Spec

-----------------------------------------------------------------------------
(***************************************************************************)
(* The reuse marker.  What a call has read of the clock bounds what it     *)
(* stores, so a marker that is there covers the whole life of its token.   *)
(***************************************************************************)

ReadTimes ==
    \A r \in Request :
        /\ pc[r] \in InFlight \/ Granted(r) => nonce[r] \in minted
        /\ pc[r] \in InFlight => now[r] <= clock /\ now[r] <= exp[nonce[r]]
        /\ Granted(r) => at[r] <= clock

MarkerOfMinted == \A p \in Replica, n \in Nonce : marker[p][n] > 0 => n \in minted

MarkerInv == GrantAfterStore /\ ReadTimes /\ MarkerOfMinted /\ MarkerOutlivesToken

LEMMA MarkerInit == Init => MarkerInv
BY ParamAssumption DEF Init, MarkerInv, GrantAfterStore, ReadTimes, MarkerOfMinted,
    MarkerOutlivesToken

\* What a call stores ends no earlier than the token, and is stored for no other nonce.
LEMMA StoredEntry ==
    ASSUME TypeOK, MarkerInv, NEW r \in Request, StoreMarker(r)
    PROVE  /\ nonce[r] \in minted
           /\ \A p \in Replica, n \in Nonce :
                 \/ marker'[p][n] = marker[p][n]
                 \/ n = nonce[r] /\ marker'[p][n] \in Int /\ marker'[p][n] >= exp[n]
<1>1. /\ nonce[r] \in minted
      /\ exp[nonce[r]] - now[r] \in Int /\ now[r] <= clock
      /\ clock \in Nat /\ now[r] \in Nat /\ exp[nonce[r]] \in Int
  BY DEF StoreMarker, TypeOK, MarkerInv, ReadTimes
<1>2. PICK until \in EntryEnds(exp[nonce[r]] - now[r]) :
         UNCHANGED marker \/ Mark(replica[r], nonce[r], until)
  BY Zenon DEF StoreMarker
<1>3. until \in Int /\ until >= exp[nonce[r]]
  BY <1>1, <1>2, EntryEndsType
<1>. QED
  BY <1>1, <1>2, <1>3 DEF Mark, TypeOK

LEMMA MarkerStep == TypeOK /\ MarkerInv /\ [Next]_vars => MarkerInv'
<1> SUFFICES ASSUME TypeOK, MarkerInv, [Next]_vars PROVE MarkerInv'
  OBVIOUS
<1>a. GrantAfterStore /\ ReadTimes /\ MarkerOfMinted /\ MarkerOutlivesToken
  BY DEF MarkerInv
<1>1. ASSUME NEW n \in Nonce, Mint(n) PROVE MarkerInv'
  <2>1. /\ \A m \in Nonce \ {n} : exp'[m] = exp[m]
        /\ n \notin minted /\ minted' = minted \union {n}
        /\ UNCHANGED <<clock, marker, pc, nonce, now, at>>
    BY <1>1 DEF Mint, TypeOK
  <2>2. GrantAfterStore'
    BY <1>a, <2>1 DEF GrantAfterStore
  <2>3. ReadTimes'
    BY <1>a, <2>1 DEF ReadTimes, TypeOK
  <2>4. MarkerOfMinted' /\ MarkerOutlivesToken'
    BY <1>a, <2>1 DEF MarkerOfMinted, MarkerOutlivesToken
  <2>. QED
    BY <2>2, <2>3, <2>4 DEF MarkerInv
<1>2. ASSUME NEW r \in Request, NEW n \in Nonce, NEW p \in Replica, Arrive(r, n, p)
      PROVE  MarkerInv'
  <2>1. ~Granted(r) /\ pc[r] = "idle"
    BY <1>2, <1>a DEF Arrive, GrantAfterStore
  <2>2. /\ UNCHANGED <<clock, minted, exp, marker, at>>
        /\ \A s \in Request \ {r} : pc'[s] = pc[s] /\ nonce'[s] = nonce[s] /\ now'[s] = now[s]
        /\ nonce'[r] = n /\ now'[r] = clock
        /\ pc'[r] = "invalid" \/ (pc'[r] = "waiting" /\ n \in minted /\ clock <= exp[n])
    BY <1>2 DEF Arrive, ValidAt, TypeOK
  <2>3. GrantAfterStore'
    BY <1>a, <2>1, <2>2 DEF GrantAfterStore
  <2>4. ReadTimes'
    BY <1>a, <2>1, <2>2 DEF ReadTimes, TypeOK
  <2>5. MarkerOfMinted' /\ MarkerOutlivesToken'
    BY <1>a, <2>2 DEF MarkerOfMinted, MarkerOutlivesToken
  <2>. QED
    BY <2>3, <2>4, <2>5 DEF MarkerInv
<1>3. ASSUME NEW r \in Request, StoreMarker(r) PROVE MarkerInv'
  <2>1. /\ UNCHANGED <<clock, minted, exp, nonce, now>>
        /\ \A s \in Request \ {r} : pc'[s] = pc[s] /\ at'[s] = at[s]
        /\ pc[r] = "checked" /\ pc'[r] = "stored" /\ at'[r] = clock
    BY <1>3 DEF StoreMarker, TypeOK
  <2>2. GrantAfterStore'
    BY <1>a, <2>1 DEF GrantAfterStore
  <2>3. ReadTimes'
    BY <1>a, <2>1 DEF ReadTimes, TypeOK
  <2>4. MarkerOfMinted' /\ MarkerOutlivesToken'
    BY <1>3, <1>a, <2>1, StoredEntry DEF MarkerOfMinted, MarkerOutlivesToken
  <2>. QED
    BY <2>2, <2>3, <2>4 DEF MarkerInv
<1> DEFINE Quiet == /\ UNCHANGED <<minted, exp, nonce, now, at>>
                    /\ clock' \in Nat /\ clock <= clock'
                    /\ \A s \in Request : pc'[s] \in InFlight => pc[s] \in InFlight
                    /\ \A s \in Request : Granted(s) => pc'[s] \in {"stored", "accepted", "crashed"}
                    /\ \A p \in Replica, n \in Nonce : marker'[p][n] \in {marker[p][n], 0}
<1>4. Quiet => MarkerInv'
  <2>2. Quiet => GrantAfterStore'
    BY DEF GrantAfterStore
  <2>3. Quiet => ReadTimes'
    BY <1>a DEF ReadTimes, TypeOK
  <2>4. Quiet => MarkerOfMinted' /\ MarkerOutlivesToken'
    BY <1>a DEF MarkerOfMinted, MarkerOutlivesToken
  <2>. QED
    BY <2>2, <2>3, <2>4 DEF MarkerInv
<1>5. ASSUME NEW r \in Request, Lock(r) \/ CheckMarker(r) \/ Return(r) PROVE MarkerInv'
  <2>1. /\ UNCHANGED <<clock, minted, exp, marker, nonce, now, at>>
        /\ \A s \in Request \ {r} : pc'[s] = pc[s]
        /\ \/ pc[r] \in {"waiting", "locked"}
           \/ pc[r] = "stored" /\ pc'[r] = "accepted"
    BY <1>5 DEF Lock, CheckMarker, Return, TypeOK
  <2>2. Quiet
    BY <2>1, <1>a DEF TypeOK, GrantAfterStore
  <2>. QED
    BY <1>4, <2>2
<1>6. ASSUME NEW p \in Replica, Crash(p) PROVE MarkerInv'
  <2>1. \A q \in Replica, n \in Nonce : marker'[q][n] \in {marker[q][n], 0}
    <3>1. UNCHANGED marker \/ marker' = [marker EXCEPT ![p] = [n \in Nonce |-> 0]]
      BY <1>6 DEF Crash
    <3>2. marker \in [Replica -> [Nonce -> Int]]
      BY DEF TypeOK
    <3>3. CASE UNCHANGED marker
      BY <3>3
    <3>4. CASE marker' = [marker EXCEPT ![p] = [n \in Nonce |-> 0]]
      <4>1. ASSUME NEW q \in Replica, NEW n \in Nonce PROVE marker'[q][n] \in {marker[q][n], 0}
        BY <3>2, <3>4
      <4>. QED
        BY <4>1
    <3>. QED
      BY <3>1, <3>3, <3>4
  <2>2. /\ UNCHANGED <<clock, minted, exp, nonce, now, at>>
        /\ \A s \in Request : pc'[s] \in {pc[s], "crashed"}
    BY <1>6 DEF Crash
  <2>3. /\ \A s \in Request : pc'[s] \in InFlight => pc[s] \in InFlight
        /\ \A s \in Request : Granted(s) => pc'[s] \in {"stored", "accepted", "crashed"}
    BY <1>a, <2>2 DEF GrantAfterStore
  <2>4. clock' \in Nat /\ clock <= clock'
    BY <1>a, <2>2 DEF TypeOK
  <2>5. Quiet
    BY <2>1, <2>2, <2>3, <2>4
  <2>. QED
    BY <1>4, <2>5
<1>7. CASE Tick
  <2>1. Quiet
    BY <1>7, <1>a DEF Tick, TypeOK, GrantAfterStore
  <2>. QED
    BY <1>4, <2>1
<1>8. CASE UNCHANGED vars
  <2>1. Quiet
    BY <1>8, <1>a DEF vars, TypeOK, GrantAfterStore
  <2>. QED
    BY <1>4, <2>1
<1>. QED
  BY <1>1, <1>2, <1>3, <1>5, <1>6, <1>7, <1>8 DEF Next, Serve

\* A reuse marker never ends before its token: with any number of replicas,
\* with failing caches and with restarts.
THEOREM NonceMarkerOutlives == Spec => []MarkerOutlivesToken
<1>1. MarkerInv => MarkerOutlivesToken
  BY DEF MarkerInv
<1>. QED
  BY <1>1, MarkerInit, MarkerStep, NonceType, PTL DEF Spec

-----------------------------------------------------------------------------
(***************************************************************************)
(* A cache that keeps what it is told.  A call that was let through has    *)
(* left a marker for every process that sees the cache of its own.         *)
(***************************************************************************)

CacheKeeps ==
    /\ ~CacheFaults
    /\ Crashes => SharedCache

\* Process p finds what process q has stored.
Sees(p, q) == SharedCache \/ p = q

Covered ==
    \A r \in Request, p \in Replica :
        Granted(r) /\ Sees(p, replica[r]) => marker[p][nonce[r]] >= exp[nonce[r]]

LEMMA CoveredInit == Init => Covered
BY DEF Init, Covered

LEMMA CoveredStep ==
    ASSUME CacheKeeps, TypeOK, MarkerInv, Covered, [Next]_vars
    PROVE  Covered'
<1>a. GrantAfterStore /\ ReadTimes
  BY DEF MarkerInv
<1>1. ASSUME NEW n \in Nonce, Mint(n) PROVE Covered'
  <2>1. /\ \A m \in minted : exp'[m] = exp[m]
        /\ UNCHANGED <<marker, replica, nonce, at>>
    BY <1>1 DEF Mint, callVars, TypeOK
  <2>. QED
    BY <1>a, <2>1 DEF Covered, ReadTimes
<1>2. ASSUME NEW r \in Request, NEW n \in Nonce, NEW p \in Replica, Arrive(r, n, p)
      PROVE  Covered'
  <2>1. ~Granted(r)
    BY <1>2, <1>a DEF Arrive, GrantAfterStore
  <2>2. /\ UNCHANGED <<exp, marker, at>>
        /\ \A s \in Request \ {r} : nonce'[s] = nonce[s] /\ replica'[s] = replica[s]
    BY <1>2 DEF Arrive, TypeOK
  <2>. QED
    BY <2>1, <2>2 DEF Covered
<1>3. ASSUME NEW r \in Request, StoreMarker(r) PROVE Covered'
  <2>1. /\ UNCHANGED <<exp, replica, nonce>>
        /\ \A s \in Request \ {r} : at'[s] = at[s]
        /\ nonce[r] \in Nonce /\ replica[r] \in Replica
    BY <1>3 DEF StoreMarker, callVars, TypeOK
  <2>2. /\ exp[nonce[r]] - now[r] \in Int /\ now[r] <= clock
        /\ clock \in Nat /\ now[r] \in Nat /\ exp[nonce[r]] \in Int
    BY <1>3, <1>a DEF StoreMarker, TypeOK, ReadTimes
  <2>3. PICK until \in EntryEnds(exp[nonce[r]] - now[r]) : Mark(replica[r], nonce[r], until)
    BY <1>3 DEF StoreMarker, CacheMayFail, CacheKeeps
  <2>4. until \in Int /\ until >= exp[nonce[r]]
    BY <2>2, <2>3, EntryEndsType
  <2>5. \A p \in Replica : Sees(p, replica[r]) => marker'[p][nonce[r]] = until
    BY <2>1, <2>3 DEF Mark, Sees, TypeOK
  <2>6. \A s \in Request, p \in Replica :
           \/ marker'[p][nonce[s]] = marker[p][nonce[s]]
           \/ nonce[s] = nonce[r] /\ marker'[p][nonce[s]] = until
    BY <2>1, <2>3 DEF Mark, TypeOK
  <2>7. ASSUME NEW s \in Request \ {r}, NEW p \in Replica,
               Granted(s)', Sees(p, replica[s])
        PROVE  marker'[p][nonce[s]] >= exp[nonce[s]]
    <3>1. Granted(s)
      BY <2>1, <2>7
    <3>2. marker[p][nonce[s]] >= exp[nonce[s]]
      BY <2>7, <3>1 DEF Covered
    <3>. QED
      BY <2>4, <2>6, <3>2
  <2>. QED
    BY <2>1, <2>4, <2>5, <2>7 DEF Covered, Sees
<1>4. ASSUME NEW r \in Request, Lock(r) \/ CheckMarker(r) \/ Return(r) PROVE Covered'
  <2>1. UNCHANGED <<exp, marker, replica, nonce, at>>
    BY <1>4 DEF Lock, CheckMarker, Return, callVars
  <2>. QED
    BY <2>1 DEF Covered
<1>5. ASSUME NEW p \in Replica, Crash(p) PROVE Covered'
  <2>1. UNCHANGED <<exp, marker, replica, nonce, at>>
    BY <1>5 DEF Crash, callVars, CacheKeeps
  <2>. QED
    BY <2>1 DEF Covered
<1>6. CASE Tick
  BY <1>6 DEF Tick, callVars, Covered
<1>7. CASE UNCHANGED vars
  BY <1>7 DEF vars, callVars, Covered
<1>. QED
  BY <1>1, <1>2, <1>3, <1>4, <1>5, <1>6, <1>7 DEF Next, Serve

\* A call whose look-up comes after the store of another call for the same nonce,
\* in a process that sees it, passes the look-up only when the token has expired
\* meanwhile.
ReplayRefused ==
    [][\A r, s \in Request :
          /\ Granted(r) /\ nonce[r] = nonce[s] /\ Sees(replica[s], replica[r])
          /\ pc[s] = "locked" /\ pc'[s] = "checked"
          => clock >= exp[nonce[s]]]_vars

\* However many processes share a working cache, a nonce is only ever accepted
\* twice by calls that overlap: a replay after the store is refused.
THEOREM NonceReplayRefused == ASSUME CacheKeeps PROVE Spec => ReplayRefused
<1> DEFINE A == \A r, s \in Request :
                   /\ Granted(r) /\ nonce[r] = nonce[s] /\ Sees(replica[s], replica[r])
                   /\ pc[s] = "locked" /\ pc'[s] = "checked"
                   => clock >= exp[nonce[s]]
<1>1. TypeOK /\ MarkerInv /\ Covered /\ [Next]_vars => Covered'
  BY CoveredStep
<1>2. TypeOK /\ Covered /\ [Next]_vars => [A]_vars
  <2> SUFFICES ASSUME TypeOK, Covered, Next, NEW r \in Request, NEW s \in Request,
                      Granted(r), nonce[r] = nonce[s], Sees(replica[s], replica[r]),
                      pc[s] = "locked", pc'[s] = "checked"
               PROVE  clock >= exp[nonce[s]]
    OBVIOUS
  <2>1. CheckMarker(s)
    <3>1. \A q \in Request : Lock(q) => pc[q] = "waiting" /\ \A x \in Request \ {q} : pc'[x] = pc[x]
      BY DEF Lock, TypeOK
    <3>2. \A q \in Request : CheckMarker(q) => \A x \in Request \ {q} : pc'[x] = pc[x]
      BY DEF CheckMarker, TypeOK
    <3>3. \A q \in Request : StoreMarker(q) => pc'[s] # "checked" \/ pc[s] = "checked"
      BY DEF StoreMarker, TypeOK
    <3>4. \A q \in Request : Return(q) => pc'[s] # "checked" \/ pc[s] = "checked"
      BY DEF Return, TypeOK
    <3>5. \A q \in Request, n \in Nonce, p \in Replica :
             Arrive(q, n, p) => pc'[s] # "checked" \/ pc[s] = "checked"
      BY DEF Arrive, TypeOK
    <3>6. \A p \in Replica : Crash(p) => pc'[s] # "checked" \/ pc[s] = "checked"
      BY DEF Crash
    <3>. QED
      BY <3>1, <3>2, <3>3, <3>4, <3>5, <3>6 DEF Next, Serve, Mint, Tick
  <2>2. ~MarkerLive(replica[s], nonce[s])
    BY <2>1 DEF CheckMarker, CacheMayFail, CacheKeeps, TypeOK
  <2>3. marker[replica[s]][nonce[s]] >= exp[nonce[s]]
    BY DEF Covered, TypeOK
  <2>. QED
    BY <2>2, <2>3 DEF MarkerLive, TypeOK
<1>. QED
  BY <1>1, <1>2, MarkerInit, MarkerStep, CoveredInit, NonceType, PTL DEF Spec, ReplayRefused

-----------------------------------------------------------------------------
(***************************************************************************)
(* Single use.  Within a process the mutex keeps a look-up fresh until its *)
(* store (LookupFresh), and the marker covers the rest (Covered).          *)
(***************************************************************************)

LookupFresh ==
    \A r, s \in Request :
        pc[r] = "checked" /\ Granted(s) /\ nonce[r] = nonce[s] /\ replica[r] = replica[s]
            => clock >= exp[nonce[r]]

\* SingleUseWhileValid for the calls that one process serves.
SingleUsePerProcess ==
    \A r, s \in Request :
        r # s /\ Granted(r) /\ Granted(s) /\ nonce[r] = nonce[s] /\ replica[r] = replica[s]
            => at[r] >= exp[nonce[r]] \/ at[s] >= exp[nonce[s]]

SingleUseInv == MarkerInv /\ Covered /\ LookupFresh /\ SingleUsePerProcess

LEMMA SingleUseInit == Init => SingleUseInv
<1>1. Init => LookupFresh /\ SingleUsePerProcess
  BY DEF Init, LookupFresh, SingleUsePerProcess
<1>. QED
  BY <1>1, MarkerInit, CoveredInit DEF SingleUseInv

LEMMA SingleUseStep ==
    ASSUME CacheKeeps, TypeOK, LockHeldByServing, SingleUseInv, [Next]_vars
    PROVE  SingleUseInv'
<1>1. MarkerInv' /\ Covered'
  BY MarkerStep, CoveredStep, Zenon DEF SingleUseInv
<1>a. GrantAfterStore /\ ReadTimes /\ Covered /\ LookupFresh /\ SingleUsePerProcess
  BY DEF SingleUseInv, MarkerInv
<1>2. LookupFresh' /\ SingleUsePerProcess'
  <2>1. ASSUME NEW n \in Nonce, Mint(n) PROVE LookupFresh' /\ SingleUsePerProcess'
    <3>1. /\ \A m \in minted : exp'[m] = exp[m]
          /\ UNCHANGED <<clock, pc, replica, nonce, at>>
      BY <2>1 DEF Mint, callVars, TypeOK
    <3>. QED
      BY <1>a, <3>1 DEF LookupFresh, SingleUsePerProcess, ReadTimes
  <2>2. ASSUME NEW r \in Request, NEW n \in Nonce, NEW p \in Replica, Arrive(r, n, p)
        PROVE  LookupFresh' /\ SingleUsePerProcess'
    <3>1. ~Granted(r)
      BY <2>2, <1>a DEF Arrive, GrantAfterStore
    <3>2. /\ UNCHANGED <<clock, exp, at>> /\ pc'[r] # "checked"
          /\ \A s \in Request \ {r} : pc'[s] = pc[s] /\ nonce'[s] = nonce[s] /\ replica'[s] = replica[s]
      BY <2>2 DEF Arrive, TypeOK
    <3>. QED
      BY <1>a, <3>1, <3>2 DEF LookupFresh, SingleUsePerProcess
  <2>3. ASSUME NEW r \in Request, CheckMarker(r) PROVE LookupFresh' /\ SingleUsePerProcess'
    <3>1. /\ UNCHANGED <<clock, exp, marker, replica, nonce, at>>
          /\ \A s \in Request \ {r} : pc'[s] = pc[s]
      BY <2>3 DEF CheckMarker, callVars, TypeOK
    <3>2. pc'[r] = "checked" => ~(clock < marker[replica[r]][nonce[r]])
      BY <2>3 DEF CheckMarker, CacheMayFail, CacheKeeps, MarkerLive, TypeOK
    <3>3. \A s \in Request : Granted(s) /\ nonce[r] = nonce[s] /\ replica[r] = replica[s] =>
             marker[replica[r]][nonce[r]] >= exp[nonce[r]]
      BY <1>a DEF Covered, Sees, TypeOK
    <3>4. /\ marker[replica[r]][nonce[r]] \in Int /\ exp[nonce[r]] \in Int /\ clock \in Nat
      BY DEF TypeOK
    <3>. QED
      BY <1>a, <3>1, <3>2, <3>3, <3>4 DEF LookupFresh, SingleUsePerProcess
  <2>4. ASSUME NEW r \in Request, StoreMarker(r) PROVE LookupFresh' /\ SingleUsePerProcess'
    <3>1. /\ UNCHANGED <<clock, exp, replica, nonce>>
          /\ \A s \in Request \ {r} : pc'[s] = pc[s] /\ at'[s] = at[s]
          /\ pc[r] = "checked" /\ pc'[r] = "stored" /\ at'[r] = clock
      BY <2>4 DEF StoreMarker, callVars, TypeOK
    <3>2. \A s \in Request \ {r} : pc[s] = "checked" => replica[s] # replica[r]
      BY <3>1 DEF LockHeldByServing, TypeOK
    <3>3. LookupFresh'
      BY <1>a, <3>1, <3>2 DEF LookupFresh
    <3>4. SingleUsePerProcess'
      BY <1>a, <3>1 DEF LookupFresh, SingleUsePerProcess
    <3>. QED
      BY <3>3, <3>4
  <2>5. ASSUME NEW r \in Request, Lock(r) \/ Return(r)
        PROVE  LookupFresh' /\ SingleUsePerProcess'
    <3>1. /\ UNCHANGED <<clock, exp, replica, nonce, at>>
          /\ \A s \in Request : pc'[s] = "checked" => pc[s] = "checked"
      BY <2>5 DEF Lock, Return, callVars, TypeOK
    <3>. QED
      BY <1>a, <3>1 DEF LookupFresh, SingleUsePerProcess
  <2>6. ASSUME NEW p \in Replica, Crash(p) PROVE LookupFresh' /\ SingleUsePerProcess'
    <3>1. /\ UNCHANGED <<clock, exp, replica, nonce, at>>
          /\ \A s \in Request : pc'[s] = "checked" => pc[s] = "checked"
      BY <2>6 DEF Crash, callVars
    <3>. QED
      BY <1>a, <3>1 DEF LookupFresh, SingleUsePerProcess
  <2>7. CASE Tick
    BY <2>7, <1>a DEF Tick, callVars, LookupFresh, SingleUsePerProcess, TypeOK
  <2>8. CASE UNCHANGED vars
    BY <2>8, <1>a DEF vars, callVars, LookupFresh, SingleUsePerProcess
  <2>. QED
    BY <2>1, <2>2, <2>3, <2>4, <2>5, <2>6, <2>7, <2>8 DEF Next, Serve
<1>. QED
  BY <1>1, <1>2 DEF SingleUseInv

\* With a cache that answers and loses nothing, one process accepts a nonce at most
\* once before its token expires, however many other processes there are.
THEOREM NonceSingleUsePerProcess == ASSUME CacheKeeps PROVE Spec => []SingleUsePerProcess
<1>1. SingleUseInv => SingleUsePerProcess
  BY DEF SingleUseInv
<1>2. TypeOK /\ LockHeldByServing /\ SingleUseInv /\ [Next]_vars => SingleUseInv'
  BY SingleUseStep
<1>. QED
  BY <1>1, <1>2, SingleUseInit, NonceType, NonceLock, PTL DEF Spec

\* If there is one process only, that is all: the nonce is accepted once.
THEOREM NonceSingleUse == ASSUME Reliable PROVE Spec => []SingleUseWhileValid
<1>1. CacheKeeps
  BY DEF CacheKeeps, Reliable
<1>2. TypeOK /\ SingleUsePerProcess => SingleUseWhileValid
  BY DEF Reliable, TypeOK, SingleUsePerProcess, SingleUseWhileValid
<1>. QED
  BY <1>1, <1>2, NonceSingleUsePerProcess, NonceType, PTL

-----------------------------------------------------------------------------
(***************************************************************************)
(* Refinement of the abstract one-time nonce.                              *)
(***************************************************************************)

Expired == {n \in minted : clock >= exp[n]}
Grants == {<<r, nonce[r]>> : r \in {x \in Request : Granted(x)}}

LEMMA RefineInit == Init => OneTime!Init
BY DEF Init, OneTime!Init

LEMMA RefineStep ==
    ASSUME Reliable, LongLived, TypeOK, SingleUseInv, [Next]_vars
    PROVE  [OneTime!Next]_(OneTime!avars)
<1> USE DEF TypeOK, OneTime!avars
<1>. SUFFICES \/ OneTime!Next
              \/ UNCHANGED <<minted, Expired, Grants>>
  BY DEF Expired, Grants
<1>1. ASSUME NEW n \in Nonce, Mint(n) PROVE OneTime!Next
  <2>1. clock + NonceTTL \in Nat /\ NonceTTL >= Second
    BY ParamAssumption DEF LongLived
  <2>2. exp'[n] > clock /\ \A m \in minted : exp'[m] = exp[m]
    BY <1>1, <2>1, WholeSecondBound, ParamAssumption DEF Mint
  <2>3. minted' = minted \union {n} /\ n \notin minted /\ clock' = clock
    BY <1>1 DEF Mint
  <2>4. ~(clock >= exp'[n])
    <3>1. exp'[n] \in Int
      BY <1>1, <2>1, WholeSecondBound DEF Mint
    <3>. QED
      BY <2>2, <3>1
  <2>5. Expired' = Expired
    BY <2>2, <2>3, <2>4 DEF Expired
  <2>6. OneTime!Issue(n)
    BY <1>1, <2>3, <2>5 DEF Mint, OneTime!Issue, Expired
  <2>. QED
    BY <2>6 DEF OneTime!Next
<1>2. ASSUME NEW r \in Request, NEW n \in Nonce, NEW p \in Replica, Arrive(r, n, p)
      PROVE  UNCHANGED <<minted, Expired, Grants>>
  <2>1. ~Granted(r) /\ ~Granted(r)'
    BY <1>2 DEF Arrive, SingleUseInv, MarkerInv, GrantAfterStore
  <2>2. \A s \in Request : Granted(s)' = Granted(s) /\ (Granted(s) => nonce'[s] = nonce[s])
    BY <1>2, <2>1 DEF Arrive
  <2>3. UNCHANGED Grants
    BY <2>2 DEF Grants
  <2>. QED
    BY <1>2, <2>3 DEF Arrive, Expired
<1>3. ASSUME NEW r \in Request, Lock(r) PROVE UNCHANGED <<minted, Expired, Grants>>
  BY <1>3 DEF Lock, Expired, Grants
<1>4. ASSUME NEW r \in Request, CheckMarker(r) PROVE UNCHANGED <<minted, Expired, Grants>>
  BY <1>4 DEF CheckMarker, Expired, Grants
<1>5. ASSUME NEW r \in Request, StoreMarker(r) PROVE OneTime!Next
  <2>0. PICK n \in Nonce : n = nonce[r]
    OBVIOUS
  <2>1. n \in minted
    BY <1>5, <2>0 DEF StoreMarker, SingleUseInv, MarkerInv, ReadTimes
  <2>2. \A s \in Request : Granted(s) /\ nonce[s] = n => n \in Expired
    BY <1>5, <2>0, <2>1 DEF StoreMarker, SingleUseInv, LookupFresh, Reliable, Expired
  <2>3. \A s \in Request : Granted(s)' <=> Granted(s) \/ s = r
    BY <1>5 DEF StoreMarker
  <2>4. Grants' = Grants \union {<<r, n>>}
    BY <1>5, <2>0, <2>3 DEF StoreMarker, Grants
  <2>5. UNCHANGED <<minted, Expired>>
    BY <1>5 DEF StoreMarker, Expired
  <2>6. OneTime!Grant(r, n)
    BY <2>1, <2>2, <2>4, <2>5 DEF OneTime!Grant, Expired, Grants
  <2>. QED
    BY <2>6 DEF OneTime!Next
<1>6. ASSUME NEW r \in Request, Return(r) PROVE UNCHANGED <<minted, Expired, Grants>>
  BY <1>6 DEF Return, Expired, Grants
<1>7. ASSUME NEW p \in Replica, Crash(p) PROVE UNCHANGED <<minted, Expired, Grants>>
  BY <1>7 DEF Crash, Expired, Grants
<1>8. CASE Tick
  <2>1. Expired' \subseteq minted /\ Expired \subseteq Expired' /\ minted \subseteq Nonce
    BY <1>8 DEF Tick, Expired
  <2>2. PICK N \in SUBSET Nonce : N = Expired' \ Expired
    BY <2>1
  <2>3. N \subseteq minted \ Expired /\ Expired' = Expired \union N
    BY <2>1, <2>2
  <2>4. UNCHANGED <<minted, Grants>>
    BY <1>8 DEF Tick, Grants
  <2>5. OneTime!Expire(N)
    BY <2>3, <2>4 DEF OneTime!Expire, Expired, Grants
  <2>. QED
    BY <2>5 DEF OneTime!Next
<1>9. CASE UNCHANGED vars
  BY <1>9 DEF vars, Expired, Grants
<1>. QED
  BY <1>1, <1>2, <1>3, <1>4, <1>5, <1>6, <1>7, <1>8, <1>9 DEF Next, Serve

\* Under the same conditions ValidateNonce implements the abstract one-time nonce.
THEOREM NonceImplementsOneTime == ASSUME Reliable, LongLived PROVE Spec => ImplementsOneTimeNonce
<1>1. TypeOK /\ LockHeldByServing /\ SingleUseInv /\ [Next]_vars => SingleUseInv'
  BY SingleUseStep DEF CacheKeeps, Reliable
<1>2. TypeOK /\ SingleUseInv /\ [Next]_vars => [OneTime!Next]_(OneTime!avars)
  BY RefineStep
<1>. QED
  BY <1>1, <1>2, SingleUseInit, RefineInit, NonceType, NonceLock, PTL
     DEF Spec, ImplementsOneTimeNonce, OneTime!Spec

=============================================================================
