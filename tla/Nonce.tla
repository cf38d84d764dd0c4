------------------------------- MODULE Nonce --------------------------------
(***************************************************************************)
(* The nonce service of package openid4vci: Nonce mints an encrypted       *)
(* paseto token, ValidateNonce accepts it once.  A nonce is remembered     *)
(* only as a "reuse marker" in the nonce-reuse cache, whose entry lives as *)
(* long as the token would still be valid; a mutex of the process keeps    *)
(* the look-up and the store of one request together.                      *)
(*                                                                         *)
(* A request is one call of ValidateNonce, run by a goroutine of one       *)
(* replica of the server.  The clock of the replicas is one variable: they *)
(* are taken to be synchronised, and time does not run backwards.          *)
(***************************************************************************)
EXTENDS Integers

CONSTANTS
    Request,        \* calls of ValidateNonce
    Nonce,          \* the ulids a token can carry as its subject
    Replica,        \* server processes
    NonceTTL,       \* ISSUER_NONCE_TTL, in clock ticks
    Second,         \* clock ticks in a second: tokens carry whole seconds
    MaxClock,       \* bound on the clock
    SharedCache,    \* CACHE_TYPE redis (TRUE) or memory (FALSE)
    CacheFaults,    \* the cache may fail a Get or a Set
    Crashes,        \* a replica may crash and restart
    NoRequest       \* the mutex is free

ASSUME ParamAssumption ==
    /\ Second \in Nat \ {0}
    /\ NonceTTL \in Nat \ {0}
    /\ MaxClock \in Nat
    /\ SharedCache \in BOOLEAN
    /\ CacheFaults \in BOOLEAN
    /\ Crashes \in BOOLEAN
    /\ NoRequest \notin Request

VARIABLES
    clock,
    minted,     \* nonces whose token has been handed out
    exp,        \* exp[n]: expiration claim of the token of n
    marker,     \* marker[p][n]: when the reuse marker of n, as p sees it, ends
    lock,       \* lock[p]: the request that holds nonceLock in p
    pc,         \* where each request stands in ValidateNonce
    replica,    \* the process that serves the request
    nonce,      \* the nonce the request presents
    now,        \* the time it read on entry, before it waits for the mutex
    at          \* when it stored its marker, Never before

vars == <<clock, minted, exp, marker, lock, pc, replica, nonce, now, at>>
callVars == <<replica, nonce, now>>

Never == -1
Serving == {"locked", "checked", "stored"}
InFlight == Serving \union {"waiting"}
Answered == {"accepted", "invalid", "reused"}

Granted(r) == at[r] # Never

TypeOK ==
    /\ clock \in Nat
    /\ minted \in SUBSET Nonce
    /\ exp \in [Nonce -> Int]
    /\ \A n \in Nonce : exp[n] <= clock + NonceTTL
    /\ marker \in [Replica -> [Nonce -> Int]]
    /\ lock \in [Replica -> Request \union {NoRequest}]
    /\ pc \in [Request -> {"idle", "crashed"} \union InFlight \union Answered]
    /\ replica \in [Request -> Replica]
    /\ nonce \in [Request -> Nonce]
    /\ now \in [Request -> Nat]
    /\ at \in [Request -> Nat \union {Never}]

Init ==
    /\ clock = 0
    /\ minted = {}
    /\ exp = [n \in Nonce |-> 0]
    /\ marker = [p \in Replica |-> [n \in Nonce |-> 0]]
    /\ lock = [p \in Replica |-> NoRequest]
    /\ pc = [r \in Request |-> "idle"]
    /\ replica \in {[r \in Request |-> p] : p \in Replica}
    /\ nonce \in {[r \in Request |-> n] : n \in Nonce}
    /\ now = [r \in Request |-> 0]
    /\ at = [r \in Request |-> Never]

\* Fault: rounded up to the next whole second.
WholeSecond_Up(t) == t + Second - (t % Second)

\* The time a token carries: paseto writes it without fractions of a second.
WholeSecond(t) == t - (t % Second)

\* POST /nonce.  Its not-before is no later than the clock, so it plays no part.
Mint(n) ==
    /\ n \notin minted
    /\ minted' = minted \union {n}
    /\ exp' = [exp EXCEPT ![n] = WholeSecond(clock + NonceTTL)]
    /\ UNCHANGED <<clock, marker, lock, pc, callVars, at>>

ValidAt(n, t) == n \in minted /\ t <= exp[n]

\* The call reads the time and decrypts the token: only a token this service
\* minted, not expired at that time, gets as far as the mutex.
Arrive(r, n, p) ==
    /\ pc[r] = "idle"
    /\ replica' = [replica EXCEPT ![r] = p]
    /\ nonce' = [nonce EXCEPT ![r] = n]
    /\ now' = [now EXCEPT ![r] = clock]
    /\ pc' = [pc EXCEPT ![r] = IF ValidAt(n, clock) THEN "waiting" ELSE "invalid"]
    /\ UNCHANGED <<clock, minted, exp, marker, lock, at>>

\* Fault: no mutual exclusion.
Lock_NoWait(r) ==
    /\ pc[r] = "waiting"
    /\ lock' = [lock EXCEPT ![replica[r]] = r]
    /\ pc' = [pc EXCEPT ![r] = "locked"]
    /\ UNCHANGED <<clock, minted, exp, marker, callVars, at>>

Lock(r) ==
    /\ pc[r] = "waiting"
    /\ lock[replica[r]] = NoRequest
    /\ lock' = [lock EXCEPT ![replica[r]] = r]
    /\ pc' = [pc EXCEPT ![r] = "locked"]
    /\ UNCHANGED <<clock, minted, exp, marker, callVars, at>>

Unlock(r) == lock' = [lock EXCEPT ![replica[r]] = NoRequest]

CacheMayFail == IF CacheFaults THEN BOOLEAN ELSE {FALSE}
MarkerLive(p, n) == clock < marker[p][n]

\* Fault: a failing cache is read as "used already".
CheckMarker_FailClosed(r) ==
    /\ pc[r] = "locked"
    /\ \E failed \in CacheMayFail :
          IF failed \/ MarkerLive(replica[r], nonce[r])
          THEN pc' = [pc EXCEPT ![r] = "reused"] /\ Unlock(r)
          ELSE pc' = [pc EXCEPT ![r] = "checked"] /\ UNCHANGED lock
    /\ UNCHANGED <<clock, minted, exp, marker, callVars, at>>

\* Fault: the mutex is not released on the error return.
CheckMarker_KeepsLock(r) ==
    /\ pc[r] = "locked"
    /\ \E failed \in CacheMayFail :
          IF ~failed /\ MarkerLive(replica[r], nonce[r])
          THEN pc' = [pc EXCEPT ![r] = "reused"]
          ELSE pc' = [pc EXCEPT ![r] = "checked"]
    /\ UNCHANGED <<clock, minted, exp, marker, lock, callVars, at>>

\* The look-up.  A failing cache is logged and read as "not used yet".
CheckMarker(r) ==
    /\ pc[r] = "locked"
    /\ \E failed \in CacheMayFail :
          IF ~failed /\ MarkerLive(replica[r], nonce[r])
          THEN pc' = [pc EXCEPT ![r] = "reused"] /\ Unlock(r)
          ELSE pc' = [pc EXCEPT ![r] = "checked"] /\ UNCHANGED lock
    /\ UNCHANGED <<clock, minted, exp, marker, callVars, at>>

\* A write to a shared cache is seen by every replica.
Mark(p, n, until) ==
    marker' = [q \in Replica |->
                 IF SharedCache \/ q = p
                 THEN [marker[q] EXCEPT ![n] = until]
                 ELSE marker[q]]

\* Fault: the entry is gone one tick before the token expires.
EntryEnds_Short(ttl) == {clock + ttl - 1}

\* When the cache drops an entry stored now with this time to live.  The cache
\* library may read a zero as "none given" and use the default, NonceTTL.
EntryEnds(ttl) == IF ttl = 0 THEN {clock, clock + NonceTTL} ELSE {clock + ttl}

\* The store.  The time to live is counted from the time read on entry; a
\* failing cache is logged and the nonce accepted all the same.
StoreMarker(r) ==
    /\ pc[r] = "checked"
    /\ \E failed \in CacheMayFail, until \in EntryEnds(exp[nonce[r]] - now[r]) :
          IF failed THEN UNCHANGED marker ELSE Mark(replica[r], nonce[r], until)
    /\ at' = [at EXCEPT ![r] = clock]
    /\ pc' = [pc EXCEPT ![r] = "stored"]
    /\ UNCHANGED <<clock, minted, exp, lock, callVars>>

\* Fault: the mutex is not released on success.
Return_KeepsLock(r) ==
    /\ pc[r] = "stored"
    /\ pc' = [pc EXCEPT ![r] = "accepted"]
    /\ UNCHANGED <<clock, minted, exp, marker, lock, callVars, at>>

\* The audience is returned and the deferred unlock runs.
Return(r) ==
    /\ pc[r] = "stored"
    /\ pc' = [pc EXCEPT ![r] = "accepted"]
    /\ Unlock(r)
    /\ UNCHANGED <<clock, minted, exp, marker, callVars, at>>

\* A restart loses the calls in progress, the mutex and a memory cache.
Crash(p) ==
    /\ Crashes
    /\ pc' = [r \in Request |->
                IF replica[r] = p /\ pc[r] \in InFlight THEN "crashed" ELSE pc[r]]
    /\ lock' = [lock EXCEPT ![p] = NoRequest]
    /\ IF SharedCache THEN UNCHANGED marker
       ELSE marker' = [marker EXCEPT ![p] = [n \in Nonce |-> 0]]
    /\ UNCHANGED <<clock, minted, exp, callVars, at>>

Tick ==
    /\ clock < MaxClock
    /\ clock' = clock + 1
    /\ UNCHANGED <<minted, exp, marker, lock, pc, callVars, at>>

Serve(r) == Lock(r) \/ CheckMarker(r) \/ StoreMarker(r) \/ Return(r)

Next ==
    \/ \E n \in Nonce : Mint(n)
    \/ \E r \in Request, n \in Nonce, p \in Replica : Arrive(r, n, p)
    \/ \E r \in Request : Serve(r)
    \/ \E p \in Replica : Crash(p)
    \/ Tick

\* A goroutine keeps running, and the mutex hands over to a starving waiter.
Fairness == \A r \in Request : WF_vars(Serve(r)) /\ SF_vars(Lock(r))

Spec == Init /\ [][Next]_vars
FairSpec == Spec /\ Fairness

-----------------------------------------------------------------------------
(***************************************************************************)
(* Properties.                                                             *)
(***************************************************************************)

\* When the promise of single use can be kept at all: one process, a cache
\* that answers, and no restart that empties it.
Reliable ==
    /\ \A p, q \in Replica : p = q
    /\ ~CacheFaults
    /\ Crashes => SharedCache

\* Of two requests that ValidateNonce lets through with the same nonce, one
\* was let through when the token had already expired (it had read the time
\* before, and waited for the mutex or the cache meanwhile).
SingleUseWhileValid ==
    \A r, s \in Request :
        r # s /\ Granted(r) /\ Granted(s) /\ nonce[r] = nonce[s]
            => at[r] >= exp[nonce[r]] \/ at[s] >= exp[nonce[s]]

\* A token outlives the rounding of its expiration to whole seconds.
LongLived == NonceTTL >= Second

\* ValidateNonce implements the abstract one-time nonce.
OneTime == INSTANCE OneTimeToken WITH
    Token <- Nonce,
    issued <- minted,
    expired <- {n \in minted : clock >= exp[n]},
    grants <- {<<r, nonce[r]>> : r \in {x \in Request : Granted(x)}}
ImplementsOneTimeNonce == OneTime!Spec

\* A valid nonce is never refused on its first use, whatever the cache does:
\* a "reuse" answer means some other request stored a marker for that nonce.
ReuseAnswerJustified ==
    \A r \in Request : pc[r] = "reused" =>
        \E s \in Request \ {r} : Granted(s) /\ nonce[s] = nonce[r]

\* A reuse marker never ends before the token it stands for, though its time to
\* live is counted from a time read before the mutex was waited for.
MarkerOutlivesToken ==
    \A p \in Replica, n \in Nonce : marker[p][n] > 0 => marker[p][n] >= exp[n]

\* The section between look-up and store is exclusive within a process, and
\* every exit path of ValidateNonce and every restart releases the mutex.
LockHeldByServing ==
    \A r \in Request, p \in Replica :
        lock[p] = r <=> (pc[r] \in Serving /\ replica[r] = p)

\* What nonce_test.go expects of a replayed nonce: the second use is refused.
ReplayRejected ==
    \A r, s \in Request :
        r # s /\ nonce[r] = nonce[s] => ~(pc[r] = "accepted" /\ pc[s] = "accepted")

\* Every call is answered, unless its process crashes.
EveryCallEnds ==
    \A r \in Request : pc[r] = "waiting" ~> pc[r] \in Answered \union {"crashed"}

=============================================================================
