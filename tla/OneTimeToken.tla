---------------------------- MODULE OneTimeToken ----------------------------
(***************************************************************************)
(* A token that is good for one use: what the nonce service (Nonce.tla)    *)
(* and the wallet unit attestations (WalletUnit.tla) promise, with no word *)
(* about caches, locks or clocks.  An issued token is granted to at most   *)
(* one request for as long as it has not expired.                          *)
(***************************************************************************)

CONSTANTS Request, Token

VARIABLES
    issued,     \* tokens handed to a wallet
    expired,    \* issued tokens whose lifetime is over
    grants      \* <<request, token>> pairs: requests that were let through

avars == <<issued, expired, grants>>

Init ==
    /\ issued = {}
    /\ expired = {}
    /\ grants = {}

Issue(n) ==
    /\ n \notin issued
    /\ issued' = issued \union {n}
    /\ UNCHANGED <<expired, grants>>

\* Any number of tokens may run out together: the passing of time is one step.
Expire(N) ==
    /\ N \subseteq issued \ expired
    /\ expired' = expired \union N
    /\ UNCHANGED <<issued, grants>>

\* The promise.  Once expired a token is no longer tracked, so the guard says
\* nothing about it: a request that was admitted in time may still complete.
Grant(r, n) ==
    /\ n \in issued
    /\ n \in expired \/ \A g \in grants : g[2] # n
    /\ grants' = grants \union {<<r, n>>}
    /\ UNCHANGED <<issued, expired>>

Next ==
    \/ \E n \in Token : Issue(n)
    \/ \E N \in SUBSET Token : Expire(N)
    \/ \E r \in Request, n \in Token : Grant(r, n)

Spec == Init /\ [][Next]_avars

=============================================================================
