--------------------------- MODULE EparakstsProofs --------------------------
(***************************************************************************)
(* Theorems about Eparaksts, for every set of calls, ids and sessions.     *)
(***************************************************************************)
EXTENDS Eparaksts, TLAPS

USE DEF Active, Goto, Begin, Failing, CloseFailed, lossVars

\* The types of the session cache, the service and the calls; in particular a
\* call that goes to the service for a file, or stores a session, has one.
THEOREM EparakstsType == Spec => []TypeOK
<1>1. Init => TypeOK
  BY DEF Init, TypeOK
<1>2. TypeOK /\ [Next]_vars => TypeOK'
  <2> SUFFICES ASSUME TypeOK, [Next]_vars PROVE TypeOK'
    OBVIOUS
  <2> USE ParamAssumption DEF TypeOK
  <2>1. ASSUME NEW c \in Call, NEW q \in RequestID, PrepareLookup(c, q) PROVE TypeOK'
    BY <2>1 DEF PrepareLookup
  <2>2. ASSUME NEW c \in Call, NEW q \in RequestID, DownloadLookup(c, q) PROVE TypeOK'
    BY <2>2 DEF DownloadLookup
  <2>3. ASSUME NEW c \in Call, NEW q \in RequestID, CloseLookup(c, q) PROVE TypeOK'
    BY <2>3 DEF CloseLookup
  <2>4. ASSUME NEW c \in Call, PrepareRemote(c) PROVE TypeOK'
    <3>0. UNCHANGED <<cache, id, overlapped, unclosed>> /\ sound' \in BOOLEAN
      BY <2>4 DEF PrepareRemote
    <3>1. CASE \E s \in Session, fails \in BOOLEAN :
                  /\ owner' = [owner EXCEPT ![s] = id[c]]
                  /\ open' = open \union {s}
                  /\ \/ fails /\ Goto(c, "failed") /\ lost' = lost \union {s} /\ UNCHANGED sid
                     \/ /\ ~fails /\ Goto(c, "prepared")
                        /\ sid' = [sid EXCEPT ![c] = s] /\ UNCHANGED lost
      BY <3>0, <3>1
    <3>2. CASE Goto(c, "failed") /\ UNCHANGED <<owner, open, sid, lost>>
      BY <3>0, <3>2
    <3>. QED
      BY <2>4, <3>1, <3>2 DEF PrepareRemote
  <2>5. ASSUME NEW c \in Call, PrepareStore(c) PROVE TypeOK'
    BY <2>5 DEF PrepareStore
  <2>6. ASSUME NEW c \in Call, DownloadFetch(c) PROVE TypeOK'
    BY <2>6 DEF DownloadFetch
  <2>7. ASSUME NEW c \in Call, CloseRemote(c) PROVE TypeOK'
    BY <2>7 DEF CloseRemote
  <2>8. ASSUME NEW c \in Call, CloseDelete(c) PROVE TypeOK'
    BY <2>8 DEF CloseDelete
  <2>9. ASSUME NEW q \in RequestID, Expire(q) PROVE TypeOK'
    BY <2>9 DEF Expire
  <2>10. CASE UNCHANGED vars
    BY <2>10 DEF vars
  <2>. QED
    BY <2>1, <2>2, <2>3, <2>4, <2>5, <2>6, <2>7, <2>8, <2>9, <2>10 DEF Next, Prepare, Close
<1>. QED
  BY <1>1, <1>2, PTL DEF Spec

-----------------------------------------------------------------------------
(***************************************************************************)
(* Every session id in the system belongs to the request id it is found    *)
(* under, in the cache as in a call.                                       *)
(***************************************************************************)

OwnInv ==
    /\ \A q \in RequestID : cache[q] # NoSession => owner[cache[q]] = q
    /\ \A c \in Call : pc[c] \in {"idle", "vacant"} => sid[c] = NoSession
    /\ OwnSession

LEMMA OwnInit == Init => OwnInv
BY DEF Init, OwnInv, OwnSession

LEMMA OwnStep ==
    ASSUME TypeOK, OwnInv, [Next]_vars
    PROVE  OwnInv'
<1> USE ParamAssumption DEF TypeOK, OwnInv, OwnSession
<1>1. ASSUME NEW c \in Call, NEW q \in RequestID, PrepareLookup(c, q) PROVE OwnInv'
  BY <1>1 DEF PrepareLookup
<1>2. ASSUME NEW c \in Call, NEW q \in RequestID, DownloadLookup(c, q) PROVE OwnInv'
  BY <1>2 DEF DownloadLookup
<1>3. ASSUME NEW c \in Call, NEW q \in RequestID, CloseLookup(c, q) PROVE OwnInv'
  BY <1>3 DEF CloseLookup
<1>4. ASSUME NEW c \in Call, PrepareRemote(c) PROVE OwnInv'
  BY <1>4 DEF PrepareRemote
<1>5. ASSUME NEW c \in Call, PrepareStore(c) PROVE OwnInv'
  BY <1>5 DEF PrepareStore
<1>6. ASSUME NEW c \in Call, DownloadFetch(c) PROVE OwnInv'
  BY <1>6 DEF DownloadFetch
<1>7. ASSUME NEW c \in Call, CloseRemote(c) PROVE OwnInv'
  BY <1>7 DEF CloseRemote
<1>8. ASSUME NEW c \in Call, CloseDelete(c) PROVE OwnInv'
  BY <1>8 DEF CloseDelete
<1>9. ASSUME NEW q \in RequestID, Expire(q) PROVE OwnInv'
  BY <1>9 DEF Expire
<1>10. CASE UNCHANGED vars
  BY <1>10 DEF vars
<1>. QED
  BY <1>1, <1>2, <1>3, <1>4, <1>5, <1>6, <1>7, <1>8, <1>9, <1>10 DEF Next, Prepare, Close

LEMMA OwnInvariant == Spec => []OwnInv
<1>1. TypeOK /\ OwnInv /\ [Next]_vars => OwnInv'
  BY OwnStep
<1>. QED
  BY <1>1, OwnInit, EparakstsType, PTL DEF Spec

\* No call ever fetches or closes another request's session, whatever overlaps,
\* expires or fails.
THEOREM EparakstsOwnSession == Spec => []OwnSession
<1>1. OwnInv => OwnSession
  BY DEF OwnInv
<1>. QED
  BY <1>1, OwnInvariant, PTL

-----------------------------------------------------------------------------
(***************************************************************************)
(* Cache and service agree while calls are sequential and nothing fails:   *)
(* at most one call is active for a request id, and what it read of the    *)
(* cache is still so.                                                      *)
(***************************************************************************)

OneCallPerId ==
    \A c, d \in Call : pc[c] \in Active /\ pc[d] \in Active /\ id[c] = id[d] => c = d

ReadStillHolds ==
    \A c \in Call :
        /\ pc[c] \in {"vacant", "prepared"} => cache[id[c]] = NoSession
        /\ pc[c] = "prepared" => sid[c] \in open
        /\ pc[c] \in {"closing", "closed"} => sid[c] = cache[id[c]]
        /\ pc[c] = "closed" => sid[c] \notin open

OpenOwned == \A s \in open : owner[s] \in RequestID

\* The cache names exactly the open sessions, but for a session whose prepare
\* is about to store it and an entry whose close is about to delete it.
Agree ==
    /\ \A s \in open : \/ cache[owner[s]] = s
                       \/ \E c \in Call : pc[c] = "prepared" /\ sid[c] = s
    /\ \A q \in RequestID : cache[q] # NoSession =>
          cache[q] \in open \/ \E c \in Call : pc[c] = "closed" /\ sid[c] = cache[q]

CacheMatchesService == sequential /\ sound => Agree

Match == OneCallPerId /\ ReadStillHolds /\ OpenOwned /\ Agree

MatchInv == sequential /\ sound => Match

LEMMA MatchInit == Init => MatchInv
BY DEF Init, MatchInv, Match, OneCallPerId, ReadStillHolds, OpenOwned, Agree

\* What has gone wrong stays so: the two history variables only fall.
LEMMA HistoryFalls ==
    ASSUME [Next]_vars, sequential', sound'
    PROVE  sequential /\ sound
<1> USE DEF sequential
<1>1. ASSUME NEW c \in Call, NEW q \in RequestID,
             PrepareLookup(c, q) \/ DownloadLookup(c, q) \/ CloseLookup(c, q)
      PROVE  sequential /\ sound
  BY <1>1 DEF PrepareLookup, DownloadLookup, CloseLookup
<1>2. ASSUME NEW c \in Call, Prepare(c) PROVE sequential /\ sound
  BY <1>2 DEF Prepare, PrepareRemote, PrepareStore
<1>3. ASSUME NEW c \in Call, Close(c) \/ DownloadFetch(c) PROVE sequential /\ sound
  BY <1>3 DEF Close, CloseRemote, CloseDelete, DownloadFetch
<1>4. ASSUME NEW q \in RequestID PROVE ~Expire(q)
  BY DEF Expire
<1>5. CASE UNCHANGED vars
  BY <1>5 DEF vars
<1>. QED
  BY <1>1, <1>2, <1>3, <1>4, <1>5 DEF Next

LEMMA MatchStep ==
    ASSUME TypeOK, OwnInv, OwnInv', MatchInv, [Next]_vars
    PROVE  MatchInv'
<1> SUFFICES ASSUME sequential', sound' PROVE Match'
  BY DEF MatchInv
<1>0. sequential /\ sound /\ Match
  BY HistoryFalls DEF MatchInv
<1> USE <1>0, ParamAssumption DEF TypeOK, OwnInv, OwnSession, Match, OneCallPerId,
        ReadStillHolds, OpenOwned, Agree
<1>1. ASSUME NEW c \in Call, NEW q \in RequestID, PrepareLookup(c, q) PROVE Match'
  <2>1. \A d \in Call : pc[d] \in Active => id[d] # q
    BY <1>1 DEF PrepareLookup, sequential
  <2>2. pc[c] = "idle" /\ id' = [id EXCEPT ![c] = q] /\ UNCHANGED <<cache, owner, open>>
    BY <1>1 DEF PrepareLookup
  <2>. QED
    BY <1>1, <2>1, <2>2 DEF PrepareLookup
<1>2. ASSUME NEW c \in Call, NEW q \in RequestID, DownloadLookup(c, q) PROVE Match'
  <2>1. \A d \in Call : pc[d] \in Active => id[d] # q
    BY <1>2 DEF DownloadLookup, sequential
  <2>2. pc[c] = "idle" /\ id' = [id EXCEPT ![c] = q] /\ UNCHANGED <<cache, owner, open>>
    BY <1>2 DEF DownloadLookup
  <2>. QED
    BY <1>2, <2>1, <2>2 DEF DownloadLookup
<1>3. ASSUME NEW c \in Call, NEW q \in RequestID, CloseLookup(c, q) PROVE Match'
  <2>1. \A d \in Call : pc[d] \in Active => id[d] # q
    BY <1>3 DEF CloseLookup, sequential
  <2>2. pc[c] = "idle" /\ id' = [id EXCEPT ![c] = q] /\ UNCHANGED <<cache, owner, open>>
    BY <1>3 DEF CloseLookup
  <2>. QED
    BY <1>3, <2>1, <2>2 DEF CloseLookup
<1>4. ASSUME NEW c \in Call, PrepareRemote(c) PROVE Match'
  <2>1. PICK s \in Session :
           /\ owner[s] = NoOwner
           /\ owner' = [owner EXCEPT ![s] = id[c]]
           /\ open' = open \union {s}
           /\ sid' = [sid EXCEPT ![c] = s]
    BY <1>4 DEF PrepareRemote
  <2>2. pc[c] = "vacant" /\ Goto(c, "prepared") /\ UNCHANGED <<cache, id>>
    BY <1>4 DEF PrepareRemote
  <2>. QED
    BY <2>1, <2>2
<1>5. ASSUME NEW c \in Call, PrepareStore(c) PROVE Match'
  <2>1. /\ pc[c] = "prepared" /\ Goto(c, "done")
        /\ cache' = [cache EXCEPT ![id[c]] = sid[c]]
        /\ UNCHANGED <<owner, open, id, sid>>
    BY <1>5 DEF PrepareStore
  <2>. QED
    BY <2>1
<1>6. ASSUME NEW c \in Call, DownloadFetch(c) PROVE Match'
  BY <1>6 DEF DownloadFetch
<1>7. ASSUME NEW c \in Call, CloseRemote(c) PROVE Match'
  <2>1. pc[c] = "closing" /\ UNCHANGED <<cache, owner, id, sid>>
    BY <1>7 DEF CloseRemote
  <2>2. CASE Goto(c, "closed") /\ open' = open \ {sid[c]}
    BY <2>1, <2>2
  <2>3. CASE Goto(c, "failed") /\ UNCHANGED open
    BY <2>1, <2>3
  <2>4. sid[c] \notin open => open \ {sid[c]} = open
    OBVIOUS
  <2>. QED
    BY <1>7, <2>2, <2>3, <2>4 DEF CloseRemote
<1>8. ASSUME NEW c \in Call, CloseDelete(c) PROVE Match'
  <2>1. /\ pc[c] = "closed" /\ Goto(c, "done")
        /\ cache' = [cache EXCEPT ![id[c]] = NoSession]
        /\ UNCHANGED <<owner, open, id, sid>>
    BY <1>8 DEF CloseDelete
  <2>. QED
    BY <2>1
<1>9. ASSUME NEW q \in RequestID PROVE ~Expire(q)
  BY DEF Expire
<1>10. CASE UNCHANGED vars
  BY <1>10 DEF vars
<1>. QED
  BY <1>1, <1>2, <1>3, <1>4, <1>5, <1>6, <1>7, <1>8, <1>9, <1>10 DEF Next, Prepare, Close

LEMMA MatchInvariant == Spec => []MatchInv
<1>1. TypeOK /\ OwnInv /\ OwnInv' /\ MatchInv /\ [Next]_vars => MatchInv'
  BY MatchStep
<1>. QED
  BY <1>1, MatchInit, OwnInvariant, EparakstsType, PTL DEF Spec

\* As long as wallets wait for their answers and nothing fails or expires, the
\* cache names exactly the open sessions, but for a call in between.
THEOREM EparakstsCacheMatchesService == Spec => []CacheMatchesService
<1>1. MatchInv => CacheMatchesService
  BY DEF MatchInv, Match, CacheMatchesService
<1>. QED
  BY <1>1, MatchInvariant, PTL

\* A request id has at most one session open as long as its calls do not overlap:
\* overlap is all that the second session of OneOpenSession can come from.
THEOREM EparakstsOneSession == Spec => [](sequential => OneOpenSession)
<1>1. TypeOK /\ OwnInv /\ MatchInv => (sequential => OneOpenSession)
  <2> SUFFICES ASSUME TypeOK, OwnSession, OneCallPerId, ReadStillHolds, OpenOwned, Agree,
                      NEW s \in open, NEW t \in open, owner[s] = owner[t]
               PROVE  s = t
    BY DEF OwnInv, MatchInv, Match, OneOpenSession
  <2> DEFINE Carries(c, x) == c \in Call /\ pc[c] = "prepared" /\ sid[c] = x
  <2>1. /\ cache[owner[s]] = s \/ \E c : Carries(c, s)
        /\ cache[owner[s]] = t \/ \E c : Carries(c, t)
    BY DEF Agree
  <2>2. ASSUME NEW c, NEW x \in open, Carries(c, x), owner[x] = owner[s]
        PROVE  id[c] = owner[s] /\ cache[owner[s]] = NoSession /\ NoSession \notin open
    <3>1. id[c] = owner[x] /\ x # NoSession
      BY <2>2, ParamAssumption DEF OwnSession, TypeOK
    <3>. QED
      BY <2>2, <3>1, ParamAssumption DEF ReadStillHolds, TypeOK
  <2>. QED
    BY <2>1, <2>2 DEF OneCallPerId, Active
<1>. QED
  BY <1>1, MatchInvariant, OwnInvariant, EparakstsType, PTL

-----------------------------------------------------------------------------
(***************************************************************************)
(* How a session gets out of reach, whatever overlaps, fails or expires.   *)
(* For an id whose calls have not overlapped, what its one active call has *)
(* read of the cache still holds, unless the entry has expired; and a new  *)
(* session is open, and known to its prepare alone, until it is stored.    *)
(***************************************************************************)

OneCallUnlessOverlapped ==
    \A c, d \in Call :
        pc[c] \in Active /\ pc[d] \in Active /\ id[c] = id[d] /\ id[c] \notin overlapped
            => c = d

ReadUnlessOverlapped ==
    \A c \in Call : id[c] \notin overlapped =>
        /\ pc[c] \in {"vacant", "prepared"} => cache[id[c]] = NoSession
        /\ pc[c] \in {"closing", "closed"} => cache[id[c]] \in {sid[c], NoSession}

NewSessionIsOpen ==
    \A c \in Call : pc[c] = "prepared" =>
        /\ sid[c] \in open
        /\ \A d \in Call \ {c} : sid[d] # sid[c]
        /\ \A q \in RequestID : cache[q] # sid[c]

ClosedIsShut == \A c \in Call : pc[c] = "closed" => sid[c] \notin open

LossInv ==
    /\ OneCallUnlessOverlapped
    /\ ReadUnlessOverlapped
    /\ NewSessionIsOpen
    /\ ClosedIsShut
    /\ OpenOwned
    /\ OnlyKnownLosses

LEMMA LossInit == Init => LossInv
BY DEF Init, LossInv, OneCallUnlessOverlapped, ReadUnlessOverlapped, NewSessionIsOpen,
       ClosedIsShut, OpenOwned, OnlyKnownLosses

\* A call begins: the others stay as they are, and so does the service.
LEMMA LossBegin ==
    ASSUME TypeOK, LossInv, NEW c \in Call, NEW q \in RequestID,
           pc[c] = "idle", id'[c] = q,
           pc'[c] \notin {"prepared", "closed"},
           pc'[c] = "vacant" => cache[q] = NoSession,
           pc'[c] = "closing" => sid'[c] = cache[q],
           sid'[c] \in {NoSession, cache[q]},
           \A d \in Call \ {c} : pc'[d] = pc[d] /\ id'[d] = id[d] /\ sid'[d] = sid[d],
           overlapped' = IF \E d \in Call : pc[d] \in Active /\ id[d] = q
                         THEN overlapped \union {q} ELSE overlapped,
           UNCHANGED <<cache, owner, open, lost, unclosed>>
    PROVE  LossInv'
<1> USE DEF TypeOK
<1>1. overlapped \subseteq overlapped'
  OBVIOUS
<1>2. \A d \in Call : pc[d] \in Active /\ id[d] = q => q \in overlapped'
  OBVIOUS
<1>3. OneCallUnlessOverlapped'
  BY <1>1, <1>2 DEF LossInv, OneCallUnlessOverlapped
<1>4. ReadUnlessOverlapped'
  BY <1>1 DEF LossInv, ReadUnlessOverlapped
<1>5. NewSessionIsOpen'
  BY ParamAssumption DEF LossInv, NewSessionIsOpen
<1>6. ClosedIsShut' /\ OpenOwned'
  BY DEF LossInv, ClosedIsShut, OpenOwned
<1>7. OnlyKnownLosses'
  <2>1. \A d \in Call : pc[d] \in {"prepared", "closed"} => pc'[d] = pc[d] /\ sid'[d] = sid[d]
    OBVIOUS
  <2>. QED
    BY <1>1, <2>1 DEF LossInv, OnlyKnownLosses
<1>. QED
  BY <1>3, <1>4, <1>5, <1>6, <1>7 DEF LossInv

LEMMA LossStep ==
    ASSUME TypeOK, TypeOK', OwnInv, LossInv, [Next]_vars
    PROVE  LossInv'
<1> USE ParamAssumption DEF TypeOK
<1>1. ASSUME NEW c \in Call, NEW q \in RequestID,
             PrepareLookup(c, q) \/ DownloadLookup(c, q) \/ CloseLookup(c, q)
      PROVE  LossInv'
  <2>1. /\ pc[c] = "idle" /\ id' = [id EXCEPT ![c] = q]
        /\ overlapped' = IF \E d \in Call : pc[d] \in Active /\ id[d] = q
                         THEN overlapped \union {q} ELSE overlapped
        /\ UNCHANGED <<cache, owner, open, lost, unclosed>>
    BY <1>1 DEF PrepareLookup, DownloadLookup, CloseLookup
  <2>2. \A d \in Call \ {c} : pc'[d] = pc[d] /\ id'[d] = id[d] /\ sid'[d] = sid[d]
    BY <1>1 DEF PrepareLookup, DownloadLookup, CloseLookup
  <2>3. /\ id'[c] = q
        /\ pc'[c] \notin {"prepared", "closed"}
        /\ pc'[c] = "vacant" => cache[q] = NoSession
    BY <1>1 DEF PrepareLookup, DownloadLookup, CloseLookup
  <2>4. /\ pc'[c] = "closing" => sid'[c] = cache[q]
        /\ sid'[c] \in {NoSession, cache[q]}
    BY <1>1, <2>1 DEF PrepareLookup, DownloadLookup, CloseLookup, OwnInv
  <2>. QED
    BY <2>1, <2>2, <2>3, <2>4, LossBegin
<1>2. ASSUME NEW c \in Call, PrepareRemote(c) PROVE LossInv'
  <2>0. pc[c] = "vacant" /\ UNCHANGED <<cache, id, overlapped, unclosed>>
    BY <1>2 DEF PrepareRemote
  <2>1. CASE /\ pc' = [pc EXCEPT ![c] = "failed"]
             /\ UNCHANGED <<owner, open, sid, lost>>
    BY <2>0, <2>1 DEF LossInv, OneCallUnlessOverlapped, ReadUnlessOverlapped,
         NewSessionIsOpen, ClosedIsShut, OpenOwned, OnlyKnownLosses
  <2>2. ASSUME NEW s \in Session,
               owner[s] = NoOwner,
               owner' = [owner EXCEPT ![s] = id[c]],
               open' = open \union {s},
               \/ /\ pc' = [pc EXCEPT ![c] = "failed"]
                  /\ lost' = lost \union {s} /\ sid' = sid
               \/ /\ pc' = [pc EXCEPT ![c] = "prepared"]
                  /\ sid' = [sid EXCEPT ![c] = s] /\ lost' = lost
        PROVE  LossInv'
    <3>1. /\ \A d \in Call : sid[d] # s
          /\ \A q \in RequestID : cache[q] # s
          /\ s \notin open
      BY <2>2 DEF OwnInv, OwnSession, LossInv, OpenOwned
    <3>2. /\ owner'[s] = id[c] /\ \A t \in Session \ {s} : owner'[t] = owner[t]
          /\ \A d \in Call \ {c} : pc'[d] = pc[d] /\ sid'[d] = sid[d]
          /\ pc'[c] \in {"failed", "prepared"}
          /\ pc'[c] = "prepared" => sid'[c] = s
          /\ sid'[c] \in {sid[c], s}
      BY <2>2
    <3>3. OneCallUnlessOverlapped' /\ ReadUnlessOverlapped'
      BY <2>0, <3>2 DEF LossInv, OneCallUnlessOverlapped, ReadUnlessOverlapped
    <3>4. NewSessionIsOpen' /\ ClosedIsShut' /\ OpenOwned'
      BY <2>0, <2>2, <3>1, <3>2
         DEF LossInv, NewSessionIsOpen, ClosedIsShut, OpenOwned
    <3>5. OnlyKnownLosses'
      BY <2>0, <2>2, <3>1, <3>2 DEF LossInv, OnlyKnownLosses
    <3>. QED
      BY <3>3, <3>4, <3>5 DEF LossInv
  <2>. QED
    BY <1>2, <2>1, <2>2 DEF PrepareRemote
<1>3. ASSUME NEW c \in Call, PrepareStore(c) PROVE LossInv'
  <2>1. /\ pc[c] = "prepared" /\ UNCHANGED <<owner, open, id, sid, overlapped, unclosed>>
        /\ pc'[c] \in {"failed", "done"}
        /\ \A d \in Call \ {c} : pc'[d] = pc[d]
        /\ \/ cache' = [cache EXCEPT ![id[c]] = sid[c]] /\ lost' = lost
           \/ cache' = cache /\ lost' = lost \union {sid[c]}
    BY <1>3 DEF PrepareStore
  <2>2. sid[c] \in open /\ owner[sid[c]] = id[c] /\ id[c] \in RequestID
    BY <2>1 DEF LossInv, NewSessionIsOpen, OwnInv, OwnSession
  <2>3. OneCallUnlessOverlapped' /\ ReadUnlessOverlapped' /\ NewSessionIsOpen'
    BY <2>1, <2>2 DEF LossInv, OneCallUnlessOverlapped, ReadUnlessOverlapped,
         NewSessionIsOpen
  <2>4. ClosedIsShut' /\ OpenOwned'
    BY <2>1 DEF LossInv, ClosedIsShut, OpenOwned
  <2>5. OnlyKnownLosses'
    <3>1. CASE cache' = [cache EXCEPT ![id[c]] = sid[c]] /\ lost' = lost
      <4>1. ASSUME NEW s \in open, s \notin lost, owner[s] \notin overlapped
            PROVE  \/ cache'[owner[s]] = s
                   \/ \E d \in Call : pc'[d] = "prepared" /\ sid[d] = s
        BY <2>1, <2>2, <3>1, <4>1
           DEF LossInv, OnlyKnownLosses, OpenOwned, ReadUnlessOverlapped
      <4>2. ASSUME NEW q \in RequestID, cache'[q] # NoSession
            PROVE  \/ cache'[q] \in open \/ cache'[q] \in unclosed
                   \/ \E d \in Call : pc'[d] = "closed" /\ sid[d] = cache'[q]
        BY <2>1, <2>2, <3>1, <4>2 DEF LossInv, OnlyKnownLosses
      <4>. QED
        BY <2>1, <3>1, <4>1, <4>2 DEF OnlyKnownLosses
    <3>2. CASE cache' = cache /\ lost' = lost \union {sid[c]}
      BY <2>1, <3>2 DEF LossInv, OnlyKnownLosses
    <3>. QED
      BY <2>1, <3>1, <3>2
  <2>. QED
    BY <2>3, <2>4, <2>5 DEF LossInv
<1>4. ASSUME NEW c \in Call, DownloadFetch(c) PROVE LossInv'
  BY <1>4 DEF DownloadFetch, LossInv, OneCallUnlessOverlapped, ReadUnlessOverlapped,
       NewSessionIsOpen, ClosedIsShut, OpenOwned, OnlyKnownLosses
<1>5. ASSUME NEW c \in Call, CloseRemote(c) PROVE LossInv'
  <2>1. /\ pc[c] = "closing" /\ UNCHANGED <<cache, owner, id, sid, overlapped, lost>>
        /\ \A d \in Call \ {c} : pc'[d] = pc[d]
        /\ \/ /\ pc'[c] = "closed" /\ open' = open \ {sid[c]} /\ unclosed' = unclosed
           \/ /\ pc'[c] = "failed" /\ open' \in {open, open \ {sid[c]}}
              /\ unclosed' = unclosed \union ({sid[c]} \ {NoSession})
    BY <1>5 DEF CloseRemote
  <2>2. OneCallUnlessOverlapped' /\ ReadUnlessOverlapped'
    BY <2>1 DEF LossInv, OneCallUnlessOverlapped, ReadUnlessOverlapped
  <2>3. NewSessionIsOpen' /\ ClosedIsShut' /\ OpenOwned'
    BY <2>1 DEF LossInv, NewSessionIsOpen, ClosedIsShut, OpenOwned
  <2>4. OnlyKnownLosses'
    BY <2>1 DEF LossInv, OnlyKnownLosses
  <2>. QED
    BY <2>2, <2>3, <2>4 DEF LossInv
<1>6. ASSUME NEW c \in Call, CloseDelete(c) PROVE LossInv'
  <2>1. /\ pc[c] = "closed" /\ UNCHANGED <<owner, open, id, sid, overlapped, lost>>
        /\ pc'[c] \in {"failed", "done"}
        /\ \A d \in Call \ {c} : pc'[d] = pc[d]
        /\ \/ cache' = [cache EXCEPT ![id[c]] = NoSession] /\ unclosed' = unclosed
           \/ cache' = cache /\ unclosed' = unclosed \union ({sid[c]} \ {NoSession})
    BY <1>6 DEF CloseDelete
  <2>2. OneCallUnlessOverlapped' /\ ReadUnlessOverlapped' /\ NewSessionIsOpen'
    BY <2>1 DEF LossInv, OneCallUnlessOverlapped, ReadUnlessOverlapped,
         NewSessionIsOpen
  <2>3. ClosedIsShut' /\ OpenOwned'
    BY <2>1 DEF LossInv, ClosedIsShut, OpenOwned
  <2>4. ASSUME NEW s \in open, s \notin lost, owner[s] \notin overlapped
        PROVE  \/ cache'[owner[s]] = s
               \/ \E d \in Call : pc'[d] = "prepared" /\ sid[d] = s
    BY <2>1, <2>4
       DEF LossInv, OnlyKnownLosses, OpenOwned, ReadUnlessOverlapped, ClosedIsShut
  <2>5. ASSUME NEW q \in RequestID, cache'[q] # NoSession
        PROVE  \/ cache'[q] \in open \/ cache'[q] \in unclosed'
               \/ \E d \in Call : pc'[d] = "closed" /\ sid[d] = cache'[q]
    <3>1. cache'[q] = cache[q] /\ owner[cache[q]] = q /\ unclosed \subseteq unclosed'
      BY <2>1, <2>5 DEF OwnInv
    <3>2. sid[c] = cache[q] => id[c] = q
      BY <2>5, <3>1 DEF OwnInv, OwnSession
    <3>. QED
      BY <2>1, <2>5, <3>1, <3>2 DEF LossInv, OnlyKnownLosses
  <2>6. OnlyKnownLosses'
    BY <2>1, <2>4, <2>5 DEF OnlyKnownLosses
  <2>. QED
    BY <2>2, <2>3, <2>6 DEF LossInv
<1>7. ASSUME NEW q \in RequestID, Expire(q) PROVE LossInv'
  <2>1. /\ cache[q] # NoSession /\ lost' = lost \union {cache[q]}
        /\ cache' = [cache EXCEPT ![q] = NoSession]
        /\ UNCHANGED <<owner, open, pc, id, sid, overlapped, unclosed>>
    BY <1>7 DEF Expire
  <2>2. OneCallUnlessOverlapped' /\ ReadUnlessOverlapped' /\ NewSessionIsOpen'
    BY <2>1 DEF LossInv, OneCallUnlessOverlapped, ReadUnlessOverlapped,
         NewSessionIsOpen
  <2>3. ClosedIsShut' /\ OpenOwned'
    BY <2>1 DEF LossInv, ClosedIsShut, OpenOwned
  <2>4. OnlyKnownLosses'
    BY <2>1 DEF LossInv, OnlyKnownLosses
  <2>. QED
    BY <2>2, <2>3, <2>4 DEF LossInv
<1>8. CASE UNCHANGED vars
  BY <1>8 DEF vars, LossInv, OneCallUnlessOverlapped, ReadUnlessOverlapped,
       NewSessionIsOpen, ClosedIsShut, OpenOwned, OnlyKnownLosses
<1>. QED
  BY <1>1, <1>2, <1>3, <1>4, <1>5, <1>6, <1>7, <1>8 DEF Next, Prepare, Close

\* Whatever overlaps, fails or expires: an open session is out of reach only for
\* an answer or a store that failed, for its entry's expiry or for an overlap of
\* calls for its id, and an entry without an open session is left only by a close.
THEOREM EparakstsOnlyKnownLosses == Spec => []OnlyKnownLosses
<1>1. TypeOK /\ TypeOK' /\ OwnInv /\ LossInv /\ [Next]_vars => LossInv'
  BY LossStep
<1>2. LossInv => OnlyKnownLosses
  BY DEF LossInv
<1>. QED
  BY <1>1, <1>2, LossInit, OwnInvariant, EparakstsType, PTL DEF Spec

-----------------------------------------------------------------------------
(***************************************************************************)
(* The refinement of RequestSession.  An abstract session is opened and    *)
(* shut by the calls to the service, an answer is the last step of a call; *)
(* every other step stutters.                                              *)
(***************************************************************************)

Held == {<<owner[s], s>> : s \in open}
Used == {s \in Session : owner[s] # NoOwner}
Answers == {<<c, id[c], pc[c]>> : c \in {d \in Call : pc[d] \in Over}}

\* A step of one call leaves the answers of the others alone.
LEMMA AnswersGrow ==
    ASSUME TypeOK, NEW c \in Call, NEW q \in RequestID, NEW next,
           pc[c] \notin Over,
           pc' = [pc EXCEPT ![c] = next],
           id' = [id EXCEPT ![c] = q]
    PROVE  Answers' = IF next \in Over THEN Answers \union {<<c, q, next>>} ELSE Answers
<1>1. pc'[c] = next /\ id'[c] = q
  BY DEF TypeOK
<1>2. \A d \in Call : d # c => pc'[d] = pc[d] /\ id'[d] = id[d]
  BY DEF TypeOK
<1>3. ASSUME NEW a
      PROVE  a \in Answers' <=> a \in Answers \/ (next \in Over /\ a = <<c, q, next>>)
  <2>1. a \in Answers' <=> \E d \in Call : pc'[d] \in Over /\ a = <<d, id'[d], pc'[d]>>
    BY Zenon DEF Answers
  <2>2. a \in Answers <=> \E d \in Call : pc[d] \in Over /\ a = <<d, id[d], pc[d]>>
    BY Zenon DEF Answers
  <2>. QED
    BY <1>1, <1>2, <2>1, <2>2
<1>4. CASE next \in Over
  BY <1>3, <1>4
<1>5. CASE next \notin Over
  BY <1>3, <1>5
<1>. QED
  BY <1>4, <1>5

LEMMA AnswersGrowHere ==
    ASSUME TypeOK, NEW c \in Call, NEW next,
           pc[c] \notin Over,
           pc' = [pc EXCEPT ![c] = next],
           id' = id
    PROVE  Answers' = IF next \in Over THEN Answers \union {<<c, id[c], next>>} ELSE Answers
<1>1. id[c] \in RequestID /\ id' = [id EXCEPT ![c] = id[c]]
  BY DEF TypeOK
<1>. QED
  BY <1>1, AnswersGrow

LEMMA AnswersStay ==
    ASSUME TypeOK, NEW c \in Call, NEW next,
           pc[c] \notin Over, next \notin Over,
           pc' = [pc EXCEPT ![c] = next],
           id' = id
    PROVE  Answers' = Answers
BY AnswersGrowHere

LEMMA SessionInit == Init => RS!Init
BY DEF Init, RS!Init, Over, sequential

\* A request id that has an entry has a session, when its calls do not overlap.
LEMMA EntryIsOpen ==
    ASSUME TypeOK, OwnInv, Match, NEW q \in RequestID,
           \A d \in Call : pc[d] \in Active => id[d] # q
    PROVE  cache[q] # NoSession <=> RS!Has(q)
<1>1. ASSUME cache[q] # NoSession PROVE <<q, cache[q]>> \in Held /\ cache[q] \in Session
  <2>1. owner[cache[q]] = q
    BY <1>1 DEF OwnInv
  <2>2. ~(\E c \in Call : pc[c] = "closed" /\ sid[c] = cache[q])
    BY <1>1, <2>1 DEF OwnInv, OwnSession
  <2>3. cache[q] \in open
    BY <1>1, <2>2 DEF Match, Agree
  <2>. QED
    BY <1>1, <2>1, <2>3 DEF Held, TypeOK
<1>2. ASSUME NEW s \in Session, <<q, s>> \in Held PROVE cache[q] # NoSession
  <2>1. s \in open /\ owner[s] = q
    BY <1>2 DEF Held
  <2>2. ~(\E c \in Call : pc[c] = "prepared" /\ sid[c] = s)
    BY <2>1, ParamAssumption DEF OwnInv, OwnSession, TypeOK
  <2>. QED
    BY <2>1, <2>2, ParamAssumption DEF Match, Agree
<1>. QED
  BY <1>1, <1>2 DEF RS!Has, Held

LEMMA SessionStep ==
    ASSUME TypeOK, TypeOK', OwnInv, MatchInv, [Next]_vars
    PROVE  [RS!Next]_(RS!avars)
<1> SUFFICES ASSUME sequential', sound' PROVE [RS!Next]_(RS!avars)
  BY DEF RS!Next
<1>0. sequential /\ sound /\ Match
  BY HistoryFalls DEF MatchInv
<1> DEFINE Same == Held' = Held /\ Used' = Used
           Step == \/ Same /\ Answers' = Answers
                   \/ /\ Same
                      /\ \E c \in Call, q \in RequestID, answer \in Over :
                            /\ RS!Justified(q, answer)
                            /\ Answers' = Answers \union {<<c, q, answer>>}
                   \/ /\ Answers' = Answers
                      /\ \/ \E q \in RequestID, s \in Session :
                               /\ ~RS!Has(q) /\ s \notin Used
                               /\ Held' = Held \union {<<q, s>>}
                               /\ Used' = Used \union {s}
                         \/ \E q \in RequestID :
                               /\ RS!Has(q)
                               /\ Held' = {h \in Held : h[1] # q}
                               /\ Used' = Used
<1>1. Step => [RS!Next]_(RS!avars)
  <2>1. (sequential /\ sound) /\ (sequential /\ sound)'
    BY <1>0
  <2>2. CASE Same /\ Answers' = Answers
    BY <1>0, <2>2 DEF RS!avars, Held, Used, Answers
  <2>3. CASE Same /\ \E c \in Call, q \in RequestID, answer \in Over :
                        /\ RS!Justified(q, answer)
                        /\ Answers' = Answers \union {<<c, q, answer>>}
    <3>1. PICK c \in Call, q \in RequestID, answer \in Over :
             /\ RS!Justified(q, answer)
             /\ Answers' = Answers \union {<<c, q, answer>>}
      BY <2>3
    <3>2. RS!Answer(c, q, answer)
      BY <2>3, <3>1, Zenon DEF RS!Answer, Held, Used, Answers
    <3>. QED
      BY <2>1, <3>2, Zenon DEF RS!Next, Over
  <2>4. CASE /\ Answers' = Answers
             /\ \E q \in RequestID, s \in Session :
                   /\ ~RS!Has(q) /\ s \notin Used
                   /\ Held' = Held \union {<<q, s>>}
                   /\ Used' = Used \union {s}
    BY <2>1, <2>4, Zenon DEF RS!Next, RS!Open, Held, Used, Answers
  <2>5. CASE /\ Answers' = Answers
             /\ \E q \in RequestID :
                   /\ RS!Has(q)
                   /\ Held' = {h \in Held : h[1] # q}
                   /\ Used' = Used
    BY <2>1, <2>5, Zenon DEF RS!Next, RS!Shut, Held, Used, Answers
  <2>. QED
    BY <2>2, <2>3, <2>4, <2>5
<1> HIDE DEF Step
<1>2. ASSUME NEW c \in Call, NEW q \in RequestID,
             PrepareLookup(c, q) \/ DownloadLookup(c, q) \/ CloseLookup(c, q)
      PROVE  Step
  <2>1. /\ pc[c] = "idle" /\ id' = [id EXCEPT ![c] = q]
        /\ \A d \in Call : pc[d] \in Active => id[d] # q
        /\ UNCHANGED <<cache, owner, open>>
    BY <1>2 DEF PrepareLookup, DownloadLookup, CloseLookup, sequential
  <2>2. Same
    BY <2>1 DEF Held, Used
  <2>3. PICK next : /\ pc' = [pc EXCEPT ![c] = next]
                    /\ \/ next \in {"vacant", "found", "closing", "failed"}
                       \/ next = "refused" /\ cache[q] # NoSession
                       \/ next = "missing" /\ cache[q] = NoSession
    BY <1>2 DEF PrepareLookup, DownloadLookup, CloseLookup
  <2>4. Answers' = IF next \in Over THEN Answers \union {<<c, q, next>>} ELSE Answers
    BY <2>1, <2>3, AnswersGrow DEF Over
  <2>5. RS!Justified(q, next)
    <3>1. cache[q] # NoSession <=> RS!Has(q)
      BY <1>0, <2>1, EntryIsOpen
    <3>. QED
      BY <2>3, <3>1 DEF RS!Justified
  <2> HIDE DEF Same
  <2>. QED
    BY <2>2, <2>4, <2>5 DEF Step
<1>3. ASSUME NEW c \in Call, PrepareRemote(c) PROVE Step
  <2>1. PICK s \in Session :
           /\ owner[s] = NoOwner
           /\ owner' = [owner EXCEPT ![s] = id[c]]
           /\ open' = open \union {s}
           /\ pc[c] = "vacant" /\ pc' = [pc EXCEPT ![c] = "prepared"] /\ id' = id
    BY <1>3 DEF PrepareRemote
  <2>2. Answers' = Answers
    <3>1. pc[c] \notin Over /\ "prepared" \notin Over
      BY <2>1 DEF Over
    <3>. QED
      BY <2>1, <3>1, AnswersStay
  <2>3. id[c] \in RequestID /\ ~RS!Has(id[c])
    <3>1. cache[id[c]] = NoSession
      BY <1>0, <2>1 DEF Match, ReadStillHolds
    <3>2. \A t \in open : owner[t] # id[c]
      BY <1>0, <2>1, <3>1, ParamAssumption
         DEF Match, Agree, OneCallPerId, OwnInv, OwnSession, TypeOK
    <3>. QED
      BY <3>2 DEF RS!Has, TypeOK
  <2>4. s \notin Used /\ Used' = Used \union {s}
    BY <2>1, <2>3, ParamAssumption DEF Used, TypeOK
  <2>5. Held' = Held \union {<<id[c], s>>}
    <3>1. s \notin open
      BY <1>0, <2>1, ParamAssumption DEF Match, OpenOwned
    <3>2. owner'[s] = id[c] /\ \A t \in open : owner'[t] = owner[t]
      BY <2>1, <3>1 DEF TypeOK
    <3>. QED
      BY <2>1, <3>2, Zenon DEF Held
  <2>. QED
    BY <2>2, <2>3, <2>4, <2>5 DEF Step
<1>4. ASSUME NEW c \in Call, PrepareStore(c) \/ DownloadFetch(c) \/ CloseDelete(c) PROVE Step
  <2>1. /\ pc[c] \in {"prepared", "found", "closed"}
        /\ UNCHANGED <<owner, open, id>>
    BY <1>4 DEF PrepareStore, DownloadFetch, CloseDelete
  <2>2. PICK next \in {"done", "failed"} : pc' = [pc EXCEPT ![c] = next]
    BY <1>4 DEF PrepareStore, DownloadFetch, CloseDelete
  <2>3. Answers' = Answers \union {<<c, id[c], next>>}
    BY <2>1, <2>2, AnswersGrowHere DEF Over
  <2>4. Same /\ RS!Justified(id[c], next) /\ id[c] \in RequestID /\ next \in Over
    BY <2>1, <2>2 DEF Held, Used, RS!Justified, Over, TypeOK
  <2> HIDE DEF Same
  <2>. QED
    BY <2>3, <2>4 DEF Step
<1>5. ASSUME NEW c \in Call, CloseRemote(c) PROVE Step
  <2>1. pc[c] = "closing" /\ UNCHANGED <<cache, owner, id, sid>> /\ Used' = Used
    BY <1>5 DEF CloseRemote, Used
  <2>2. CASE Goto(c, "failed") /\ UNCHANGED open
    <3>1. Answers' = Answers \union {<<c, id[c], "failed">>}
      BY <2>1, <2>2, AnswersGrowHere DEF Over
    <3>2. Same /\ RS!Justified(id[c], "failed") /\ id[c] \in RequestID /\ "failed" \in Over
      BY <2>1, <2>2 DEF Held, RS!Justified, Over, TypeOK
    <3> HIDE DEF Same
    <3>. QED
      BY <3>1, <3>2 DEF Step
  <2>3. CASE Goto(c, "closed") /\ open' = open \ {sid[c]}
    <3>1. Answers' = Answers
      <4>1. pc[c] \notin Over /\ "closed" \notin Over
        BY <2>1 DEF Over
      <4>. QED
        BY <2>1, <2>3, <4>1, AnswersStay
    <3>2. CASE sid[c] \notin open
      <4>1. Held' = Held
        BY <2>1, <2>3, <3>2 DEF Held
      <4>. QED
        BY <2>1, <3>1, <4>1 DEF Step
    <3>3. CASE sid[c] \in open
      <4>1. id[c] \in RequestID /\ owner[sid[c]] = id[c] /\ sid[c] \in Session
        BY <3>3, ParamAssumption DEF TypeOK, OwnInv, OwnSession
      <4>2. RS!Has(id[c])
        BY <3>3, <4>1 DEF RS!Has
      <4>3. \A t \in open : owner[t] = id[c] => t = sid[c]
        BY <1>0, <2>1, <3>3, <4>1, ParamAssumption
           DEF Match, Agree, ReadStillHolds, OneCallPerId, OwnInv, OwnSession, TypeOK
      <4>4. Held' = {h \in Held : h[1] # id[c]}
        BY <2>1, <2>3, <4>1, <4>3 DEF Held
      <4>. QED
        BY <2>1, <3>1, <4>1, <4>2, <4>4 DEF Step
    <3>. QED
      BY <3>2, <3>3
  <2>4. CASE Goto(c, "failed") /\ open' = open \ {sid[c]} /\ sid[c] \notin open
    BY <2>2, <2>4
  <2>. QED
    BY <1>5, <1>0, <2>2, <2>3, <2>4 DEF CloseRemote
<1>6. ASSUME NEW q \in RequestID PROVE ~Expire(q)
  BY DEF Expire
<1>7. ASSUME UNCHANGED vars PROVE Step
  <2>1. Same /\ Answers' = Answers
    BY <1>7 DEF vars, Held, Used, Answers
  <2> HIDE DEF Same
  <2>. QED
    BY <2>1 DEF Step
<1>8. Step
  BY <1>2, <1>3, <1>4, <1>5, <1>6, <1>7 DEF Next, Prepare, Close
<1>. QED
  BY <1>1, <1>8

\* As long as calls do not overlap and nothing goes wrong, the endpoints
\* implement one session for a request id, with justified answers.
THEOREM EparakstsImplementsRequestSession == Spec => ImplementsRequestSession
<1>1. TypeOK /\ TypeOK' /\ OwnInv /\ MatchInv /\ [Next]_vars => [RS!Next]_(RS!avars)
  BY SessionStep
<1>2. TypeOK /\ OwnInv /\ OwnInv' /\ MatchInv /\ [Next]_vars => MatchInv'
  BY MatchStep
<1>. QED
  BY <1>1, <1>2, SessionInit, MatchInit, OwnInvariant, EparakstsType, PTL
     DEF Spec, ImplementsRequestSession, RS!Spec

=============================================================================
