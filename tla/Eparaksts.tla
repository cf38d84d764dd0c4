----------------------------- MODULE Eparaksts ------------------------------
(***************************************************************************)
(* Signing sessions at the eParaksts service (SimpleSign).                 *)
(*                                                                         *)
(* POST /eparaksts/{type} opens a session at the service for the wallet's  *)
(* request id, GET download fetches the signed file, DELETE closes the     *)
(* session.  What ties the calls together is a cache from request ids to   *)
(* session ids.  Each handler reads the cache, calls the service and then  *)
(* updates the cache: three steps, between which other calls run.          *)
(***************************************************************************)
CONSTANTS
    Call,           \* calls of the three handlers
    RequestID,      \* the ids wallets choose
    Session,        \* session ids of the service
    NoSession,      \* the cache's answer when there is no entry
    NoOwner         \* the session has not been created

ASSUME ParamAssumption ==
    /\ NoSession \notin Session
    /\ NoOwner \notin RequestID

VARIABLES
    cache,      \* cache[q]: the session kept for request id q
    owner,      \* owner[s]: the request id the service created s for
    open,       \* sessions the service has open
    pc,         \* where each call stands
    id,         \* the request id it is for
    sid,        \* the session id it read, or was given
    \* History, for the properties: no action reads it.
    overlapped, \* request ids of which two calls have overlapped
    lost,       \* sessions not stored for a failure, or whose entry expired
    unclosed,   \* sessions whose close has failed
    sound       \* nothing has failed and no entry has expired

lossVars == <<lost, unclosed>>
vars == <<cache, owner, open, pc, id, sid, overlapped, lossVars, sound>>

Active == {"vacant", "prepared", "found", "closing", "closed"}

TypeOK ==
    /\ cache \in [RequestID -> Session \union {NoSession}]
    /\ owner \in [Session -> RequestID \union {NoOwner}]
    /\ open \in SUBSET Session
    /\ pc \in [Call -> {"idle", "done", "refused", "missing", "failed"} \union Active]
    /\ id \in [Call -> RequestID]
    /\ sid \in [Call -> Session \union {NoSession}]
    /\ overlapped \in SUBSET RequestID
    /\ lost \in SUBSET Session
    /\ unclosed \in SUBSET Session
    /\ sound \in BOOLEAN
    /\ \A c \in Call : pc[c] \in {"prepared", "found"} => sid[c] \in Session

Init ==
    /\ cache = [q \in RequestID |-> NoSession]
    /\ owner = [s \in Session |-> NoOwner]
    /\ open = {}
    /\ pc = [c \in Call |-> "idle"]
    /\ id \in {[c \in Call |-> q] : q \in RequestID}
    /\ sid = [c \in Call |-> NoSession]
    /\ overlapped = {} /\ lost = {} /\ unclosed = {}
    /\ sound = TRUE

\* A step that may be a failure of the cache or the service.
Failing(fails) == sound' = (sound /\ ~fails)

Goto(c, next) == pc' = [pc EXCEPT ![c] = next]

\* A call for q starts, with a look at the cache that may fail.
Begin(c, q, fails) ==
    /\ pc[c] = "idle"
    /\ id' = [id EXCEPT ![c] = q]
    /\ Failing(fails)
    /\ overlapped' = IF \E d \in Call : pc[d] \in Active /\ id[d] = q
                     THEN overlapped \union {q} ELSE overlapped

-----------------------------------------------------------------------------
(***************************************************************************)
(* eparakstsPrepare.                                                       *)
(***************************************************************************)

\* Fault: a request id that has a session is taken on.
PrepareLookup_Again(c, q) ==
    /\ Begin(c, q, FALSE)
    /\ Goto(c, "vacant")
    /\ UNCHANGED <<cache, owner, open, sid, lossVars>>

\* "check cache if requestId key already exists".  A body without a file, or
\* that does not parse, ends the call as well.
PrepareLookup(c, q) ==
    /\ \E fails \in BOOLEAN :
          /\ Begin(c, q, fails)
          /\ \/ ~fails /\ cache[q] = NoSession /\ Goto(c, "vacant")
             \/ ~fails /\ cache[q] # NoSession /\ Goto(c, "refused")
             \/ Goto(c, "failed")
    /\ UNCHANGED <<cache, owner, open, sid, lossVars>>

\* The service opens a session.  When its answer is lost, or names no session,
\* the call ends (the latter in a panic) while the session may be open.
PrepareRemote(c) ==
    /\ pc[c] = "vacant"
    /\ \/ \E s \in Session, fails \in BOOLEAN :
             /\ owner[s] = NoOwner
             /\ owner' = [owner EXCEPT ![s] = id[c]]
             /\ open' = open \union {s}
             /\ Failing(fails)
             /\ \/ fails /\ Goto(c, "failed") /\ lost' = lost \union {s} /\ UNCHANGED sid
                \/ /\ ~fails /\ Goto(c, "prepared")
                   /\ sid' = [sid EXCEPT ![c] = s] /\ UNCHANGED lost
       \/ /\ Goto(c, "failed")
          /\ Failing(TRUE)
          /\ UNCHANGED <<owner, open, sid, lost>>
    /\ UNCHANGED <<cache, id, overlapped, unclosed>>

\* Fault: the session is stored under another request of the answer.
PrepareStore_AnyKey(c) ==
    /\ pc[c] = "prepared"
    /\ \E q \in RequestID : cache' = [cache EXCEPT ![q] = sid[c]]
    /\ Goto(c, "done")
    /\ UNCHANGED <<owner, open, id, sid, overlapped, lossVars, sound>>

\* The session is stored under the request id the service echoes.
PrepareStore(c) ==
    /\ pc[c] = "prepared"
    /\ \E fails \in BOOLEAN :
          /\ Failing(fails)
          /\ Goto(c, IF fails THEN "failed" ELSE "done")
          /\ \/ cache' = [cache EXCEPT ![id[c]] = sid[c]] /\ UNCHANGED lost
             \/ fails /\ lost' = lost \union {sid[c]} /\ UNCHANGED cache
    /\ UNCHANGED <<owner, open, id, sid, overlapped, unclosed>>

-----------------------------------------------------------------------------
(***************************************************************************)
(* eparakstsDownload.                                                      *)
(***************************************************************************)

\* Fault: the answer of a cache without an entry is not looked at.
DownloadLookup_NoCheck(c, q) ==
    /\ Begin(c, q, FALSE)
    /\ Goto(c, "found")
    /\ sid' = [sid EXCEPT ![c] = cache[q]]
    /\ UNCHANGED <<cache, owner, open, lossVars>>

DownloadLookup(c, q) ==
    /\ \E fails \in BOOLEAN :
          /\ Begin(c, q, fails)
          /\ \/ ~fails /\ cache[q] # NoSession
                /\ Goto(c, "found") /\ sid' = [sid EXCEPT ![c] = cache[q]]
             \/ ~fails /\ cache[q] = NoSession /\ Goto(c, "missing") /\ UNCHANGED sid
             \/ fails /\ Goto(c, "failed") /\ UNCHANGED sid
    /\ UNCHANGED <<cache, owner, open, lossVars>>

\* A session that has been closed meanwhile has no file to give.
DownloadFetch(c) ==
    /\ pc[c] = "found"
    /\ \E fails \in BOOLEAN :
          /\ Failing(fails)
          /\ Goto(c, IF fails \/ sid[c] \notin open THEN "failed" ELSE "done")
    /\ UNCHANGED <<cache, owner, open, id, sid, overlapped, lossVars>>

-----------------------------------------------------------------------------
(***************************************************************************)
(* eparakstsCloseSession.                                                  *)
(***************************************************************************)

\* Unlike the download, the close goes on when there is no entry.
CloseLookup(c, q) ==
    /\ \E fails \in BOOLEAN :
          /\ Begin(c, q, fails)
          /\ IF fails THEN Goto(c, "failed") /\ UNCHANGED sid
             ELSE Goto(c, "closing") /\ sid' = [sid EXCEPT ![c] = cache[q]]
    /\ UNCHANGED <<cache, owner, open, lossVars>>

CloseFailed(c) == unclosed' = unclosed \union ({sid[c]} \ {NoSession})

\* The service closes the session, or answers as it likes when there is none.
CloseRemote(c) ==
    /\ pc[c] = "closing"
    /\ \/ /\ Goto(c, "closed")
          /\ Failing(FALSE)
          /\ open' = open \ {sid[c]}
          /\ UNCHANGED unclosed
       \/ /\ Goto(c, "failed") /\ CloseFailed(c)
          /\ Failing(sid[c] \in open)
          /\ open' \in {open, open \ {sid[c]}}
    /\ UNCHANGED <<cache, owner, id, sid, overlapped, lost>>

\* Fault: the entry is left to expire.
CloseDelete_Keeps(c) ==
    /\ pc[c] = "closed"
    /\ Goto(c, "done")
    /\ UNCHANGED <<cache, owner, open, id, sid, overlapped, lossVars, sound>>

\* The entry is deleted, whatever session it names by now.
CloseDelete(c) ==
    /\ pc[c] = "closed"
    /\ \E fails \in BOOLEAN :
          /\ Failing(fails)
          /\ Goto(c, IF fails THEN "failed" ELSE "done")
          /\ \/ cache' = [cache EXCEPT ![id[c]] = NoSession] /\ UNCHANGED unclosed
             \/ fails /\ CloseFailed(c) /\ UNCHANGED cache
    /\ UNCHANGED <<owner, open, id, sid, overlapped, lost>>

-----------------------------------------------------------------------------

\* The entry has reached its time to live.
Expire(q) ==
    /\ cache[q] # NoSession
    /\ sound' = FALSE
    /\ lost' = lost \union {cache[q]}
    /\ cache' = [cache EXCEPT ![q] = NoSession]
    /\ UNCHANGED <<owner, open, pc, id, sid, overlapped, unclosed>>

Prepare(c) == PrepareRemote(c) \/ PrepareStore(c)
Close(c) == CloseRemote(c) \/ CloseDelete(c)

Next ==
    \/ \E c \in Call, q \in RequestID :
          PrepareLookup(c, q) \/ DownloadLookup(c, q) \/ CloseLookup(c, q)
    \/ \E c \in Call : Prepare(c) \/ DownloadFetch(c) \/ Close(c)
    \/ \E q \in RequestID : Expire(q)

Spec == Init /\ [][Next]_vars

-----------------------------------------------------------------------------
(***************************************************************************)
(* Properties.                                                             *)
(***************************************************************************)

\* A download fetches from, and a close closes, only a session that was created
\* for the request id of the call: whatever overlaps, expires or fails.
OwnSession ==
    \A c \in Call : sid[c] # NoSession => owner[sid[c]] = id[c]

\* Whatever overlaps, fails or expires, a session gets out of reach only in ways
\* that are known.  One that is open has its entry, or its prepare is about to
\* store it, unless the answer or the store was lost, the entry has expired, or
\* calls for the very same id have overlapped.  An entry that names no open
\* session, and so blocks its id, is one a close is about to delete or has failed
\* to: no other failure, no expiry and no overlap leaves one behind.
OnlyKnownLosses ==
    /\ \A s \in open :
          \/ cache[owner[s]] = s
          \/ \E c \in Call : pc[c] = "prepared" /\ sid[c] = s
          \/ s \in lost \/ owner[s] \in overlapped
    /\ \A q \in RequestID : cache[q] # NoSession =>
          \/ cache[q] \in open \/ cache[q] \in unclosed
          \/ \E c \in Call : pc[c] = "closed" /\ sid[c] = cache[q]

sequential == overlapped = {}

Over == {"done", "refused", "missing", "failed"}

RS == INSTANCE RequestSession WITH
        held <- {<<owner[s], s>> : s \in open},
        used <- {s \in Session : owner[s] # NoOwner},
        answers <- {<<c, id[c], pc[c]>> : c \in {d \in Call : pc[d] \in Over}},
        bound <- sequential /\ sound

\* What wallets are promised, as long as calls do not overlap and nothing goes
\* wrong: one session for a request id, a prepare refused only while there is
\* one, a download told "not found" only while there is none.
ImplementsRequestSession == RS!Spec

\* "check cache if requestId key already exists": a request id that has a
\* session gets no second one, as long as nothing goes wrong.
OneOpenSession ==
    sound => \A s, t \in open : owner[s] = owner[t] => s = t

=============================================================================
