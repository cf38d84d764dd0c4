--------------------------- MODULE RequestSession ---------------------------
(***************************************************************************)
(* What the signing endpoints (Eparaksts.tla) promise a wallet that waits  *)
(* for each answer while nothing fails, with no word about the cache: a    *)
(* request id has at most one session, no session serves twice, and a call *)
(* is turned away only for the reason it is given.                         *)
(***************************************************************************)

CONSTANTS Call, RequestID, Session

VARIABLES
    held,       \* <<request id, session>> pairs: who has what session open
    used,       \* sessions opened so far
    answers,    \* <<call, request id, answer>>: the calls that are over
    bound       \* whether the promise still binds

avars == <<held, used, answers, bound>>

Has(q) == \E s \in Session : <<q, s>> \in held

Init ==
    /\ held = {}
    /\ used = {}
    /\ answers = {}
    /\ bound = TRUE

Open(q, s) ==
    /\ ~Has(q)
    /\ s \notin used
    /\ held' = held \union {<<q, s>>}
    /\ used' = used \union {s}
    /\ UNCHANGED answers

Shut(q) ==
    /\ Has(q)
    /\ held' = {h \in held : h[1] # q}
    /\ UNCHANGED <<used, answers>>

\* The request id exists already, or there is none.
Justified(q, answer) ==
    /\ answer = "refused" => Has(q)
    /\ answer = "missing" => ~Has(q)

Answer(c, q, answer) ==
    /\ Justified(q, answer)
    /\ answers' = answers \union {<<c, q, answer>>}
    /\ UNCHANGED <<held, used>>

\* Once calls overlap or something fails, nothing is promised any more.
Next ==
    \/ /\ bound /\ bound'
       /\ \/ \E q \in RequestID, s \in Session : Open(q, s)
          \/ \E q \in RequestID : Shut(q)
          \/ \E c \in Call, q \in RequestID, answer \in {"done", "refused", "missing", "failed"} :
                Answer(c, q, answer)
    \/ ~bound'

Spec == Init /\ [][Next]_avars

=============================================================================
