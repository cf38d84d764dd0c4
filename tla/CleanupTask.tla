---------------------------- MODULE CleanupTask -----------------------------
(***************************************************************************)
(* The background task that deletes anonymous wallet instances: a ticker,  *)
(* a goroutine that waits for the ticker or for the stop channel, and the  *)
(* Start and Stop the store calls as it connects and shuts down.  The      *)
(* store makes these calls one after the other; the goroutine runs beside  *)
(* them.                                                                   *)
(***************************************************************************)
EXTENDS Integers

CONSTANTS
    Loop,           \* goroutines Start may spawn
    Instance,       \* anonymous instances
    OlderThan,      \* WALLET_OLDER_THAN, in clock ticks
    Minute,         \* clock ticks in a minute
    MaxClock,       \* bound on the clock
    Unborn          \* the instance does not exist

ASSUME ParamAssumption ==
    /\ OlderThan \in Nat \ {0}
    /\ Minute \in Nat \ {0}
    /\ MaxClock \in Nat
    /\ Unborn \notin Nat

VARIABLES
    clock,
    born,       \* born[i]: when the instance was registered
    ticker,     \* the task's ticker: "nil", "running" or "stopped"
    due,        \* the ticker's channel holds a tick
    loop,       \* where each goroutine stands
    call        \* progress of the call of Start or Stop

vars == <<clock, born, ticker, due, loop, call>>

Live == {g \in Loop : loop[g] # "ended"}

TypeOK ==
    /\ clock \in Nat
    /\ born \in [Instance -> Nat \union {Unborn}]
    /\ \A i \in Instance : born[i] # Unborn => born[i] <= clock
    /\ ticker \in {"nil", "running", "stopped"}
    /\ due \in BOOLEAN
    /\ loop \in [Loop -> {"ended", "select", "cleaning"}]
    /\ call \in {"none", "stopping", "sent"}
    /\ ticker = "stopped" <=> call # "none"

Init ==
    /\ clock = 0
    /\ born = [i \in Instance |-> Unborn]
    /\ ticker = "nil"
    /\ due = FALSE
    /\ loop = [g \in Loop |-> "ended"]
    /\ call = "none"

-----------------------------------------------------------------------------
(***************************************************************************)
(* Start and Stop.                                                         *)
(***************************************************************************)

\* Fault: Start does not look for a ticker it has already.
Start_Again ==
    /\ call = "none"
    /\ ticker' = "running"
    /\ due' = FALSE
    /\ \E g \in Loop \ Live : loop' = [loop EXCEPT ![g] = "select"]
    /\ UNCHANGED <<clock, born, call>>

\* A ticker that exists is reset, which also drops a tick that is waiting;
\* otherwise there is a new channel, a new ticker and a new goroutine.
Start ==
    /\ call = "none"
    /\ ticker' = "running"
    /\ due' = FALSE
    /\ IF ticker # "nil" THEN UNCHANGED loop
       ELSE \E g \in Loop \ Live : loop' = [loop EXCEPT ![g] = "select"]
    /\ UNCHANGED <<clock, born, call>>

\* Stop of a task that was not started returns at once.
Stop ==
    /\ call = "none"
    /\ ticker # "nil"
    /\ ticker' = "stopped"
    /\ due' = FALSE
    /\ call' = "stopping"
    /\ UNCHANGED <<clock, born, loop>>

\* The channel has no buffer: Stop goes on when the goroutine takes the value.
HandOver(g) ==
    /\ call = "stopping"
    /\ loop[g] = "select"
    /\ loop' = [loop EXCEPT ![g] = "ended"]
    /\ call' = "sent"
    /\ UNCHANGED <<clock, born, ticker, due>>

\* Fault: the ticker is not forgotten, and the next Start only resets it.
StopReturn_KeepsTicker ==
    /\ call = "sent"
    /\ call' = "none"
    /\ UNCHANGED <<clock, born, ticker, due, loop>>

StopReturn ==
    /\ call = "sent"
    /\ ticker' = "nil"
    /\ call' = "none"
    /\ UNCHANGED <<clock, born, due, loop>>

-----------------------------------------------------------------------------
(***************************************************************************)
(* The goroutine.                                                          *)
(***************************************************************************)

\* A tick that nobody has taken yet takes the place of the next one.
TickerTicks ==
    /\ ticker = "running"
    /\ due' = TRUE
    /\ UNCHANGED <<clock, born, ticker, loop, call>>

TakeTick(g) ==
    /\ loop[g] = "select"
    /\ due
    /\ due' = FALSE
    /\ loop' = [loop EXCEPT ![g] = "cleaning"]
    /\ UNCHANGED <<clock, born, ticker, call>>

\* Fault: the duration is rounded to hours.
WholeMinutes_Hours == 60 * (OlderThan \div (60 * Minute))

\* int(olderThan.Minutes())
WholeMinutes == OlderThan \div Minute

Expired(i) == born[i] # Unborn /\ clock - born[i] >= OlderThan

\* delete_inactive_instances with that age.
Delete ==
    born' = [i \in Instance |->
               IF born[i] # Unborn /\ clock - born[i] >= WholeMinutes * Minute
               THEN Unborn ELSE born[i]]

CleanupDone(g) ==
    /\ loop[g] = "cleaning"
    /\ Delete
    /\ loop' = [loop EXCEPT ![g] = "select"]
    /\ UNCHANGED <<clock, ticker, due, call>>

\* Fault: the goroutine returns on an error.
CleanupFails_Returns(g) ==
    /\ loop[g] = "cleaning"
    /\ Delete \/ UNCHANGED born
    /\ loop' = [loop EXCEPT ![g] = "ended"]
    /\ UNCHANGED <<clock, ticker, due, call>>

\* An error is logged and the goroutine goes on; the answer may be what was lost.
CleanupFails(g) ==
    /\ loop[g] = "cleaning"
    /\ Delete \/ UNCHANGED born
    /\ loop' = [loop EXCEPT ![g] = "select"]
    /\ UNCHANGED <<clock, ticker, due, call>>

-----------------------------------------------------------------------------

\* POST /instance with an anonymous nonce (see Registration).
Register(i) ==
    /\ born[i] = Unborn
    /\ born' = [born EXCEPT ![i] = clock]
    /\ UNCHANGED <<clock, ticker, due, loop, call>>

Tick ==
    /\ clock < MaxClock
    /\ clock' = clock + 1
    /\ UNCHANGED <<born, ticker, due, loop, call>>

Cleanup(g) == CleanupDone(g) \/ CleanupFails(g)

Next ==
    \/ Start \/ Stop \/ StopReturn \/ TickerTicks \/ Tick
    \/ \E g \in Loop : HandOver(g) \/ TakeTick(g) \/ Cleanup(g)
    \/ \E i \in Instance : Register(i)

\* The goroutine and Stop keep running, the database answers, and does not
\* fail at every tick for ever.  The ticker is reset only finitely often
\* between two ticks, and select takes each channel in its turn.
Fairness ==
    /\ WF_vars(TickerTicks)
    /\ WF_vars(StopReturn)
    /\ \A g \in Loop :
          /\ SF_vars(HandOver(g))
          /\ SF_vars(TakeTick(g))
          /\ WF_vars(Cleanup(g))
          /\ SF_vars(CleanupDone(g))

Spec == Init /\ [][Next]_vars
FairSpec == Spec /\ Fairness

-----------------------------------------------------------------------------
(***************************************************************************)
(* Properties.                                                             *)
(***************************************************************************)

\* A started task has one goroutine, never two and never none; once Stop has
\* returned there is none left, so no deletion is still under way.
OneLoopWhileStarted ==
    /\ \A g, h \in Live : g = h
    /\ Live = {} <=> ticker = "nil" \/ call = "sent"

\* Whatever the limit, the conversion to whole minutes costs an instance less than
\* a minute: README says of WALLET_OLDER_THAN "how long wallet instances remain
\* valid", and one is deleted after 60 seconds when the limit is 90.
LessThanAMinuteEarly ==
    [][\A i \in Instance :
          born[i] # Unborn /\ born'[i] = Unborn => clock - born[i] > OlderThan - Minute]_vars

\* Stop returns, although it waits for a deletion in progress.
StopReturns == call = "stopping" ~> call = "none"

\* An expired instance is deleted, unless the task is stopped.
ExpiredDeleted ==
    \A i \in Instance : Expired(i) /\ ticker = "running"
        ~> born[i] = Unborn \/ ticker # "running"

=============================================================================
