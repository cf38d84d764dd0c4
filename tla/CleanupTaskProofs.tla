-------------------------- MODULE CleanupTaskProofs -------------------------
(***************************************************************************)
(* Theorems about CleanupTask, for any number of goroutines and instances. *)
(***************************************************************************)
EXTENDS CleanupTask, TLAPS

USE DEF Live

\* The types of the task; no instance is older than the clock.
THEOREM CleanupType == Spec => []TypeOK
<1>1. Init => TypeOK
  <2> SUFFICES ASSUME Init PROVE TypeOK
    OBVIOUS
  <2>1. \A i \in Instance : born[i] = Unborn
    BY DEF Init
  <2>2. clock \in Nat /\ born \in [Instance -> Nat \union {Unborn}]
    BY DEF Init
  <2>. QED
    BY <2>1, <2>2 DEF Init, TypeOK
<1>2. TypeOK /\ [Next]_vars => TypeOK'
  <2> SUFFICES ASSUME TypeOK, [Next]_vars PROVE TypeOK'
    OBVIOUS
  <2> USE ParamAssumption DEF TypeOK
  <2>1. CASE Start \/ Stop \/ StopReturn \/ TickerTicks
    BY <2>1 DEF Start, Stop, StopReturn, TickerTicks
  <2>2. CASE Tick
    BY <2>2 DEF Tick
  <2>3. ASSUME NEW g \in Loop, HandOver(g) \/ TakeTick(g) PROVE TypeOK'
    BY <2>3 DEF HandOver, TakeTick
  <2>4. ASSUME NEW g \in Loop, Cleanup(g) PROVE TypeOK'
    BY <2>4 DEF Cleanup, CleanupDone, CleanupFails, Delete
  <2>5. ASSUME NEW i \in Instance, Register(i) PROVE TypeOK'
    BY <2>5 DEF Register
  <2>6. CASE UNCHANGED vars
    BY <2>6 DEF vars
  <2>. QED
    BY <2>1, <2>2, <2>3, <2>4, <2>5, <2>6 DEF Next
<1>. QED
  BY <1>1, <1>2, PTL DEF Spec

-----------------------------------------------------------------------------

\* One goroutine while the task is started and none after Stop has returned;
\* inductive with TypeOK, which ties the ticker to a call of Stop in progress.
THEOREM CleanupOneLoop == Spec => []OneLoopWhileStarted
<1>1. Init => OneLoopWhileStarted
  BY DEF Init, OneLoopWhileStarted
<1>2. TypeOK /\ OneLoopWhileStarted /\ [Next]_vars => OneLoopWhileStarted'
  <2> SUFFICES ASSUME TypeOK, OneLoopWhileStarted, [Next]_vars PROVE OneLoopWhileStarted'
    OBVIOUS
  <2> USE DEF TypeOK, OneLoopWhileStarted
  <2>1. CASE Start
    BY <2>1 DEF Start
  <2>2. CASE Stop \/ StopReturn \/ TickerTicks \/ Tick
    BY <2>2 DEF Stop, StopReturn, TickerTicks, Tick
  <2>3. ASSUME NEW g \in Loop, HandOver(g) PROVE OneLoopWhileStarted'
    BY <2>3 DEF HandOver
  <2>4. ASSUME NEW g \in Loop, TakeTick(g) \/ Cleanup(g) PROVE OneLoopWhileStarted'
    BY <2>4 DEF TakeTick, Cleanup, CleanupDone, CleanupFails
  <2>5. ASSUME NEW i \in Instance, Register(i) PROVE OneLoopWhileStarted'
    BY <2>5 DEF Register
  <2>6. CASE UNCHANGED vars
    BY <2>6 DEF vars
  <2>. QED
    BY <2>1, <2>2, <2>3, <2>4, <2>5, <2>6 DEF Next
<1>. QED
  BY <1>1, <1>2, CleanupType, PTL DEF Spec

-----------------------------------------------------------------------------

\* The minutes sent to the database are less than one minute short of the limit.
LEMMA WholeMinutesBound ==
    /\ WholeMinutes * Minute \in Int
    /\ OlderThan - WholeMinutes * Minute \in 0..(Minute - 1)
<1> DEFINE q == OlderThan \div Minute
           rest == OlderThan % Minute
<1>1. q \in Int /\ rest \in 0..(Minute - 1) /\ OlderThan = Minute * q + rest
  BY ParamAssumption
<1>2. q * Minute = OlderThan - rest
  BY <1>1, ParamAssumption
<1>. QED
  BY <1>1, <1>2, ParamAssumption DEF WholeMinutes

\* What a step may delete: only a cleaning goroutine deletes, and only instances
\* of the age that is sent.
LEMMA DeletionStep ==
    ASSUME TypeOK, [Next]_vars, NEW i \in Instance, born[i] # Unborn, born'[i] = Unborn
    PROVE  /\ \E g \in Loop : loop[g] = "cleaning"
           /\ clock - born[i] >= WholeMinutes * Minute
<1>1. CASE \E g \in Loop : Cleanup(g)
  <2>1. Delete /\ \E g \in Loop : loop[g] = "cleaning"
    BY <1>1 DEF Cleanup, CleanupDone, CleanupFails
  <2>2. clock - born[i] >= WholeMinutes * Minute
    BY <2>1 DEF Delete
  <2>. QED
    BY <2>1, <2>2
<1>2. CASE \E j \in Instance : Register(j)
  BY <1>2, ParamAssumption DEF Register, TypeOK
<1>3. CASE UNCHANGED born
  BY <1>3
<1>4. \/ \E g \in Loop : Cleanup(g)
      \/ \E j \in Instance : Register(j)
      \/ UNCHANGED born
  BY DEF Next, Start, Stop, StopReturn, TickerTicks, Tick, HandOver, TakeTick, vars
<1>. QED
  BY <1>1, <1>2, <1>3, <1>4

\* Whatever the limit, an instance loses less than a minute by the conversion.
THEOREM CleanupLessThanAMinuteEarly == Spec => LessThanAMinuteEarly
<1>1. ASSUME TypeOK, [Next]_vars, NEW i \in Instance, born[i] # Unborn, born'[i] = Unborn
      PROVE  clock - born[i] > OlderThan - Minute
  <2>1. clock - born[i] >= WholeMinutes * Minute
    BY <1>1, DeletionStep
  <2>2. clock - born[i] \in Int
    BY <1>1 DEF TypeOK
  <2>. QED
    BY <2>1, <2>2, WholeMinutesBound, ParamAssumption
<1>2. TypeOK /\ [Next]_vars =>
        [\A i \in Instance :
            born[i] # Unborn /\ born'[i] = Unborn => clock - born[i] > OlderThan - Minute]_vars
  BY <1>1
<1>. QED
  BY <1>2, CleanupType, PTL DEF Spec, LessThanAMinuteEarly

\* Once Stop has returned, and until the next Start, the task deletes nothing: no
\* deletion that had begun before is still under way.
NothingDeletedWhenStopped ==
    [][ticker = "nil" =>
          \A i \in Instance : born[i] # Unborn => born'[i] = born[i]]_vars

THEOREM CleanupStopsDeleting == Spec => NothingDeletedWhenStopped
<1>1. ASSUME TypeOK, OneLoopWhileStarted, [Next]_vars, ticker = "nil",
             NEW i \in Instance, born[i] # Unborn
      PROVE  born'[i] = born[i]
  <2>1. \A g \in Loop : loop[g] = "ended"
    BY <1>1 DEF OneLoopWhileStarted
  <2>2. CASE \E j \in Instance : Register(j)
    BY <1>1, <2>2 DEF Register, TypeOK
  <2>3. CASE UNCHANGED born
    BY <2>3
  <2>. QED
    BY <1>1, <2>1, <2>2, <2>3
       DEF Next, Start, Stop, StopReturn, TickerTicks, Tick, HandOver, TakeTick, Cleanup,
           CleanupDone, CleanupFails, vars
<1>2. TypeOK /\ OneLoopWhileStarted /\ [Next]_vars =>
        [ticker = "nil" => \A i \in Instance : born[i] # Unborn => born'[i] = born[i]]_vars
  BY <1>1
<1>. QED
  BY <1>2, CleanupType, CleanupOneLoop, PTL DEF Spec, NothingDeletedWhenStopped

=============================================================================
