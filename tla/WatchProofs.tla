---------------------------- MODULE WatchProofs ----------------------------
(***************************************************************************)
(* That no wakeup is lost, for every set of snapshots and every number of  *)
(* events under way.                                                       *)
(***************************************************************************)
EXTENDS Watch, TLAPS

\* The two facts about numbers that the argument needs.
LEMMA Sent == /\ 0 \in 0 .. MaxFlight
              /\ \A n \in 0 .. MaxFlight :
                   n < MaxFlight => n + 1 \in 0 .. MaxFlight /\ n + 1 # 0
  BY WatchAssumption

LEMMA Read == \A n \in 0 .. MaxFlight : n # 0 => n - 1 \in 0 .. MaxFlight
  BY WatchAssumption

----------------------------------------------------------------------------
\* NoLostWakeup is inductive once the types are.
IInv == TypeOK /\ NoLostWakeup

LEMMA InitIInv == Init => IInv
  BY Sent, Zenon DEF Init, IInv, TypeOK, NoLostWakeup, Aimed

LEMMA StepIInv == IInv /\ [Next]_vars => IInv'
<1> SUFFICES ASSUME IInv, [Next]_vars PROVE IInv'
  OBVIOUS
<1> USE DEF IInv, TypeOK, NoLostWakeup, Aimed
<1>1. ASSUME NEW s \in Snapshot, Change(s) PROVE IInv'
  BY <1>1, Sent, Zenon DEF Change, loop
<1>2. ASSUME NEW s \in Snapshot, QuietChange(s) PROVE IInv'
  BY <1>2, Zenon DEF QuietChange, loop, task
<1>3. CASE Subscribe \/ Resubscribe
  BY <1>3, Zenon DEF Subscribe, Resubscribe, loop
<1>4. CASE Deliver
  BY <1>4, Read, Zenon DEF Deliver, loop
<1>5. CASE StreamError \/ WatcherDies
  BY <1>5, Sent, Zenon DEF StreamError, WatcherDies, LoseStream, loop
<1>6. CASE Start \/ Tick
  BY <1>6, Zenon DEF Start, Tick, Begin, loop, task
<1>7. CASE Rewatch \/ Terminate
  BY <1>7, Zenon DEF Rewatch, Terminate, loop, task
<1>8. CASE Wake \/ Drain \/ DebounceEnds
  BY <1>8, Zenon DEF Wake, Drain, DebounceEnds, Begin, loop, task
<1>9. CASE List
  BY <1>9, Zenon DEF List, task
<1>10. CASE Apply
  BY <1>10, Zenon DEF Apply
<1>11. CASE ListFails
  BY <1>11, Sent, Zenon DEF ListFails, Fail, Exit, task
<1>12. CASE ApplyFails
  BY <1>12, Sent, Zenon DEF ApplyFails, Fail, Exit, task
<1>13. CASE Shutdown \/ Crash
  BY <1>13, Sent, Zenon DEF Shutdown, Crash, Exit
<1>14. CASE UNCHANGED vars
  BY <1>14, Zenon DEF vars, loop, task
<1> QED
  BY <1>1, <1>2, <1>3, <1>4, <1>5, <1>6, <1>7, <1>8, <1>9, <1>10, <1>11, <1>12,
     <1>13, <1>14 DEF Next, Docker, Watcher, Daemon, Work

LEMMA Invariant == Spec => []IInv
  BY InitIInv, StepIInv, PTL DEF Spec

\* The variables of the reconcile loop, the watcher and the channel keep
\* their types in every run of `degc run`.
THEOREM WatchTyped == Spec => []TypeOK
<1>1. IInv => TypeOK
  BY DEF IInv
<1> QED
  BY <1>1, Invariant, PTL

\* Whatever Docker, the event stream, the watcher task and the signals do,
\* a host programmed for the wrong containers has a wakeup pending, unless
\* the change could not be heard of or its reconcile failed.
THEOREM WakeupsKept == Spec => []NoLostWakeup
<1>1. IInv => NoLostWakeup
  BY DEF IInv
<1> QED
  BY <1>1, Invariant, PTL
=============================================================================
