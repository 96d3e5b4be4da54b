------------------------------- MODULE Watch -------------------------------
(***************************************************************************)
(* When degc reconciles: the select loop of `degc run` (src/main.rs), the  *)
(* task that watches Docker's events (src/docker.rs) and the channel of    *)
(* capacity one between them.  A snapshot stands for what list_targets     *)
(* returns; compiling and applying it is one step that succeeds or fails.  *)
(***************************************************************************)
EXTENDS Naturals

CONSTANTS
  Snapshot,   \* what Docker may list
  Partial,    \* the host state that a reconcile left halfway
  MaxFlight   \* bound: events sent by Docker and not yet read

ASSUME WatchAssumption ==
  Partial \notin Snapshot /\ MaxFlight \in Nat

VARIABLES
  containers, \* Docker: what it would list now
  pc,         \* loop: "list", "apply", "idle" in select!, "debounce", "off"
  started,    \* loop: the initial reconcile has succeeded
  listed,     \* loop: the snapshot being applied, Partial when none is
  applied,    \* host: the snapshot it was last programmed for
  stream,     \* watcher: "none", "connecting", "up", "asleep", "dead"
  flight,     \* relevant events on their way to the watcher
  token,      \* the channel holds a signal
  term,       \* SIGTERM or SIGINT arrived
  missed      \* history: only a resync can notice what has changed

loop == <<pc, started, listed, applied>>
task == <<stream, flight>>
vars == <<containers, loop, task, token, term, missed>>

Begin(p) == pc' = p /\ UNCHANGED <<started, listed, applied>>

----------------------------------------------------------------------------
(* Docker.  Containers start, die and are destroyed, which the watcher     *)
(* hears of when it is subscribed; `network connect` and `rename` change   *)
(* what Docker lists as well, and is_relevant ignores them.                *)

Change(s) == /\ s # containers /\ containers' = s
             /\ IF stream = "up"
                THEN flight < MaxFlight /\ flight' = flight + 1 /\ missed' = missed
                ELSE flight' = flight /\ missed' = TRUE
             /\ UNCHANGED <<loop, stream, token, term>>

QuietChange(s) == /\ s # containers /\ containers' = s /\ missed' = TRUE
                  /\ UNCHANGED <<loop, task, token, term>>

----------------------------------------------------------------------------
(* The watcher.  Events are not replayed: what happens between a broken    *)
(* stream and the next subscription is lost.                               *)

Subscribe == /\ stream = "connecting" /\ stream' = "up"
             /\ UNCHANGED <<containers, loop, flight, token, term, missed>>

\* Mutant of Deliver: a signal without an event.
DeliverUnsent == /\ stream = "up"
                 /\ flight' = flight - 1 /\ token' = TRUE
                 /\ UNCHANGED <<containers, loop, stream, term, missed>>

\* try_send: a full channel already holds the signal.
Deliver == /\ stream = "up" /\ flight # 0
           /\ flight' = flight - 1 /\ token' = TRUE
           /\ UNCHANGED <<containers, loop, stream, term, missed>>

LoseStream(s) == /\ stream \in {"connecting", "up"}
                 /\ stream' = s /\ flight' = 0
                 /\ missed' = (missed \/ flight # 0)
                 /\ UNCHANGED <<containers, loop, token, term>>
StreamError   == LoseStream("asleep")
\* The task itself ends, which drops the sender.
WatcherDies   == LoseStream("dead")

Resubscribe == /\ stream = "asleep" /\ stream' = "connecting"
               /\ UNCHANGED <<containers, loop, flight, token, term, missed>>

----------------------------------------------------------------------------
(* The loop.                                                               *)

Start == /\ pc = "off" /\ Begin("list")
         /\ UNCHANGED <<containers, task, token, term, missed>>

\* Mutant of Tick: the resync is left to a live event stream.
TickWhileWatching == /\ pc = "idle" /\ stream = "up" /\ Begin("list")
                     /\ UNCHANGED <<containers, task, token, term, missed>>

Tick == /\ pc = "idle" /\ Begin("list")
        /\ UNCHANGED <<containers, task, token, term, missed>>

Wake == /\ pc = "idle" /\ token
        /\ token' = FALSE /\ Begin("debounce")
        /\ UNCHANGED <<containers, task, term, missed>>

\* recv yields None: the watcher is gone and its last signal was taken.
Rewatch == /\ pc = "idle" /\ ~token /\ stream = "dead"
           /\ stream' = "connecting"
           /\ UNCHANGED <<containers, loop, flight, token, term, missed>>

\* Another signal within the quiet period starts it over.
Drain == /\ pc = "debounce" /\ token /\ token' = FALSE
         /\ UNCHANGED <<containers, loop, task, term, missed>>

\* Mutant of DebounceEnds: `while let Ok(_)` without the break on None.
DebounceSpins == /\ pc = "debounce" /\ ~token /\ stream # "dead" /\ Begin("list")
                 /\ UNCHANGED <<containers, task, token, term, missed>>

\* The quiet period has passed, or the channel is closed.
DebounceEnds == /\ pc = "debounce" /\ ~token /\ Begin("list")
                /\ UNCHANGED <<containers, task, token, term, missed>>

List == /\ pc = "list" /\ pc' = "apply"
        /\ listed' = containers /\ missed' = FALSE
        /\ UNCHANGED <<containers, started, applied, task, token, term>>

\* Mutant of Apply: signals that arrived during the reconcile are discarded
\* as already dealt with.
ApplyDrains == /\ pc = "apply"
               /\ pc' = "idle" /\ applied' = listed /\ started' = TRUE
               /\ stream' = (IF started THEN stream ELSE "connecting") /\ token' = FALSE
               /\ listed' = Partial
               /\ UNCHANGED <<containers, flight, term, missed>>

\* The watcher is spawned once the initial reconcile is through.
Apply == /\ pc = "apply"
         /\ pc' = "idle" /\ applied' = listed /\ started' = TRUE
         /\ stream' = IF started THEN stream ELSE "connecting"
         /\ listed' = Partial
         /\ UNCHANGED <<containers, flight, token, term, missed>>

\* The process ends: the channel and the subscription go with it.
Exit == /\ pc' = "off" /\ started' = FALSE
        /\ stream' = "none" /\ flight' = 0 /\ token' = FALSE /\ term' = FALSE

\* Nothing retries a failed reconcile before the next tick or event.
Fail == IF started
        THEN pc' = "idle" /\ missed' = TRUE /\ UNCHANGED <<started, task, token, term>>
        ELSE Exit /\ missed' = missed

ListFails == /\ pc = "list" /\ Fail
             /\ UNCHANGED <<containers, listed, applied>>

ApplyFails == /\ pc = "apply" /\ Fail
              /\ applied' \in {applied, Partial}
              /\ listed' = Partial /\ UNCHANGED containers

\* The signal is only looked at in select!.
Shutdown == /\ pc = "idle" /\ term /\ Exit
            /\ UNCHANGED <<containers, listed, applied, missed>>

Crash == /\ pc # "off" /\ Exit
         /\ applied' \in IF pc = "apply" THEN {applied, Partial} ELSE {applied}
         /\ listed' = Partial /\ UNCHANGED <<containers, missed>>

\* The handlers are installed when select! is first polled.  A signal that
\* comes before kills the process (Crash) or, sent to PID 1, is discarded.
Terminate == /\ started /\ ~term /\ term' = TRUE
             /\ UNCHANGED <<containers, loop, task, token, missed>>

----------------------------------------------------------------------------
Init == /\ containers \in Snapshot /\ listed = Partial /\ applied = Partial
        /\ pc = "off" /\ started = FALSE
        /\ stream = "none" /\ flight = 0 /\ token = FALSE /\ term = FALSE
        /\ missed = FALSE

Docker  == \E s \in Snapshot : Change(s) \/ QuietChange(s)
Watcher == Subscribe \/ Deliver \/ StreamError \/ WatcherDies \/ Resubscribe
Work    == Wake \/ Drain \/ DebounceEnds \/ List \/ Apply \/ ListFails \/ ApplyFails
Daemon  == Start \/ Tick \/ Rewatch \/ Work \/ Shutdown \/ Crash \/ Terminate

Next == Docker \/ Watcher \/ Daemon
Spec == Init /\ [][Next]_vars

\* Docker restarts the container; commands end; an event that was sent is
\* read.  select! picks among the branches that are ready at random, so one
\* that stays ready - a due tick, a pending signal - is picked eventually.
Fairness == /\ WF_vars(Start) /\ WF_vars(Work) /\ WF_vars(Deliver)
            /\ SF_vars(Tick) /\ SF_vars(Shutdown)
LiveSpec == Spec /\ Fairness

----------------------------------------------------------------------------
TypeOK ==
  /\ containers \in Snapshot /\ listed \in Snapshot \cup {Partial}
  /\ pc = "apply" => listed \in Snapshot
  /\ applied \in Snapshot \cup {Partial}
  /\ pc \in {"off", "list", "apply", "idle", "debounce"}
  /\ stream \in {"none", "connecting", "up", "asleep", "dead"}
  /\ flight \in 0 .. MaxFlight
  /\ started \in BOOLEAN /\ token \in BOOLEAN
  /\ term \in BOOLEAN /\ missed \in BOOLEAN

\* No lost wakeup: whenever the host is programmed for other containers than
\* Docker would list, the loop is on its way to list them, a signal or an
\* event that makes it do so is pending, or the change is one that the event
\* stream could not carry or whose reconcile failed.  In particular a signal
\* that finds the channel full, one that debounce drains, and one that
\* arrives in the middle of a reconcile are not lost.
Aimed == IF pc = "apply" THEN listed ELSE applied
NoLostWakeup ==
  (pc \in {"apply", "idle"} /\ Aimed # containers) =>
    token \/ flight # 0 \/ missed

\* Once reconciles succeed and the containers stay as they are, the host is
\* programmed for them for good - by the resync alone, however often the
\* event stream breaks and the watcher dies.
Faults == \/ ListFails \/ ApplyFails \/ Crash \/ Shutdown
CatchesUp ==
  <>[][~(Docker \/ Faults)]_vars => <>[](applied = containers)

\* A daemon told to terminate does so between two reconciles, once the
\* containers come to rest; no failure and no dead watcher prevents it.
Obeys == <>[][~Docker]_vars => (term ~> (pc = "off"))

----------------------------------------------------------------------------
\* src/config.rs:14, "Periodic full reconcile interval (safety net against
\* drift / missed events)", and docs/architecture.md:167 "Periodic resync as a
\* safety net": while the daemon runs, reconciles do not cease.
KeepsReconciling == []<>(pc \in {"list", "off"})
=============================================================================
