------------------------------ MODULE Debouncer ------------------------------
(***************************************************************************)
(* The Debouncer of infrastructure/watcher, with the start and stop of the *)
(* LiveIndex that owns it.  add, flush_now, stop and _fire each run under  *)
(* the debouncer's lock, so each is one step; on_flush runs after the lock *)
(* is released.  A threading.Timer is a thread of its own: once its wait   *)
(* has timed out and it has seen that it was not cancelled it is "due",    *)
(* that is, waiting for the lock in _fire, and cancel() no longer stops    *)
(* it.                                                                     *)
(*                                                                         *)
(* A timer that has ended may be used again as the next Timer object, so a *)
(* finite set of timers bounds how many are alive at once, never how many  *)
(* keys are added.                                                         *)
(***************************************************************************)
\* Definitions whose names tell what they do wrong (RestartUnstarted,
\* FireKeepsTimer, ...) are mutated forms of the definition after them, which
\* the properties must tell from the code; the specification never uses them.

CONSTANTS
  Keys,       \* storage keys
  Timers,     \* Timer objects that can be alive at the same time
  Caller,     \* the thread that calls flush_now
  None

ASSUME TimersAssumption == Caller \notin Timers /\ None \notin Timers

VARIABLES
  buffer,     \* self._buffer
  timer,      \* self._timer
  thread,     \* thread[t]: where a timer's thread, or the caller, stands
  batch,      \* batch[t]: keys of the batch that t hands to on_flush
  watching    \* the observer that calls add: "on", "stopping" or "off"

vars == <<buffer, timer, thread, batch, watching>>

Threads == Timers \union {Caller}

TypeOK ==
  /\ buffer \subseteq Keys
  /\ timer \in Timers \union {None}
  /\ thread \in [Threads -> {"free", "armed", "due", "flushing"}]
  /\ batch \in [Threads -> SUBSET Keys]
  /\ watching \in {"on", "stopping", "off"}
  /\ \A t \in Threads : thread[t] = "flushing" <=> batch[t] # {}

Init ==
  /\ buffer = {}
  /\ timer = None
  /\ thread = [t \in Threads |-> "free"]
  /\ batch = [t \in Threads |-> {}]
  /\ watching = "off"

------------------------------------------------------------------------------

\* The threads after self._timer.cancel(): it ends a timer that still waits
\* and does nothing to one that is already due.
Cancelled ==
  IF timer # None /\ thread[timer] = "armed"
    THEN [thread EXCEPT ![timer] = "free"]
    ELSE thread

RestartUnstarted(t) ==
  /\ thread[t] = "free"
  /\ timer' = t
  /\ thread' = Cancelled

\* _restart_timer_locked, with t as the new Timer object.
Restart(t) ==
  /\ thread[t] = "free"
  /\ timer' = t
  /\ thread' = [Cancelled EXCEPT ![t] = "armed"]

\* add: called by the observer's thread for as long as it runs.
Add(k) ==
  /\ watching # "off"
  /\ buffer' = buffer \union {k}
  /\ \E t \in Timers : Restart(t)
  /\ UNCHANGED <<batch, watching>>

\* The window has passed and the timer was not cancelled: it calls _fire.
Elapse(t) ==
  /\ thread[t] = "armed"
  /\ thread' = [thread EXCEPT ![t] = "due"]
  /\ UNCHANGED <<buffer, timer, batch, watching>>

\* _fire finds nothing to do.
FireEmpty(t) ==
  /\ thread[t] = "due"
  /\ buffer = {}
  /\ timer' = None
  /\ thread' = [thread EXCEPT ![t] = "free"]
  /\ UNCHANGED <<buffer, batch, watching>>

FireKeepsTimer(t) ==
  /\ thread[t] = "due"
  /\ buffer # {}
  /\ batch' = [batch EXCEPT ![t] = buffer]
  /\ buffer' = {}
  /\ thread' = [thread EXCEPT ![t] = "flushing"]
  /\ UNCHANGED <<timer, watching>>

FireKeepsBuffer(t) ==
  /\ thread[t] = "due"
  /\ buffer # {}
  /\ batch' = [batch EXCEPT ![t] = buffer]
  /\ timer' = None
  /\ thread' = [thread EXCEPT ![t] = "flushing"]
  /\ UNCHANGED <<buffer, watching>>

\* _fire takes the buffer, whichever timer is the tracked one by now.
Fire(t) ==
  /\ thread[t] = "due"
  /\ buffer # {}
  /\ batch' = [batch EXCEPT ![t] = buffer]
  /\ buffer' = {}
  /\ timer' = None
  /\ thread' = [thread EXCEPT ![t] = "flushing"]
  /\ UNCHANGED watching

HandleKeyAndLeave(t, k) ==
  /\ k \in batch[t]
  /\ batch' = [batch EXCEPT ![t] = @ \ {k}]
  /\ thread' = [thread EXCEPT ![t] = "free"]
  /\ UNCHANGED <<buffer, timer, watching>>

\* on_flush, which is LiveIndex._apply_batch, has dealt with one key.
HandleKey(t, k) ==
  /\ k \in batch[t]
  /\ batch' = [batch EXCEPT ![t] = @ \ {k}]
  /\ thread' = IF batch[t] = {k} THEN [thread EXCEPT ![t] = "free"] ELSE thread
  /\ UNCHANGED <<buffer, timer, watching>>

FlushNowCancelsFirst ==
  /\ thread[Caller] = "free"
  /\ timer' = None
  /\ thread' = Cancelled
  /\ UNCHANGED <<buffer, batch, watching>>

\* flush_now: the caller takes the place of the timer.
FlushNow ==
  /\ thread[Caller] = "free"
  /\ timer' = None
  /\ batch' = [batch EXCEPT ![Caller] = buffer]
  /\ thread' = IF buffer = {} THEN Cancelled
                              ELSE [Cancelled EXCEPT ![Caller] = "flushing"]
  /\ buffer' = {}
  /\ UNCHANGED watching

\* LiveIndex.stop stops the debouncer first, the observer afterwards.
Stop ==
  /\ watching = "on"
  /\ watching' = "stopping"
  /\ timer' = None
  /\ thread' = Cancelled
  /\ buffer' = {}
  /\ UNCHANGED batch

ObserverStop ==
  /\ watching = "stopping"
  /\ watching' = "off"
  /\ UNCHANGED <<buffer, timer, thread, batch>>

\* LiveIndex.start, which may follow a stop: the debouncer is the same.
ObserverStart ==
  /\ watching = "off"
  /\ watching' = "on"
  /\ UNCHANGED <<buffer, timer, thread, batch>>

Next ==
  \/ \E k \in Keys : Add(k)
  \/ \E t \in Timers : Elapse(t)
  \/ \E t \in Timers : FireEmpty(t)
  \/ \E t \in Timers : Fire(t)
  \/ \E t \in Threads, k \in Keys : HandleKey(t, k)
  \/ FlushNow
  \/ Stop
  \/ ObserverStop
  \/ ObserverStart

\* A timer thread always goes on: its wait times out, the lock is held only
\* for short critical sections, and on_flush returns.  Adds, flush_now, start
\* and stop happen when their callers please.
Fairness ==
  /\ \A t \in Timers : WF_vars(Elapse(t)) /\ WF_vars(FireEmpty(t)) /\ WF_vars(Fire(t))
  /\ \A t \in Threads, k \in Keys : WF_vars(HandleKey(t, k))

Spec == Init /\ [][Next]_vars

FairSpec == Spec /\ Fairness

------------------------------------------------------------------------------

\* A key in the buffer is never forgotten: as long as the buffer holds
\* anything there is a timer that still waits or is about to fire, tracked by
\* self._timer or not, in whatever order adds, cancels and stale timers meet.
NoStrandedKey ==
  buffer # {} => \E t \in Timers : thread[t] \in {"armed", "due"}

\* The timer that self._timer names, the one the next add cancels, has not
\* fired yet: a fired timer never stays tracked.
TrackedTimerAlive ==
  timer # None => thread[timer] \in {"armed", "due"}

\* Once adds stop, a buffered key is handed to on_flush unless the debouncer
\* is stopped.  Without the premise it would be false: each add restarts the
\* window, so a file that keeps changing postpones the flush for ever.
DeliveredOnceQuiet ==
  (<>[][\A k \in Keys : ~Add(k)]_vars)
    => \A k \in Keys :
         (k \in buffer) ~> ((\E t \in Threads : k \in batch[t]) \/ watching # "on")

\* The debouncer is a Batcher: every key added is taken exactly once by one
\* thread and handled once, whichever timers raced for the buffer.
B == INSTANCE Batcher WITH pending <- buffer, Flushers <- Threads

ImplementsBatcher == B!Spec
==============================================================================
