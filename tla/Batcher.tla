------------------------------- MODULE Batcher -------------------------------
(***************************************************************************)
(* What the index side of the application relies on from its file watcher: *)
(* keys of changed files accumulate in a pending set, some thread takes    *)
(* the whole set as one batch, and then handles the keys of its batch one  *)
(* by one in no particular order (a Python set has none).                  *)
(*                                                                         *)
(* This module leaves out how a thread is chosen and when.  Debouncer      *)
(* implements it with threading.Timer objects; VehicleLifecycle is         *)
(* composed with it.                                                       *)
(***************************************************************************)
CONSTANTS
  Keys,       \* storage keys the watcher can report
  Flushers    \* threads that can run on_flush

VARIABLES
  pending,    \* keys reported and not yet taken
  batch       \* batch[f]: keys thread f has taken and not yet handled

vars == <<pending, batch>>

BatcherTypeOK ==
  /\ pending \subseteq Keys
  /\ batch \in [Flushers -> SUBSET Keys]

Init ==
  /\ pending = {}
  /\ batch = [f \in Flushers |-> {}]

\* KeyEventHandler.on_any_event reports the key of a changed file.
Report(k) ==
  /\ pending' = pending \union {k}
  /\ UNCHANGED batch

\* An idle thread takes everything that is pending.
Take(f) ==
  /\ batch[f] = {}
  /\ pending # {}
  /\ batch' = [batch EXCEPT ![f] = pending]
  /\ pending' = {}

\* One iteration of the loop in LiveIndex._apply_batch: the key leaves the
\* batch whether its handler succeeded or raised.
Handle(f, k) ==
  /\ k \in batch[f]
  /\ batch' = [batch EXCEPT ![f] = @ \ {k}]
  /\ UNCHANGED pending

\* Debouncer.stop forgets what has not been taken.
Forget ==
  /\ pending' = {}
  /\ UNCHANGED batch

Next ==
  \/ \E k \in Keys : Report(k)
  \/ \E f \in Flushers : Take(f)
  \/ \E f \in Flushers, k \in Keys : Handle(f, k)
  \/ Forget

Spec == Init /\ [][Next]_vars
==============================================================================
