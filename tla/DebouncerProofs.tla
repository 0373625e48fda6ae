--------------------------- MODULE DebouncerProofs ---------------------------
(***************************************************************************)
(* Proofs about Debouncer, for any sets of keys and of timers.             *)
(***************************************************************************)
EXTENDS Debouncer, TLAPS

\* The tracked timer is alive and no key is stranded: each needs TypeOK only.
Inv == TypeOK /\ NoStrandedKey /\ TrackedTimerAlive

\* Cancelling ends the tracked timer if it waits; every other thread stays
\* where it is.
LEMMA CancelledEffect ==
  ASSUME TypeOK
  PROVE  /\ Cancelled \in [Threads -> {"free", "armed", "due", "flushing"}]
         /\ \A t \in Threads : Cancelled[t] = thread[t]
                               \/ (thread[t] = "armed" /\ Cancelled[t] = "free")
  BY DEF TypeOK, Cancelled, Threads

\* TypeOK and the two properties hold initially and are kept by every step.
LEMMA InvInit == Init => Inv
  BY TimersAssumption DEF Init, Inv, TypeOK, NoStrandedKey, TrackedTimerAlive, Threads

\* The state stays well formed whichever of add, cancel, stale fire and
\* flush_now comes next.
LEMMA TypeOKStep == TypeOK /\ [Next]_vars => TypeOK'
<1> SUFFICES ASSUME TypeOK, [Next]_vars PROVE TypeOK'
  OBVIOUS
<1> USE TimersAssumption DEF TypeOK, Threads
<1>1. ASSUME NEW k \in Keys, Add(k) PROVE TypeOK'
  <2>1. PICK t \in Timers : Restart(t)
    BY <1>1 DEF Add
  <2>2. QED
    BY <1>1, <2>1, CancelledEffect DEF Add, Restart
<1>2. ASSUME NEW t \in Timers, Elapse(t) PROVE TypeOK'
  BY <1>2 DEF Elapse
<1>3. ASSUME NEW t \in Timers, FireEmpty(t) PROVE TypeOK'
  BY <1>3 DEF FireEmpty
<1>4. ASSUME NEW t \in Timers, Fire(t) PROVE TypeOK'
  BY <1>4 DEF Fire
<1>5. ASSUME NEW t \in Threads, NEW k \in Keys, HandleKey(t, k) PROVE TypeOK'
  BY <1>5 DEF HandleKey
<1>6. CASE FlushNow
  BY <1>6, CancelledEffect DEF FlushNow
<1>7. CASE Stop
  BY <1>7, CancelledEffect DEF Stop
<1>8. CASE ObserverStop
  BY <1>8 DEF ObserverStop
<1>9. CASE ObserverStart
  BY <1>9 DEF ObserverStart
<1>10. CASE UNCHANGED vars
  BY <1>10 DEF vars
<1>11. QED
  BY <1>1, <1>2, <1>3, <1>4, <1>5, <1>6, <1>7, <1>8, <1>9, <1>10 DEF Next

\* Only _fire, flush_now and stop disarm a timer for good, and each of them
\* empties the buffer in the same critical section.
LEMMA NoStrandedKeyStep == Inv /\ [Next]_vars => NoStrandedKey'
<1> SUFFICES ASSUME Inv, [Next]_vars PROVE NoStrandedKey'
  OBVIOUS
<1> USE TimersAssumption DEF Inv, TypeOK, NoStrandedKey, Threads
<1>1. ASSUME NEW k \in Keys, Add(k) PROVE NoStrandedKey'
  <2>1. PICK t \in Timers : Restart(t)
    BY <1>1 DEF Add
  <2>2. thread'[t] = "armed"
    BY <2>1, CancelledEffect DEF Restart
  <2>3. QED
    BY <2>2
<1>2. ASSUME NEW t \in Timers, Elapse(t) PROVE NoStrandedKey'
  BY <1>2 DEF Elapse
<1>3. ASSUME NEW t \in Timers, FireEmpty(t) PROVE NoStrandedKey'
  BY <1>3 DEF FireEmpty
<1>4. ASSUME NEW t \in Timers, Fire(t) PROVE NoStrandedKey'
  BY <1>4 DEF Fire
<1>5. ASSUME NEW t \in Threads, NEW k \in Keys, HandleKey(t, k) PROVE NoStrandedKey'
  BY <1>5 DEF HandleKey
<1>6. CASE FlushNow
  BY <1>6 DEF FlushNow
<1>7. CASE Stop
  BY <1>7 DEF Stop
<1>8. CASE ObserverStop \/ ObserverStart \/ UNCHANGED vars
  BY <1>8 DEF ObserverStop, ObserverStart, vars
<1>9. QED
  BY <1>1, <1>2, <1>3, <1>4, <1>5, <1>6, <1>7, <1>8 DEF Next

\* Whoever fires, stale or not, clears self._timer.
LEMMA TrackedTimerStep == Inv /\ [Next]_vars => TrackedTimerAlive'
<1> SUFFICES ASSUME Inv, [Next]_vars PROVE TrackedTimerAlive'
  OBVIOUS
<1> USE TimersAssumption DEF Inv, TypeOK, TrackedTimerAlive, Threads
<1>1. ASSUME NEW k \in Keys, Add(k) PROVE TrackedTimerAlive'
  <2>1. PICK t \in Timers : Restart(t)
    BY <1>1 DEF Add
  <2>2. QED
    BY <2>1, CancelledEffect DEF Restart
<1>2. ASSUME NEW t \in Timers, Elapse(t) PROVE TrackedTimerAlive'
  BY <1>2 DEF Elapse
<1>3. ASSUME NEW t \in Timers, FireEmpty(t) \/ Fire(t) PROVE TrackedTimerAlive'
  BY <1>3 DEF FireEmpty, Fire
<1>4. ASSUME NEW t \in Threads, NEW k \in Keys, HandleKey(t, k) PROVE TrackedTimerAlive'
  <2>1. thread[t] = "flushing"
    BY <1>4 DEF HandleKey
  <2>2. QED
    BY <1>4, <2>1 DEF HandleKey
<1>5. CASE FlushNow \/ Stop
  BY <1>5 DEF FlushNow, Stop
<1>6. CASE ObserverStop \/ ObserverStart \/ UNCHANGED vars
  BY <1>6 DEF ObserverStop, ObserverStart, vars
<1>7. QED
  BY <1>1, <1>2, <1>3, <1>4, <1>5, <1>6 DEF Next

\* Every reachable state satisfies the three invariants, whatever the number
\* of timers that are alive at once.
THEOREM Invariance == Spec => []Inv
<1>1. Inv /\ [Next]_vars => Inv'
  BY TypeOKStep, NoStrandedKeyStep, TrackedTimerStep DEF Inv
<1>2. QED
  BY InvInit, <1>1, PTL DEF Spec

\* Every variable keeps its type, and the tracked timer is one of the Timer
\* objects, however add, flush_now, stop and late timers interleave.
THEOREM TypeCorrect == Spec => []TypeOK
  BY Invariance, PTL DEF Inv

\* No key that add put into the buffer is left there without a timer that
\* will fire for it.
THEOREM KeysNotStranded == Spec => []NoStrandedKey
  BY Invariance, PTL DEF Inv

\* cancel() is only ever called on a timer that has not fired.
THEOREM TrackedTimersAlive == Spec => []TrackedTimerAlive
  BY Invariance, PTL DEF Inv

\* Every step of the debouncer is a step of the abstract batcher or leaves
\* the buffer and the batches alone.
THEOREM RefinesBatcher == Spec => ImplementsBatcher
<1>1. Init => B!Init
  BY DEF Init, B!Init
<1>2. TypeOK /\ [Next]_vars => [B!Next]_(B!vars)
  <2> SUFFICES ASSUME TypeOK, [Next]_vars PROVE [B!Next]_(B!vars)
    OBVIOUS
  <2> USE TimersAssumption DEF TypeOK, Threads, B!Next, B!vars
  <2>1. ASSUME NEW k \in Keys, Add(k) PROVE B!Report(k)
    BY <2>1 DEF Add, B!Report
  <2>2. ASSUME NEW t \in Timers, Elapse(t) \/ FireEmpty(t) PROVE UNCHANGED B!vars
    BY <2>2 DEF Elapse, FireEmpty
  <2>3. ASSUME NEW t \in Timers, Fire(t) PROVE B!Take(t)
    BY <2>3 DEF Fire, B!Take
  <2>4. ASSUME NEW t \in Threads, NEW k \in Keys, HandleKey(t, k) PROVE B!Handle(t, k)
    BY <2>4 DEF HandleKey, B!Handle
  <2>5. CASE FlushNow
    <3>1. CASE buffer = {}
      BY <2>5, <3>1 DEF FlushNow
    <3>2. CASE buffer # {}
      BY <2>5, <3>2 DEF FlushNow, B!Take
    <3>3. QED
      BY <3>1, <3>2
  <2>6. CASE Stop
    BY <2>6 DEF Stop, B!Forget
  <2>7. CASE ObserverStop \/ ObserverStart \/ UNCHANGED vars
    BY <2>7 DEF ObserverStop, ObserverStart, vars
  <2>8. QED
    BY <2>1, <2>2, <2>3, <2>4, <2>5, <2>6, <2>7 DEF Next
<1>3. QED
  BY <1>1, <1>2, Invariance, PTL DEF Spec, Inv, ImplementsBatcher, B!Spec
==============================================================================
