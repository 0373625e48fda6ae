------------------------------ MODULE AtomicFile ------------------------------
(***************************************************************************)
(* What the stores rely on from write_bytes and delete of the local        *)
(* backend: a file has an old content or a new one, and never a part of    *)
(* either.  A power failure may bring back an earlier content, whole too.  *)
(*                                                                         *)
(* AtomicWrite implements it with temporary files.                         *)
(***************************************************************************)
CONSTANTS
  Keys,       \* storage keys
  Values,     \* contents
  None        \* no file

VARIABLES
  disk,       \* disk[k]: the content of file k
  after       \* after[k]: what a power failure now may leave of it

vars == <<disk, after>>

FileTypeOK ==
  /\ disk \in [Keys -> Values \union {None}]
  /\ after \in [Keys -> SUBSET (Values \union {None})]

Init ==
  /\ disk \in [Keys -> Values \union {None}]
  /\ after = [k \in Keys |-> {disk[k]}]

Put(k, v) ==
  /\ disk' = [disk EXCEPT ![k] = v]
  /\ after' = [after EXCEPT ![k] = @ \union {v}]

\* The change has reached the disk for good.
Settle(k) ==
  /\ after' = [after EXCEPT ![k] = {disk[k]}]
  /\ UNCHANGED disk

PowerFailure ==
  /\ disk' \in [Keys -> Values \union {None}]
  /\ \A k \in Keys : disk'[k] \in after[k]
  /\ after' = [k \in Keys |-> {disk'[k]}]

Next ==
  \/ \E k \in Keys, v \in Values \union {None} : Put(k, v)
  \/ \E k \in Keys : Settle(k)
  \/ PowerFailure

Spec == Init /\ [][Next]_vars
==============================================================================
