----------------------------- MODULE MCDebouncer -----------------------------
(***************************************************************************)
(* Debouncer with two keys and three Timer objects: one that is flushing,  *)
(* one that is due and stale, and one that is armed, can exist at once.    *)
(***************************************************************************)
EXTENDS Debouncer
==============================================================================
