---------------------------- MODULE MCAtomicWrite ----------------------------
(***************************************************************************)
(* One file, two threads that write it and a purge that deletes it.  The   *)
(* threads and the temporary names are interchangeable.                    *)
(***************************************************************************)
EXTENDS AtomicWrite, TLC

Symmetry == Permutations(Writers) \union Permutations(Temps)
==============================================================================
