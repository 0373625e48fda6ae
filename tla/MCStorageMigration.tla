-------------------------- MODULE MCStorageMigration --------------------------
(***************************************************************************)
(* Two files in one directory, one in another, and a temporary file beside *)
(* the last.                                                               *)
(***************************************************************************)
EXTENDS StorageMigration

CONSTANTS k1, k2, k3, t, d, e

MCDir == [x \in Files |-> IF x \in {k1, k2} THEN d ELSE e]
==============================================================================
