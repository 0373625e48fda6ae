---------------------------- MODULE MCRepairImages ----------------------------
(***************************************************************************)
(* A repair with two images, for the races around the index.               *)
(***************************************************************************)
EXTENDS RepairImages

CONSTANTS b1, b2

TwoImages == 1..2

\* One image with a comment, one without, and the latter under an odd name.
ThreeUploads ==
  {[body |-> b1, noted |-> TRUE, listed |-> TRUE]} \union [body : {b2}, noted : {FALSE}, listed : BOOLEAN]
==============================================================================
