---------------------------- MODULE MCEmailIngest ----------------------------
(***************************************************************************)
(* Four messages for one vehicle: two images; a repeat of the first with   *)
(* one more, into the same repair; a broken image before a good one; and   *)
(* one that names no vehicle.  A poll fetches two messages.                *)
(***************************************************************************)
EXTENDS EmailIngest

CONSTANTS a, b, c, d, broken, car, folder1, folder2

MCMessages == 1..4
MCNamed == [m \in Messages |-> IF m = 4 THEN None ELSE car]
MCFolder == [m \in Messages |-> IF m \in {1, 2} THEN folder1 ELSE folder2]
MCImages == <<<<a, b>>, <<a, c>>, <<broken, d>>, <<>>>>

\* Every message has a Message-ID of its own; that of the third is also part
\* of that of the fourth; the first one has none.
OwnIds == [m \in Messages |-> {m}]
SharedIds == [m \in Messages |-> IF m = 3 THEN {3, 4} ELSE {m}]
FirstHasNoId == [m \in Messages |-> IF m = 1 THEN {} ELSE {m}]

\* Only what is needed to see a message lose an image.
TwoMessages == 1..2
TwoImages == <<<<a, b>>, <<c>>>>
==============================================================================
