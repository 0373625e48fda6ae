---------------------------- MODULE MCIndexStartup ----------------------------
(***************************************************************************)
(* A vehicle with one repair and one image of it, and two flush threads.   *)
(***************************************************************************)
EXTENDS IndexStartup

CONSTANTS v, r, i, f, g

MCTable == [x \in Items |-> CASE x = v -> "vehicles" [] x = r -> "repairs" [] x = i -> "images"]
MCParent == [x \in Items |-> CASE x = v -> None [] x = r -> v [] x = i -> r]
MCStored == {Items}

\* Once files have changed, the run does not follow two processes that open the
\* index together, which every property leaves out; nor flushes at one item or
\* overtaken requests beside a reindex, which two properties leave out and the
\* schema has nothing to do with; nor a second change of files and a crash.
Bound ==
  \/ clock = 1
  \/ /\ OneOpens
     /\ Apart \/ (OneEach /\ Timely)
     /\ crashes = 0 \/ clock = 2
==============================================================================
