--------------------------- MODULE MCVehicleRoutes ---------------------------
(***************************************************************************)
(* Two vehicles and two browser windows.  Of the four numbers, "new" and   *)
(* "NEW" are one number in two cases, the third is ".." (and taken to be   *)
(* similar to "NEW"), and the fourth is spelled like the id of vehicle 2.  *)
(* A description may be "NEW".  What is typed is a registration, a VIN,     *)
(* or both.                                                                *)
(***************************************************************************)
EXTENDS VehicleRoutes, TLC

CONSTANTS newUpper, dotDot

MCVehicles == {1, 2}
MCNumbers == {New, newUpper, dotDot, 2}
MCUpper == [n \in Numbers |-> IF n = New THEN newUpper ELSE n]
MCScore == [q \in Numbers |-> [n \in Numbers |->
             IF q = n THEN 100 ELSE IF {q, n} = {newUpper, dotDot} THEN 80 ELSE 30]]
MCTyped == {[reg |-> n, vin |-> None] : n \in Numbers}
             \union {[reg |-> None, vin |-> New], [reg |-> 2, vin |-> New]}
Windows == Permutations(Users)
==============================================================================
