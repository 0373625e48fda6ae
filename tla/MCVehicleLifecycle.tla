-------------------------- MODULE MCVehicleLifecycle --------------------------
(***************************************************************************)
(* Small instances of VehicleLifecycle.  Two vehicles are enough for every *)
(* conflict between a pair of records; the three numbers give vehicles     *)
(* with one number, with the other, and with both.                         *)
(***************************************************************************)
EXTENDS VehicleLifecycle

CONSTANTS r1, r2, x1

Id(reg, vin) == [f \in Fields |-> IF f = "reg" THEN reg ELSE vin]

MCVehicles == {1, 2}

\* Two vehicles after one number, one of which can give it up again.
ContestedChoices ==
  [v \in Vehicles |-> IF v = 1 THEN {Id(r1, None), Id(r2, None)} ELSE {Id(r1, None)}]

\* Vehicles with one number, with the other, and with both.
SharedChoices ==
  [v \in Vehicles |-> IF v = 1 THEN {Id(r1, None), Id(None, x1)} ELSE {Id(r1, x1), Id(None, x1)}]
==============================================================================
