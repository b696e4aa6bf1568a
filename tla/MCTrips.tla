-------------------------------- MODULE MCTrips --------------------------------
(***************************************************************************)
(* Small instances of Trips for TLC.                                       *)
(***************************************************************************)
EXTENDS Trips, TLC

Symmetry == Permutations(Calls) \cup Permutations(TripIds) \cup Permutations(Days)
              \cup Permutations(Drivers)
================================================================================
