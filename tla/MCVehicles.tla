----------------------------- MODULE MCVehicles -----------------------------
(* A user with two vehicles, and one whose vehicle has a VIN of the wrong form. *)
EXTENDS Vehicles, TLC

CONSTANTS anna, ben, car1, car2, car3

MCListed == anna :> <<car1, car2>> @@ ben :> <<car3>>
Symmetry == Permutations(Requests)
=============================================================================
