------------------------- MODULE MCVehicleAuthority -------------------------
(* Instances of VehicleAuthority for TLC. *)
EXTENDS VehicleAuthority, TLC

CONSTANTS ana, ben, wheel, side

\* NextOccupant lists the front passenger's seat; the wheel is not in its list.
MCRank == (side :> 1) @@ (wheel :> 2)

Symmetry == Permutations(People) \cup Permutations(Cars)
=============================================================================
