-------------------------- MODULE VesselCapacities --------------------------
(***************************************************************************)
(* The quantities the vessel service accounts for: what a vessel can carry *)
(* and what a reservation asks for, in weight and in containers.           *)
(***************************************************************************)
EXTENDS Integers

CONSTANTS
    Vessels,        \* the vessels that may be created
    Reservations,   \* reservation ids, chosen by the reservation service
    Limit,          \* Limit[v] is max_weight and capacity of vessel v
    Demand          \* Demand[r] is weight and number_of_containers of reservation r

Dims       == {"weight", "containers"}
Quantities == [Dims -> Nat]

ASSUME LimitAssumption  == Limit \in [Vessels -> Quantities]
ASSUME DemandAssumption == Demand \in [Reservations -> Quantities]
=============================================================================
