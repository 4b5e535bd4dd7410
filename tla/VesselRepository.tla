-------------------------- MODULE VesselRepository --------------------------
(***************************************************************************)
(* The vessel service: capacity counters of the vessels and the record of  *)
(* the operations applied to them.                                         *)
(*                                                                         *)
(* A repository call is one Mongo transaction over both collections, so it *)
(* is one step here.  A transaction that aborts, for a conflict or for an  *)
(* error, changes nothing and the caller retries it; the callers may       *)
(* repeat any request, in any order, and the unique index on               *)
(* (reservation_id, operation) makes the repetition a no-op.               *)
(*                                                                         *)
(* The 30 day lifetime of the recorded operations is out of scope: no      *)
(* request of a reservation is repeated after that.                        *)
(***************************************************************************)
EXTENDS VesselCapacities, FiniteSetsExt

VARIABLES
    fleet,          \* the vessels created so far
    reserved,       \* reserved_weight and reserved_capacity of each vessel
    used,           \* used_weight and used_capacity of each vessel
    capacityOps     \* the capacity_operations collection

vesselVars == <<fleet, reserved, used, capacityOps>>

Operations        == {"reserve", "release", "confirm"}
CapacityOperation == [reservation : Reservations, operation : Operations, vessel : Vessels]
Balances          == [Vessels -> [Dims -> Int]]

TypeOK ==
    /\ fleet \subseteq Vessels
    /\ reserved \in Balances
    /\ used \in Balances
    /\ capacityOps \subseteq CapacityOperation

Init ==
    /\ fleet = {}
    /\ reserved = [v \in Vessels |-> [d \in Dims |-> 0]]
    /\ used = [v \in Vessels |-> [d \in Dims |-> 0]]
    /\ capacityOps = {}

-----------------------------------------------------------------------------
(* The repository operations *)

\* The vessel is stored as the request describes it.  Assumed of the requests: a
\* new vessel has an id of its own, and nothing reserved or in use.
Create(v) ==
    /\ v \notin fleet
    /\ fleet' = fleet \cup {v}
    /\ UNCHANGED <<reserved, used, capacityOps>>

\* Mutant: what is already in use is not subtracted.
Fits_ForgetsUsed(v, r) ==
    \A d \in Dims : Limit[v][d] - reserved[v][d] >= Demand[r][d]

\* The filter of ReserveCapacity's FindOneAndUpdate.
Fits(v, r) ==
    \A d \in Dims : Limit[v][d] - reserved[v][d] - used[v][d] >= Demand[r][d]

\* ReserveCapacity returns ErrNoVesselAvailable, whether or not the
\* reservation has been recorded by an earlier attempt.
NoVesselAvailable(r) == \A v \in fleet : ~ Fits(v, r)

Recorded(r, operation) ==
    \E op \in capacityOps : op.reservation = r /\ op.operation = operation

\* The insert hits the unique index: the transaction is aborted and the
\* vessel of the original call is returned.
AlreadyReserved(r) == Recorded(r, "reserve") /\ ~ NoVesselAvailable(r)

\* The vessel returned to the caller, which it names in its later requests.
VesselOf(r) == CHOOSE v \in Vessels :
    [reservation |-> r, operation |-> "reserve", vessel |-> v] \in capacityOps

Insert(r, operation, v) ==
    capacityOps' = capacityOps \cup
        {[reservation |-> r, operation |-> operation, vessel |-> v]}

Increase(balances, v, r) ==
    [balances EXCEPT ![v] = [d \in Dims |-> @[d] + Demand[r][d]]]
Decrease(balances, v, r) ==
    [balances EXCEPT ![v] = [d \in Dims |-> @[d] - Demand[r][d]]]

\* A vessel is found and the operation is new.
ReserveCapacity(r, v) ==
    /\ v \in fleet
    /\ Fits(v, r)
    /\ ~ Recorded(r, "reserve")
    /\ reserved' = Increase(reserved, v, r)
    /\ Insert(r, "reserve", v)
    /\ UNCHANGED <<fleet, used>>

\* Mutant: the unique violation is not recognised.
ReleaseCapacity_NotIdempotent(r) ==
    /\ Recorded(r, "reserve")
    /\ reserved' = Decrease(reserved, VesselOf(r), r)
    /\ Insert(r, "release", VesselOf(r))
    /\ UNCHANGED <<fleet, used>>

ReleaseCapacity(r) ==
    /\ Recorded(r, "reserve")
    /\ ~ Recorded(r, "release")
    /\ reserved' = Decrease(reserved, VesselOf(r), r)
    /\ Insert(r, "release", VesselOf(r))
    /\ UNCHANGED <<fleet, used>>

\* Mutant: the capacity is used but not taken from what is reserved.
ConfirmCapacity_KeepsReserved(r) ==
    /\ Recorded(r, "reserve")
    /\ ~ Recorded(r, "confirm")
    /\ used' = Increase(used, VesselOf(r), r)
    /\ Insert(r, "confirm", VesselOf(r))
    /\ UNCHANGED <<fleet, reserved>>

ConfirmCapacity(r) ==
    /\ Recorded(r, "reserve")
    /\ ~ Recorded(r, "confirm")
    /\ reserved' = Decrease(reserved, VesselOf(r), r)
    /\ used' = Increase(used, VesselOf(r), r)
    /\ Insert(r, "confirm", VesselOf(r))
    /\ UNCHANGED fleet

Next ==
    \/ \E v \in Vessels : Create(v)
    \/ \E r \in Reservations, v \in fleet : ReserveCapacity(r, v)
    \/ \E r \in Reservations : ReleaseCapacity(r) \/ ConfirmCapacity(r)

Spec == Init /\ [][Next]_vesselVars

-----------------------------------------------------------------------------
(* Properties *)

DemandOf(rs, d) == MapThenSumSet(LAMBDA r : Demand[r][d], rs)

\* The reservations for which an operation was recorded on vessel v.
OnVessel(v, operation) == {r \in Reservations :
    [reservation |-> r, operation |-> operation, vessel |-> v] \in capacityOps}

\* The counters are the sum of the recorded operations: none is recorded
\* without its update, applied twice, or applied to another vessel.
CountersMatchOperations ==
    \A v \in Vessels, d \in Dims :
        /\ used[v][d] = DemandOf(OnVessel(v, "confirm"), d)
        /\ reserved[v][d] = DemandOf(OnVessel(v, "reserve"), d)
                              - DemandOf(OnVessel(v, "release"), d)
                              - DemandOf(OnVessel(v, "confirm"), d)

\* What vessel v has to carry: every reservation that was not given back, and
\* every one whose capacity has been confirmed.
Booked(v) ==
    (OnVessel(v, "reserve") \ OnVessel(v, "release")) \cup OnVessel(v, "confirm")

Exclusive == \A r \in Reservations : ~ (Recorded(r, "confirm") /\ Recorded(r, "release"))

\* No vessel is overbooked as long as its callers never both confirm and
\* release a reservation: each of the two takes the demand out of
\* reserved_weight and reserved_capacity.
NeverOverbooked ==
    Exclusive => \A v \in Vessels, d \in Dims : DemandOf(Booked(v), d) <= Limit[v][d]

\* The counters never exceed the vessel's limits, whatever the callers do.
WithinLimits ==
    \A v \in Vessels, d \in Dims : reserved[v][d] + used[v][d] <= Limit[v][d]
=============================================================================
