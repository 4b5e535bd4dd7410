-------------------------- MODULE ReservationServer --------------------------
(***************************************************************************)
(* The gRPC handlers of the reservation service on top of VesselRepository *)
(* and the two cache keys.                                                 *)
(*                                                                         *)
(* ReserveCapacity retries its vessel call, stores the reservation and     *)
(* gives the capacity back when that fails.  Requests whose reply is lost  *)
(* may still be executed by the vessel service later.  ReleaseCapacity and *)
(* ConfirmCapacity run beside the reservation manager, which is reduced to *)
(* what ReservationManager does for one reservation when nothing fails:    *)
(* delete the data key, then make the vessel call.                         *)
(***************************************************************************)
EXTENDS VesselCapacities

CONSTANTS
    MaxRetries,     \* further attempts of a vessel or a cache call
    ServerActions,  \* the gRPC actions that clients call
    Faults,         \* which failures the environment may inject
    MaxFaults       \* bound: how many failures one behaviour may contain

ASSUME RetriesAssumption == MaxRetries \in Nat
ASSUME ActionsAssumption == ServerActions \subseteq {"release", "confirm"}
ASSUME FaultsAssumption  ==
    /\ Faults \subseteq {"vesselDown", "vesselReplyLost", "redisDown", "redisReplyLost"}
    /\ MaxFaults \in Nat

VARIABLES
    fleet, reserved, used, capacityOps,
    id,         \* the reservations whose reservation:{id} exists
    data,       \* the reservations whose reservation_data:{id} exists
    call,       \* the ReserveCapacity call of each reservation
    action,     \* the ReleaseCapacity or ConfirmCapacity call of each reservation
    manager,    \* the operation the reservation manager has to apply
    late,       \* vessel requests whose caller has stopped waiting
    lost,       \* the reservations that ever had such a request
    faults

VS == INSTANCE VesselRepository

vesselVars == <<fleet, reserved, used, capacityOps>>
cacheVars  == <<id, data>>
requests   == <<late, lost>>
vars       == <<fleet, reserved, used, capacityOps, id, data, call, action, manager,
                late, lost, faults>>

CallPcs == {"idle", "reserve", "storeID", "storeData", "release",
            "accepted", "failed", "alerted"}

TypeOK ==
    /\ VS!TypeOK
    /\ id \subseteq Reservations /\ data \subseteq Reservations
    /\ call \in [Reservations -> [pc : CallPcs, attempts : 0..MaxRetries]]
    /\ action \in [Reservations -> [pc : {"idle", "vessel", "deleteData", "deleteID", "done"},
                                    op : {"none", "release", "confirm"},
                                    attempts : 0..MaxRetries,
                                    alert : BOOLEAN]]
    /\ manager \in [Reservations -> {"none", "release", "confirm"}]
    /\ late \subseteq Reservations \X {"reserve", "release", "confirm"}
    /\ lost \subseteq Reservations
    /\ faults \in 0..MaxFaults

IdleAction == [pc |-> "idle", op |-> "none", attempts |-> 0, alert |-> FALSE]

Init ==
    /\ VS!Init
    /\ id = {} /\ data = {}
    /\ call = [r \in Reservations |-> [pc |-> "idle", attempts |-> 0]]
    /\ action = [r \in Reservations |-> IdleAction]
    /\ manager = [r \in Reservations |-> "none"]
    /\ late = {} /\ lost = {}
    /\ faults = 0

Fault(kind) == kind \in Faults /\ faults < MaxFaults /\ faults' = faults + 1
NoFault     == UNCHANGED faults

-----------------------------------------------------------------------------
(* Calls to the vessel service *)

\* A release or a confirmation; the repository does nothing the second time.
Apply(r, op) ==
    \/ op = "release" /\ VS!ReleaseCapacity(r)
    \/ op = "confirm" /\ VS!ConfirmCapacity(r)
    \/ VS!Recorded(r, op) /\ UNCHANGED vesselVars

\* An attempt that returns an error: the request did not arrive, or its reply
\* is lost and it may be executed at any later time.
AttemptFails(r, op) ==
    /\ UNCHANGED vesselVars
    /\ \/ Fault("vesselDown") /\ UNCHANGED requests
       \/ Fault("vesselReplyLost") /\ late' = late \cup {<<r, op>>} /\ lost' = lost \cup {r}

LateRequest(r, op) ==
    /\ <<r, op>> \in late
    /\ late' = late \ {<<r, op>>} /\ UNCHANGED lost
    /\ \/ op = "reserve" /\ \E v \in fleet : VS!ReserveCapacity(r, v)
       \/ op # "reserve" /\ Apply(r, op)
       \/ op = "reserve" /\ VS!AlreadyReserved(r) /\ UNCHANGED vesselVars
       \/ op = "reserve" /\ VS!NoVesselAvailable(r) /\ UNCHANGED vesselVars
    /\ UNCHANGED <<cacheVars, call, action, manager, faults>>

-----------------------------------------------------------------------------
(* ReserveCapacity *)

Goto(r, label) == call' = [call EXCEPT ![r] = [pc |-> label, attempts |-> 0]]

\* Mutant: one attempt too many.
Retry_OffByOne(r, label) ==
    IF call[r].attempts <= MaxRetries
    THEN call' = [call EXCEPT ![r].attempts = @ + 1]
    ELSE Goto(r, label)

\* Mutant: the error of the last attempt is not looked at.
Retry_ForgetsError(r, label) ==
    IF call[r].attempts < MaxRetries
    THEN call' = [call EXCEPT ![r].attempts = @ + 1]
    ELSE Goto(r, "storeID")

\* Another attempt, or the given label once all are used up.
Retry(r, label) ==
    IF call[r].attempts < MaxRetries
    THEN call' = [call EXCEPT ![r].attempts = @ + 1]
    ELSE Goto(r, label)

CreateVessel(v) ==
    /\ VS!Create(v)
    /\ UNCHANGED <<cacheVars, call, action, manager, requests, faults>>

ReserveCapacity(r) ==
    /\ call[r].pc = "idle"
    /\ Goto(r, "reserve")
    /\ UNCHANGED <<vesselVars, cacheVars, action, manager, requests, faults>>

ReserveVessel(r) ==
    /\ call[r].pc = "reserve"
    /\ \/ /\ \/ \E v \in fleet : VS!ReserveCapacity(r, v)
             \/ VS!AlreadyReserved(r) /\ UNCHANGED vesselVars
          /\ Goto(r, "storeID") /\ NoFault /\ UNCHANGED requests
       \* NotFound is permanent: no further attempt.
       \/ /\ VS!NoVesselAvailable(r) /\ UNCHANGED vesselVars
          /\ Goto(r, "failed") /\ NoFault /\ UNCHANGED requests
       \/ AttemptFails(r, "reserve") /\ Retry(r, "failed")
    /\ UNCHANGED <<cacheVars, action, manager>>

\* Mutant: a failed Store is not compensated.
StoreFailure_Returns(r) == Goto(r, "failed")

\* The capacity just reserved is given back.
StoreFailure(r) == Goto(r, "release")

StoreID(r) ==
    /\ call[r].pc = "storeID"
    /\ \/ id' = id \cup {r} /\ Goto(r, "storeData") /\ NoFault
       \/ UNCHANGED id /\ StoreFailure(r) /\ Fault("redisDown")
       \/ id' = id \cup {r} /\ StoreFailure(r) /\ Fault("redisReplyLost")
    /\ UNCHANGED <<vesselVars, data, action, manager, requests>>

StoreData(r) ==
    /\ call[r].pc = "storeData"
    /\ \/ data' = data \cup {r} /\ Goto(r, "accepted") /\ NoFault
       \/ UNCHANGED data /\ StoreFailure(r) /\ Fault("redisDown")
       \/ data' = data \cup {r} /\ StoreFailure(r) /\ Fault("redisReplyLost")
    /\ UNCHANGED <<vesselVars, id, action, manager, requests>>

Compensate(r) ==
    /\ call[r].pc = "release"
    /\ \/ Apply(r, "release") /\ Goto(r, "failed") /\ NoFault /\ UNCHANGED requests
       \/ AttemptFails(r, "release") /\ Retry(r, "alerted")
    /\ UNCHANGED <<cacheVars, action, manager>>

-----------------------------------------------------------------------------
(* ReleaseCapacity and ConfirmCapacity *)

\* A reservation that is not in the cache is answered with NotFound.
GetData(r, op) ==
    /\ op \in ServerActions
    /\ action[r].pc = "idle" /\ call[r].pc = "accepted"
    /\ r \in data
    /\ action' = [action EXCEPT ![r] = [IdleAction EXCEPT !.pc = "vessel", !.op = op]]
    /\ UNCHANGED <<vesselVars, cacheVars, call, manager, requests, faults>>

\* One attempt; an error is returned to the client, who may call again.
ActOnVessel(r) ==
    /\ action[r].pc = "vessel"
    /\ \/ /\ Apply(r, action[r].op) /\ UNCHANGED requests /\ NoFault
          /\ action' = [action EXCEPT ![r].pc = "deleteData"]
       \/ /\ AttemptFails(r, action[r].op)
          /\ action' = [action EXCEPT ![r].pc = "idle"]
    /\ UNCHANGED <<cacheVars, call, manager>>

\* ConfirmCapacity retries the deletion of the data, ReleaseCapacity does not.
DeleteAttempts(op) == IF op = "confirm" THEN MaxRetries ELSE 0

\* Mutant: the error of the deletion is not looked at.
DeleteData_IgnoresError(r) ==
    /\ action[r].pc = "deleteData"
    /\ \/ NoFault /\ data' = data \ {r}
       \/ Fault("redisDown") /\ UNCHANGED data
    /\ action' = [action EXCEPT ![r].pc = "deleteID"]
    /\ UNCHANGED <<vesselVars, id, call, manager, requests>>

\* Both go on when the deletion fails, and neither looks at whether there was
\* anything to delete.
DeleteData(r) ==
    /\ action[r].pc = "deleteData"
    /\ \/ /\ NoFault
          /\ data' = data \ {r}
          /\ action' = [action EXCEPT ![r].pc = "deleteID"]
       \/ /\ \/ Fault("redisDown") /\ UNCHANGED data
             \/ Fault("redisReplyLost") /\ data' = data \ {r}
          /\ action' = IF action[r].attempts < DeleteAttempts(action[r].op)
                       THEN [action EXCEPT ![r].attempts = @ + 1]
                       ELSE [action EXCEPT ![r].pc = "deleteID", ![r].alert = TRUE]
    /\ UNCHANGED <<vesselVars, id, call, manager, requests>>

DeleteID(r) ==
    /\ action[r].pc = "deleteID"
    /\ \/ id' = id \ {r} /\ NoFault
       \/ UNCHANGED id /\ Fault("redisDown")
    /\ action' = [action EXCEPT ![r].pc = "done"]
    /\ UNCHANGED <<vesselVars, data, call, manager, requests>>

-----------------------------------------------------------------------------
(* The reservation's lifetime and the reservation manager *)

ExpireID(r) ==
    /\ r \in id
    /\ id' = id \ {r}
    /\ UNCHANGED <<vesselVars, data, call, action, manager, requests, faults>>

\* Whoever deletes the data key goes on to the vessel: for the cleanup job's
\* event, or for a captured payment.  The event does not wait for the id to be
\* gone: a scan of the cleanup job that has passed the ids before this one was
\* stored reports it all the same, and its event may come at any time.
TakeOver(r, op) ==
    /\ r \in data
    /\ op = "confirm" => call[r].pc = "accepted"
    /\ data' = data \ {r}
    /\ manager' = [manager EXCEPT ![r] = op]
    /\ UNCHANGED <<vesselVars, id, call, action, requests, faults>>

ManagerApplies(r) ==
    /\ manager[r] # "none"
    /\ Apply(r, manager[r])
    /\ manager' = [manager EXCEPT ![r] = "none"]
    /\ UNCHANGED <<cacheVars, call, action, requests, faults>>

-----------------------------------------------------------------------------
Handler(r) ==
    \/ ReserveCapacity(r) \/ ReserveVessel(r) \/ StoreID(r) \/ StoreData(r) \/ Compensate(r)
    \/ \E op \in ServerActions : GetData(r, op)
    \/ ActOnVessel(r) \/ DeleteData(r) \/ DeleteID(r)

Manager(r) == ManagerApplies(r) \/ \E op \in {"release", "confirm"} : TakeOver(r, op)

Next ==
    \/ \E v \in Vessels : CreateVessel(v)
    \/ \E r \in Reservations : Handler(r) \/ Manager(r) \/ ExpireID(r)
    \/ \E request \in late : LateRequest(request[1], request[2])

Spec == Init /\ [][Next]_vars

-----------------------------------------------------------------------------
(* Properties *)

\* The vessel service keeps its books under these callers.
CountersMatchOperations == VS!CountersMatchOperations
NeverOverbooked         == VS!NeverOverbooked
WithinLimits            == VS!WithinLimits

Held(r) == VS!Recorded(r, "reserve") /\ ~ VS!Recorded(r, "release")

\* A ReserveCapacity that answers with an error holds no capacity, unless it
\* has raised the alert that asks for a manual release, or the reply of one of
\* its attempts was lost: the attempt that follows may find the vessel full
\* with the reservation itself, and ErrNoVesselAvailable is not compensated.
FailureIsCompensated ==
    \A r \in Reservations \ lost : call[r].pc = "failed" => ~ Held(r)

\* The capacity of an accepted reservation is held as long as its data is in
\* the cache and no gRPC action was asked for, whatever became of the
\* attempts to reserve it.
AcceptedIsHeld ==
    \A r \in data : call[r].pc = "accepted" /\ action[r] = IdleAction => Held(r)

\* The cleanup job does not take over a reservation that ConfirmCapacity has
\* confirmed and answered without an alert: the deletion of the data is
\* retried to see to that.
ConfirmedNotCleanedUp ==
    [][\A r \in Reservations :
          /\ action[r].pc = "done"
          /\ action[r].op = "confirm"
          /\ ~ action[r].alert
          /\ manager[r] # "release"
          => manager'[r] # "release"]_vars
=============================================================================
