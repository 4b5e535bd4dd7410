----------------------- MODULE ReservationServerProofs -----------------------
(***************************************************************************)
(* The reservation service keeps the vessel service's rules, whatever its  *)
(* handlers, its retries and the requests it has given up on do: every     *)
(* step is a transaction of VesselRepository or none at all, so what is    *)
(* proved of the repository holds here.  What the answers promise rests on *)
(* CallInv: what the state of a call says of the vessel's record, of the   *)
(* cache and of the requests left behind.                                  *)
(***************************************************************************)
EXTENDS ReservationServer, TLAPS

Books == INSTANCE VesselRepositoryProofs

\* A request left behind by a handler names a reservation.
LateRequests == \A request \in late : request[1] \in Reservations

LEMMA LateRequestsAreKnown == Spec => []LateRequests
<1>1. Init => LateRequests
  BY DEF Init, LateRequests
<1>2. LateRequests /\ [Next]_vars => LateRequests'
  <2> SUFFICES ASSUME LateRequests, [Next]_vars PROVE LateRequests'
    OBVIOUS
  <2>1. ASSUME NEW r \in Reservations, NEW op, AttemptFails(r, op) PROVE LateRequests'
    BY <2>1 DEF AttemptFails, LateRequests, requests
  <2>2. ASSUME NEW r \in Reservations, Handler(r) PROVE LateRequests'
    <3>1. CASE ReserveVessel(r) \/ Compensate(r) \/ ActOnVessel(r)
      BY <2>1, <3>1 DEF ReserveVessel, Compensate, ActOnVessel, requests, LateRequests
    <3>2. CASE ReserveCapacity(r) \/ StoreID(r) \/ StoreData(r) \/ DeleteData(r)
               \/ DeleteID(r) \/ \E op \in ServerActions : GetData(r, op)
      BY <3>2 DEF ReserveCapacity, StoreID, StoreData, DeleteData, DeleteID, GetData,
                  requests, LateRequests
    <3> QED
      BY <2>2, <3>1, <3>2 DEF Handler
  <2>3. ASSUME NEW r \in Reservations, Manager(r) \/ ExpireID(r) PROVE LateRequests'
    BY <2>3 DEF Manager, ManagerApplies, TakeOver, ExpireID, requests, LateRequests
  <2>4. ASSUME NEW v \in Vessels, CreateVessel(v) PROVE LateRequests'
    BY <2>4 DEF CreateVessel, requests, LateRequests
  <2>5. ASSUME NEW request \in late, LateRequest(request[1], request[2]) PROVE LateRequests'
    BY <2>5 DEF LateRequest, LateRequests
  <2>6. CASE UNCHANGED vars
    BY <2>6 DEF vars, LateRequests
  <2> QED
    BY <2>2, <2>3, <2>4, <2>5, <2>6 DEF Next
<1> QED
  BY <1>1, <1>2, PTL DEF Spec

\* The handlers of the service, the manager beside them and the requests that
\* arrive late implement the vessel repository: a release or a confirmation
\* that was applied before changes nothing, and no handler touches the books
\* in any other way.
THEOREM ImplementsRepository == Spec => VS!Spec
<1>1. Init => VS!Init
  BY DEF Init
<1>2. LateRequests /\ [Next]_vars => [VS!Next]_VS!vesselVars
  <2> SUFFICES ASSUME LateRequests, [Next]_vars PROVE [VS!Next]_VS!vesselVars
    OBVIOUS
  <2>1. ASSUME NEW r \in Reservations, NEW op, Apply(r, op) PROVE [VS!Next]_vesselVars
    BY <2>1 DEF Apply, VS!Next
  <2>2. ASSUME NEW r \in Reservations, NEW op, AttemptFails(r, op) PROVE [VS!Next]_vesselVars
    BY <2>2 DEF AttemptFails
  <2>3. ASSUME NEW r \in Reservations, NEW v \in fleet, VS!ReserveCapacity(r, v)
        PROVE  [VS!Next]_vesselVars
    BY <2>3 DEF VS!Next
  <2>4. ASSUME NEW r \in Reservations, Handler(r) PROVE [VS!Next]_vesselVars
    <3>1. CASE ReserveVessel(r)
      BY <2>2, <2>3, <3>1 DEF ReserveVessel
    <3>2. CASE Compensate(r) \/ ActOnVessel(r)
      BY <2>1, <2>2, <3>2 DEF Compensate, ActOnVessel
    <3>3. CASE ReserveCapacity(r) \/ StoreID(r) \/ StoreData(r) \/ DeleteData(r)
               \/ DeleteID(r) \/ \E op \in ServerActions : GetData(r, op)
      BY <3>3 DEF ReserveCapacity, StoreID, StoreData, DeleteData, DeleteID, GetData
    <3> QED
      BY <2>4, <3>1, <3>2, <3>3 DEF Handler
  <2>5. ASSUME NEW r \in Reservations, Manager(r) \/ ExpireID(r) PROVE [VS!Next]_vesselVars
    BY <2>1, <2>5 DEF Manager, ManagerApplies, TakeOver, ExpireID
  <2>6. ASSUME NEW v \in Vessels, CreateVessel(v) PROVE [VS!Next]_vesselVars
    BY <2>6 DEF CreateVessel, VS!Next
  <2>7. ASSUME NEW request \in late, LateRequest(request[1], request[2])
        PROVE  [VS!Next]_vesselVars
    <3>1. request[1] \in Reservations
      BY DEF LateRequests
    <3> QED
      BY <2>1, <2>3, <2>7, <3>1 DEF LateRequest
  <2>8. ASSUME UNCHANGED vars PROVE [VS!Next]_vesselVars
    BY <2>8 DEF vars, vesselVars
  <2>9. [VS!Next]_vesselVars
    BY <2>4, <2>5, <2>6, <2>7, <2>8 DEF Next
  <2> QED
    BY <2>9 DEF vesselVars, VS!vesselVars
<1> QED
  BY <1>1, <1>2, LateRequestsAreKnown, PTL DEF Spec, VS!Spec

\* The repository that the proofs of VesselRepositoryProofs are about is the
\* one the handlers call.
LEMMA SameBooks == VS!Spec => Books!Spec
<1>1. VS!Init <=> Books!Init
  BY DEF VS!Init, Books!Init, VS!Dims, Books!Dims
<1>2. [VS!Next]_VS!vesselVars <=> [Books!Next]_Books!vesselVars
  <2>1. \A v \in Vessels : VS!Create(v) <=> Books!Create(v)
    BY DEF VS!Create, Books!Create
  <2>2. \A r \in Reservations, v \in fleet :
            VS!ReserveCapacity(r, v) <=> Books!ReserveCapacity(r, v)
    BY DEF VS!ReserveCapacity, VS!Fits, VS!Recorded, VS!Increase, VS!Insert, VS!Dims,
           Books!ReserveCapacity, Books!Fits, Books!Recorded, Books!Increase,
           Books!Insert, Books!Dims
  <2>3. \A r \in Reservations : VS!ReleaseCapacity(r) <=> Books!ReleaseCapacity(r)
    BY DEF VS!ReleaseCapacity, VS!Recorded, VS!VesselOf, VS!Decrease, VS!Insert, VS!Dims,
           Books!ReleaseCapacity, Books!Recorded, Books!VesselOf, Books!Decrease,
           Books!Insert, Books!Dims
  <2>4. \A r \in Reservations : VS!ConfirmCapacity(r) <=> Books!ConfirmCapacity(r)
    BY DEF VS!ConfirmCapacity, VS!Recorded, VS!VesselOf, VS!Increase, VS!Decrease,
           VS!Insert, VS!Dims, Books!ConfirmCapacity, Books!Recorded, Books!VesselOf,
           Books!Increase, Books!Decrease, Books!Insert, Books!Dims
  <2> QED
    BY <2>1, <2>2, <2>3, <2>4 DEF VS!Next, Books!Next, VS!vesselVars, Books!vesselVars
<1> QED
  BY <1>1, <1>2, PTL DEF VS!Spec, Books!Spec

LEMMA QuantitiesOfBooks ==
    /\ Limit \in [Vessels -> Books!Quantities]
    /\ Demand \in [Reservations -> Books!Quantities]
BY LimitAssumption, DemandAssumption DEF Quantities, Dims, Books!Quantities, Books!Dims

\* The counters of a vessel stay within its limits under the reservation
\* service: the repository's own bound, carried over.
THEOREM ServiceWithinLimits == Spec => []WithinLimits
<1>1. Books!Spec => []Books!WithinLimits
  BY QuantitiesOfBooks, Books!BooksWithinLimits
<1>2. WithinLimits <=> Books!WithinLimits
  BY DEF WithinLimits, VS!WithinLimits, Books!WithinLimits, VS!Dims, Books!Dims
<1> QED
  BY <1>1, <1>2, SameBooks, ImplementsRepository, PTL

\* The counters stay what the recorded operations add up to, however often the
\* handlers retry and however late an abandoned request arrives.
THEOREM ServiceMatchesOperations == Spec => []CountersMatchOperations
<1>1. Books!Spec => []Books!CountersMatchOperations
  BY QuantitiesOfBooks, Books!BooksMatchOperations
<1>2. \A rs, d : VS!DemandOf(rs, d) = Books!DemandOf(rs, d)
  BY DEF VS!DemandOf, Books!DemandOf, VS!MapThenSumSet, Books!MapThenSumSet,
         VS!MapThenFoldSet, Books!MapThenFoldSet
<1>3. CountersMatchOperations <=> Books!CountersMatchOperations
  BY <1>2 DEF CountersMatchOperations, VS!CountersMatchOperations, VS!OnVessel, VS!Dims,
              Books!CountersMatchOperations, Books!OnVessel, Books!Dims
<1> QED
  BY <1>1, <1>3, SameBooks, ImplementsRepository, PTL

\* No vessel carries more than its limits as long as no reservation is both
\* confirmed and released, whatever the reservation service does.
THEOREM ServiceNeverOverbooked == Spec => []NeverOverbooked
<1>1. Books!Spec => []Books!NeverOverbooked
  BY QuantitiesOfBooks, Books!BooksNeverOverbooked
<1>2. \A rs, d : VS!DemandOf(rs, d) = Books!DemandOf(rs, d)
  BY DEF VS!DemandOf, Books!DemandOf, VS!MapThenSumSet, Books!MapThenSumSet,
         VS!MapThenFoldSet, Books!MapThenFoldSet
<1>3. \A v : VS!Booked(v) = Books!Booked(v)
  BY DEF VS!Booked, Books!Booked, VS!OnVessel, Books!OnVessel
<1>4. VS!Exclusive <=> Books!Exclusive
  BY DEF VS!Exclusive, Books!Exclusive, VS!Recorded, Books!Recorded
<1>5. NeverOverbooked <=> Books!NeverOverbooked
  BY <1>2, <1>3, <1>4 DEF NeverOverbooked, VS!NeverOverbooked, VS!Dims,
                          Books!NeverOverbooked, Books!Dims
<1> QED
  BY <1>1, <1>5, SameBooks, ImplementsRepository, PTL

-----------------------------------------------------------------------------
(* The types *)

Actions == [pc : {"idle", "vessel", "deleteData", "deleteID", "done"},
            op : {"none", "release", "confirm"}, attempts : 0..MaxRetries, alert : BOOLEAN]

\* The reservations the cache and the handlers know; a gRPC action that has
\* begun names its operation.
HandlersTyped ==
    /\ id \subseteq Reservations /\ data \subseteq Reservations
    /\ call \in [Reservations -> [pc : CallPcs, attempts : 0..MaxRetries]]
    /\ action \in [Reservations -> Actions]
    /\ \A r \in Reservations : action[r].op = "none" => action[r] = IdleAction
    /\ manager \in [Reservations -> {"none", "release", "confirm"}]
    /\ late \subseteq Reservations \X {"reserve", "release", "confirm"}
    /\ lost \subseteq Reservations
    /\ faults \in 0..MaxFaults

LEMMA FaultsCounted ==
    ASSUME faults \in 0..MaxFaults
    PROVE  /\ \A kind : Fault(kind) => faults' \in 0..MaxFaults
           /\ NoFault => faults' \in 0..MaxFaults
BY FaultsAssumption DEF Fault, NoFault

LEMMA GotoTyped ==
    ASSUME HandlersTyped, NEW r \in Reservations, NEW label \in CallPcs
    PROVE  Goto(r, label) \/ Retry(r, label)
             => call' \in [Reservations -> [pc : CallPcs, attempts : 0..MaxRetries]]
<1>1. Goto(r, label)
        => call' \in [Reservations -> [pc : CallPcs, attempts : 0..MaxRetries]]
  BY RetriesAssumption DEF Goto, HandlersTyped
<1>2. ASSUME call[r].attempts < MaxRetries, call' = [call EXCEPT ![r].attempts = @ + 1]
      PROVE  call' \in [Reservations -> [pc : CallPcs, attempts : 0..MaxRetries]]
  BY <1>2, RetriesAssumption DEF HandlersTyped
<1> QED
  BY <1>1, <1>2 DEF Retry

LEMMA AttemptTyped ==
    ASSUME HandlersTyped, NEW r \in Reservations, NEW op \in {"reserve", "release", "confirm"},
           AttemptFails(r, op)
    PROVE  /\ late' \subseteq Reservations \X {"reserve", "release", "confirm"}
           /\ lost' \subseteq Reservations
           /\ faults' \in 0..MaxFaults
BY FaultsCounted DEF AttemptFails, HandlersTyped, requests

LEMMA HandlersTypedStep == HandlersTyped /\ [Next]_vars => HandlersTyped'
<1> SUFFICES ASSUME HandlersTyped, [Next]_vars PROVE HandlersTyped'
  OBVIOUS
<1>1. ASSUME NEW r \in Reservations, ReserveCapacity(r) PROVE HandlersTyped'
  <2>1. call' \in [Reservations -> [pc : CallPcs, attempts : 0..MaxRetries]]
    BY <1>1, GotoTyped DEF ReserveCapacity, CallPcs
  <2> QED
    BY <1>1, <2>1 DEF ReserveCapacity, HandlersTyped, cacheVars, requests
<1>2. ASSUME NEW r \in Reservations, ReserveVessel(r) PROVE HandlersTyped'
  <2>1. call' \in [Reservations -> [pc : CallPcs, attempts : 0..MaxRetries]]
    BY <1>2, GotoTyped DEF ReserveVessel, CallPcs
  <2>2. /\ late' \subseteq Reservations \X {"reserve", "release", "confirm"}
        /\ lost' \subseteq Reservations
        /\ faults' \in 0..MaxFaults
    BY <1>2, AttemptTyped, FaultsCounted DEF ReserveVessel, HandlersTyped, requests
  <2> QED
    BY <1>2, <2>1, <2>2 DEF ReserveVessel, HandlersTyped, cacheVars
<1>3. ASSUME NEW r \in Reservations, StoreID(r) \/ StoreData(r) PROVE HandlersTyped'
  <2>1. call' \in [Reservations -> [pc : CallPcs, attempts : 0..MaxRetries]]
    BY <1>3, GotoTyped DEF StoreID, StoreData, StoreFailure, CallPcs
  <2>2. faults' \in 0..MaxFaults
    BY <1>3, FaultsCounted DEF StoreID, StoreData, HandlersTyped
  <2> QED
    BY <1>3, <2>1, <2>2 DEF StoreID, StoreData, HandlersTyped, requests
<1>4. ASSUME NEW r \in Reservations, Compensate(r) PROVE HandlersTyped'
  <2>1. call' \in [Reservations -> [pc : CallPcs, attempts : 0..MaxRetries]]
    BY <1>4, GotoTyped DEF Compensate, CallPcs
  <2>2. /\ late' \subseteq Reservations \X {"reserve", "release", "confirm"}
        /\ lost' \subseteq Reservations
        /\ faults' \in 0..MaxFaults
    BY <1>4, AttemptTyped, FaultsCounted DEF Compensate, HandlersTyped, requests
  <2> QED
    BY <1>4, <2>1, <2>2 DEF Compensate, HandlersTyped, cacheVars
<1>5. ASSUME NEW r \in Reservations, NEW op \in ServerActions, GetData(r, op)
      PROVE  HandlersTyped'
  <2>1. op \in {"release", "confirm"}
    BY ActionsAssumption
  <2>2. PICK a : a = [IdleAction EXCEPT !.pc = "vessel", !.op = op]
    OBVIOUS
  <2>3. a \in Actions /\ a.op # "none"
    <3>1. a = [pc |-> "vessel", op |-> op, attempts |-> 0, alert |-> FALSE]
      BY <2>2 DEF IdleAction
    <3> QED
      BY <2>1, <3>1, RetriesAssumption DEF Actions
  <2>4. action' = [action EXCEPT ![r] = a]
    BY <1>5, <2>2 DEF GetData
  <2>5. action' \in [Reservations -> Actions]
    BY <2>3, <2>4 DEF HandlersTyped
  <2>6. \A s \in Reservations : action'[s].op = "none" => action'[s] = IdleAction
    BY <2>3, <2>4 DEF HandlersTyped
  <2> QED
    BY <1>5, <2>5, <2>6 DEF GetData, HandlersTyped, cacheVars, requests
<1>6. ASSUME NEW r \in Reservations, ActOnVessel(r) PROVE HandlersTyped'
  <2>1. action' = [action EXCEPT ![r].pc = "deleteData"] \/ action' = [action EXCEPT ![r].pc = "idle"]
    BY <1>6 DEF ActOnVessel
  <2>2. /\ action[r] \in Actions /\ action[r].op # "none"
        /\ action[r].op \in {"reserve", "release", "confirm"}
    BY <1>6 DEF HandlersTyped, ActOnVessel, IdleAction, Actions
  <2>3. action' \in [Reservations -> Actions]
    BY <2>1 DEF HandlersTyped, Actions
  <2>4. \A s \in Reservations : action'[s].op = "none" => action'[s] = IdleAction
    BY <2>1, <2>2 DEF HandlersTyped, Actions
  <2>5. /\ late' \subseteq Reservations \X {"reserve", "release", "confirm"}
        /\ lost' \subseteq Reservations
        /\ faults' \in 0..MaxFaults
    BY <1>6, <2>2, AttemptTyped, FaultsCounted DEF ActOnVessel, HandlersTyped, requests
  <2> QED
    BY <1>6, <2>3, <2>4, <2>5 DEF ActOnVessel, HandlersTyped, cacheVars
<1>7. ASSUME NEW r \in Reservations, DeleteData(r) PROVE HandlersTyped'
  <2>1. action[r] \in Actions /\ action[r].op # "none"
    BY <1>7 DEF HandlersTyped, DeleteData, IdleAction, Actions
  <2>2. \/ action' = [action EXCEPT ![r].pc = "deleteID"]
        \/ action[r].attempts < MaxRetries /\ action' = [action EXCEPT ![r].attempts = @ + 1]
        \/ action' = [action EXCEPT ![r].pc = "deleteID", ![r].alert = TRUE]
    BY <1>7, <2>1, RetriesAssumption DEF DeleteData, DeleteAttempts, Actions
  <2>3. action' \in [Reservations -> Actions]
    BY <2>1, <2>2, RetriesAssumption DEF HandlersTyped, Actions
  <2>4. \A s \in Reservations : action'[s].op = "none" => action'[s] = IdleAction
    BY <2>1, <2>2 DEF HandlersTyped, Actions
  <2>5. faults' \in 0..MaxFaults
    BY <1>7, FaultsCounted DEF DeleteData, HandlersTyped
  <2> QED
    BY <1>7, <2>3, <2>4, <2>5 DEF DeleteData, HandlersTyped, requests
<1>8. ASSUME NEW r \in Reservations, DeleteID(r) PROVE HandlersTyped'
  <2>1. action[r] \in Actions /\ action[r].op # "none"
    BY <1>8 DEF HandlersTyped, DeleteID, IdleAction, Actions
  <2>2. action' = [action EXCEPT ![r].pc = "done"]
    BY <1>8 DEF DeleteID
  <2>3. action' \in [Reservations -> Actions]
    BY <2>1, <2>2 DEF HandlersTyped, Actions
  <2>4. \A s \in Reservations : action'[s].op = "none" => action'[s] = IdleAction
    BY <2>1, <2>2 DEF HandlersTyped, Actions
  <2>5. faults' \in 0..MaxFaults
    BY <1>8, FaultsCounted DEF DeleteID, HandlersTyped
  <2> QED
    BY <1>8, <2>3, <2>4, <2>5 DEF DeleteID, HandlersTyped, requests
<1>9. ASSUME NEW r \in Reservations, Manager(r) \/ ExpireID(r) PROVE HandlersTyped'
  BY <1>9 DEF Manager, ManagerApplies, TakeOver, ExpireID, HandlersTyped, cacheVars, requests
<1>10. ASSUME NEW r, NEW op, LateRequest(r, op) PROVE HandlersTyped'
  BY <1>10 DEF LateRequest, HandlersTyped, cacheVars
<1>11. ASSUME NEW v \in Vessels, CreateVessel(v) PROVE HandlersTyped'
  BY <1>11 DEF CreateVessel, HandlersTyped, cacheVars, requests
<1>12. CASE UNCHANGED vars
  BY <1>12 DEF vars, HandlersTyped
<1> QED
  BY <1>1, <1>2, <1>3, <1>4, <1>5, <1>6, <1>7, <1>8, <1>9, <1>10, <1>11, <1>12
  DEF Next, Handler

\* Every variable of the reservation service has its type.
THEOREM ServiceTyped == Spec => [](TypeOK /\ HandlersTyped)
<1>1. Init => HandlersTyped
  BY RetriesAssumption, FaultsAssumption DEF Init, HandlersTyped, IdleAction, CallPcs, Actions
<1>2. Spec => []HandlersTyped
  BY <1>1, HandlersTypedStep, PTL DEF Spec
<1>3. Books!Spec => []Books!TypeOK
  BY QuantitiesOfBooks, Books!BooksTyped
<1>4. Books!TypeOK /\ HandlersTyped => TypeOK
  BY DEF Books!TypeOK, Books!Balances, Books!Dims, Books!CapacityOperation, Books!Operations,
         VS!TypeOK, VS!Balances, VS!Dims, VS!CapacityOperation, VS!Operations,
         HandlersTyped, Actions, TypeOK
<1> QED
  BY <1>2, <1>3, <1>4, SameBooks, ImplementsRepository, PTL

-----------------------------------------------------------------------------
(* The calls *)

\* What the state of one reservation's call says of the vessel service's
\* record, of the cache and of the requests left behind:
\* past the vessel call the reservation is recorded;
BookedAt(r) ==
    call[r].pc \in {"storeID", "storeData", "release", "accepted", "alerted"}
        => VS!Recorded(r, "reserve")

\* its data is stored by the last step of the call, and taken by the manager;
StoredAt(r) ==
    /\ r \in data \/ manager[r] # "none"
          => call[r].pc \in {"release", "accepted", "failed", "alerted"}
    /\ manager[r] # "none" => r \notin data

\* a gRPC action works on an accepted reservation, and once it went past the
\* deletion of the data without an alert the data is gone;
ActionAt(r) ==
    /\ action[r] # IdleAction => call[r].pc = "accepted"
    /\ action[r].pc \in {"deleteID", "done"} /\ ~ action[r].alert => r \notin data

\* the capacity is given back by the compensation, by a gRPC action, or by the
\* manager, who took the data for it;
ReleasedAt(r) ==
    VS!Recorded(r, "release") \/ <<r, "release">> \in late =>
        \/ call[r].pc \in {"release", "failed", "alerted"}
        \/ call[r].pc = "accepted" /\ (r \notin data \/ action[r] # IdleAction)

\* and nothing is recorded behind the call's back unless a reply was lost.
KnownAt(r) ==
    /\ \A op \in VS!Operations : <<r, op>> \in late => r \in lost
    /\ r \notin lost /\ call[r].pc \in {"idle", "reserve"} => ~ VS!Recorded(r, "reserve")
    /\ r \notin lost /\ call[r].pc = "failed" => ~ Held(r)

CallAt(r) == BookedAt(r) /\ StoredAt(r) /\ ActionAt(r) /\ ReleasedAt(r) /\ KnownAt(r)

CallInv == \A r \in Reservations : CallAt(r)

\* What a vessel call does to the record.
LEMMA InsertRecords ==
    ASSUME NEW r, NEW op, NEW v, VS!Insert(r, op, v), NEW s, NEW other
    PROVE  VS!Recorded(s, other)' <=> VS!Recorded(s, other) \/ (s = r /\ other = op)
<1> DEFINE new == [reservation |-> r, operation |-> op, vessel |-> v]
<1>1. new.reservation = r /\ new.operation = op
  OBVIOUS
<1>2. capacityOps' = capacityOps \cup {new}
  BY DEF VS!Insert
<1> HIDE DEF new
<1> QED
  BY <1>1, <1>2 DEF VS!Recorded

LEMMA ApplyRecords ==
    ASSUME NEW r, NEW op, Apply(r, op), NEW s, NEW other
    PROVE  VS!Recorded(s, other)' <=> VS!Recorded(s, other) \/ (s = r /\ other = op)
<1>1. CASE UNCHANGED vesselVars /\ VS!Recorded(r, op)
  BY <1>1 DEF vesselVars, VS!Recorded
<1>2. CASE \E v : VS!Insert(r, op, v)
  BY <1>2, InsertRecords
<1> QED
  BY <1>1, <1>2 DEF Apply, VS!ReleaseCapacity, VS!ConfirmCapacity

LEMMA ReserveRecords ==
    ASSUME NEW r, NEW v, VS!ReserveCapacity(r, v), NEW s, NEW other
    PROVE  VS!Recorded(s, other)' <=> VS!Recorded(s, other) \/ (s = r /\ other = "reserve")
BY InsertRecords DEF VS!ReserveCapacity

LEMMA NothingRecorded ==
    ASSUME UNCHANGED vesselVars, NEW s, NEW other
    PROVE  VS!Recorded(s, other)' <=> VS!Recorded(s, other)
BY DEF vesselVars, VS!Recorded

\* A step that is not about a reservation keeps what is known of it.
LEMMA CallFrame ==
    ASSUME CallInv, NEW r \in Reservations,
           call'[r] = call[r], action'[r] = action[r], manager'[r] = manager[r],
           r \in data' <=> r \in data,
           r \in lost => r \in lost',
           \A op : <<r, op>> \in late' => <<r, op>> \in late,
           \A op : VS!Recorded(r, op)' <=> VS!Recorded(r, op)
    PROVE  CallAt(r)'
BY DEF CallInv, CallAt, BookedAt, StoredAt, ActionAt, ReleasedAt, KnownAt, Held

LEMMA CallInvStep == HandlersTyped /\ CallInv /\ [Next]_vars => CallInv'
<1> SUFFICES ASSUME HandlersTyped, CallInv, [Next]_vars PROVE CallInv'
  OBVIOUS
<1> USE DEF VS!Operations
<1>1. ASSUME NEW r \in Reservations, ReserveCapacity(r), NEW s \in Reservations PROVE CallAt(s)'
  <2>1. /\ call' = [call EXCEPT ![r] = [pc |-> "reserve", attempts |-> 0]] /\ call[r].pc = "idle"
        /\ UNCHANGED <<action, manager, data, late, lost>> /\ UNCHANGED vesselVars
    BY <1>1 DEF ReserveCapacity, Goto, cacheVars, requests
  <2>2. \A op : VS!Recorded(s, op)' <=> VS!Recorded(s, op)
    BY <2>1, NothingRecorded
  <2>3. CASE s # r
    BY <2>1, <2>2, <2>3, CallFrame DEF HandlersTyped
  <2>4. CASE s = r
    BY <2>1, <2>2, <2>4
    DEF HandlersTyped, CallInv, CallAt, BookedAt, StoredAt, ActionAt, ReleasedAt, KnownAt, Held
  <2> QED
    BY <2>3, <2>4
<1>2. ASSUME NEW r \in Reservations, ReserveVessel(r), NEW s \in Reservations PROVE CallAt(s)'
  <2>1. UNCHANGED <<action, manager, data>> /\ call[r].pc = "reserve"
    BY <1>2 DEF ReserveVessel, cacheVars
  <2>2. CASE /\ \A op : VS!Recorded(s, op)' <=> VS!Recorded(s, op) \/ (s = r /\ op = "reserve")
             /\ Goto(r, "storeID") /\ UNCHANGED <<late, lost>>
    <3>1. call' = [call EXCEPT ![r] = [pc |-> "storeID", attempts |-> 0]]
      BY <2>2 DEF Goto
    <3>2. CASE s # r
      BY <2>1, <2>2, <3>1, <3>2, CallFrame DEF HandlersTyped
    <3>3. CASE s = r
      BY <2>1, <2>2, <3>1, <3>3
      DEF HandlersTyped, CallInv, CallAt, BookedAt, StoredAt, ActionAt, ReleasedAt, KnownAt, Held
    <3> QED
      BY <3>2, <3>3
  <2>3. CASE VS!NoVesselAvailable(r) /\ UNCHANGED vesselVars /\ Goto(r, "failed")
             /\ UNCHANGED <<late, lost>>
    <3>1. call' = [call EXCEPT ![r] = [pc |-> "failed", attempts |-> 0]]
      BY <2>3 DEF Goto
    <3>2. \A op : VS!Recorded(s, op)' <=> VS!Recorded(s, op)
      BY <2>3, NothingRecorded
    <3>3. CASE s # r
      BY <2>1, <2>3, <3>1, <3>2, <3>3, CallFrame DEF HandlersTyped
    <3>4. CASE s = r
      BY <2>1, <2>3, <3>1, <3>2, <3>4
      DEF HandlersTyped, CallInv, CallAt, BookedAt, StoredAt, ActionAt, ReleasedAt, KnownAt, Held
    <3> QED
      BY <3>3, <3>4
  <2>4. CASE AttemptFails(r, "reserve") /\ Retry(r, "failed")
    <3>1. \/ UNCHANGED <<late, lost>>
          \/ late' = late \cup {<<r, "reserve">>} /\ lost' = lost \cup {r}
      BY <2>4 DEF AttemptFails, requests
    <3>2. \A op : VS!Recorded(s, op)' <=> VS!Recorded(s, op)
      BY <2>4, NothingRecorded DEF AttemptFails
    <3>3. \A t \in Reservations : t # r => call'[t] = call[t]
      BY <2>4 DEF Retry, Goto, HandlersTyped
    <3>4. call'[r].pc \in {"reserve", "failed"}
      BY <2>1, <2>4 DEF Retry, Goto, HandlersTyped
    <3>5. CASE s # r
      <4>1. \A op : <<s, op>> \in late' => <<s, op>> \in late
        BY <3>1, <3>5
      <4>2. s \in lost => s \in lost'
        BY <3>1
      <4> QED
        BY <2>1, <3>2, <3>3, <3>5, <4>1, <4>2, CallFrame
    <3>6. CASE s = r
      BY <2>1, <3>1, <3>2, <3>4, <3>6
      DEF HandlersTyped, CallInv, CallAt, BookedAt, StoredAt, ActionAt, ReleasedAt, KnownAt, Held
    <3> QED
      BY <3>5, <3>6
  <2>5. ASSUME NEW v \in fleet, VS!ReserveCapacity(r, v)
        PROVE  \A op : VS!Recorded(s, op)' <=> VS!Recorded(s, op) \/ (s = r /\ op = "reserve")
    BY <2>5, ReserveRecords
  <2>6. ASSUME VS!AlreadyReserved(r), UNCHANGED vesselVars
        PROVE  \A op : VS!Recorded(s, op)' <=> VS!Recorded(s, op) \/ (s = r /\ op = "reserve")
    BY <2>6, NothingRecorded DEF VS!AlreadyReserved
  <2> QED
    BY <1>2, <2>2, <2>3, <2>4, <2>5, <2>6 DEF ReserveVessel, requests
<1>3. ASSUME NEW r \in Reservations, StoreID(r) \/ StoreData(r), NEW s \in Reservations
      PROVE  CallAt(s)'
  <2>1. /\ UNCHANGED <<action, manager, late, lost>> /\ UNCHANGED vesselVars
        /\ call[r].pc \in {"storeID", "storeData"}
        /\ data' = data \/ (data' = data \cup {r} /\ call'[r].pc \in {"accepted", "release"})
        /\ call'[r].pc \in {"storeData", "accepted", "release"}
        /\ call'[r].pc = "storeData" => call[r].pc = "storeID"
        /\ \A t \in Reservations : t # r => call'[t] = call[t]
    BY <1>3 DEF StoreID, StoreData, StoreFailure, requests, Goto, HandlersTyped
  <2>2. \A op : VS!Recorded(s, op)' <=> VS!Recorded(s, op)
    BY <2>1, NothingRecorded
  <2>3. CASE s # r
    BY <2>1, <2>2, <2>3, CallFrame
  <2>4. CASE s = r
    <3>1. /\ CallAt(r) /\ r \notin data /\ manager[r] = "none"
          /\ VS!Recorded(r, "reserve") /\ ~ VS!Recorded(r, "release")
          /\ <<r, "release">> \notin late /\ action[r] = IdleAction
      BY <2>1 DEF CallInv, CallAt, BookedAt, StoredAt, ActionAt, ReleasedAt, HandlersTyped
    <3>2. IdleAction.pc = "idle"
      BY DEF IdleAction
    <3> QED
      BY <2>1, <2>2, <2>4, <3>1, <3>2
      DEF CallAt, BookedAt, StoredAt, ActionAt, ReleasedAt, KnownAt
  <2> QED
    BY <2>3, <2>4
<1>4. ASSUME NEW r \in Reservations, Compensate(r), NEW s \in Reservations PROVE CallAt(s)'
  <2>1. UNCHANGED <<action, manager, data>> /\ call[r].pc = "release"
    BY <1>4 DEF Compensate, cacheVars
  <2>0. CallAt(r) /\ VS!Recorded(r, "reserve") /\ action[r] = IdleAction
    BY <2>1 DEF CallInv, CallAt, BookedAt, ActionAt
  <2>2. CASE Apply(r, "release") /\ Goto(r, "failed") /\ UNCHANGED requests
    <3>1. \A op : VS!Recorded(s, op)' <=> VS!Recorded(s, op) \/ (s = r /\ op = "release")
      BY <2>2, ApplyRecords
    <3>2. /\ call'[r].pc = "failed" /\ \A t \in Reservations : t # r => call'[t] = call[t]
          /\ UNCHANGED <<late, lost>>
      BY <2>2 DEF Goto, HandlersTyped, requests
    <3>3. CASE s # r
      BY <2>1, <3>1, <3>2, <3>3, CallFrame
    <3>4. CASE s = r
      BY <2>0, <2>1, <3>1, <3>2, <3>4
      DEF CallAt, BookedAt, StoredAt, ActionAt, ReleasedAt, KnownAt, Held
    <3> QED
      BY <3>3, <3>4
  <2>3. CASE AttemptFails(r, "release") /\ Retry(r, "alerted")
    <3>1. \/ UNCHANGED <<late, lost>>
          \/ late' = late \cup {<<r, "release">>} /\ lost' = lost \cup {r}
      BY <2>3 DEF AttemptFails, requests
    <3>2. \A op : VS!Recorded(s, op)' <=> VS!Recorded(s, op)
      BY <2>3, NothingRecorded DEF AttemptFails
    <3>3. /\ \A t \in Reservations : t # r => call'[t] = call[t]
          /\ call'[r].pc \in {"release", "alerted"}
      BY <2>1, <2>3 DEF Retry, Goto, HandlersTyped
    <3>4. CASE s # r
      <4>1. \A op : <<s, op>> \in late' => <<s, op>> \in late
        BY <3>1, <3>4
      <4>2. s \in lost => s \in lost'
        BY <3>1
      <4> QED
        BY <2>1, <3>2, <3>3, <3>4, <4>1, <4>2, CallFrame
    <3>5. CASE s = r
      BY <2>0, <2>1, <3>1, <3>2, <3>3, <3>5
      DEF CallAt, BookedAt, StoredAt, ActionAt, ReleasedAt, KnownAt, Held
    <3> QED
      BY <3>4, <3>5
  <2> QED
    BY <1>4, <2>2, <2>3 DEF Compensate
<1>5. ASSUME NEW r \in Reservations, NEW op \in ServerActions, GetData(r, op),
             NEW s \in Reservations
      PROVE  CallAt(s)'
  <2>1. /\ UNCHANGED <<call, manager, data, late, lost>> /\ UNCHANGED vesselVars
        /\ call[r].pc = "accepted"
        /\ action'[r] = [IdleAction EXCEPT !.pc = "vessel", !.op = op]
        /\ \A t \in Reservations : t # r => action'[t] = action[t]
    BY <1>5 DEF GetData, cacheVars, requests, HandlersTyped
  <2>2. \A other : VS!Recorded(s, other)' <=> VS!Recorded(s, other)
    BY <2>1, NothingRecorded
  <2>3. action'[r].pc = "vessel" /\ IdleAction.pc = "idle"
    BY <2>1 DEF IdleAction
  <2>4. CASE s # r
    BY <2>1, <2>2, <2>4, CallFrame
  <2>5. CASE s = r
    BY <2>1, <2>2, <2>3, <2>5
    DEF CallInv, CallAt, BookedAt, StoredAt, ActionAt, ReleasedAt, KnownAt, Held
  <2> QED
    BY <2>4, <2>5
<1>6. ASSUME NEW r \in Reservations, ActOnVessel(r), NEW s \in Reservations PROVE CallAt(s)'
  <2> DEFINE o == action[r].op
  <2>1. /\ UNCHANGED <<call, manager, data>> /\ action[r].pc = "vessel"
        /\ action'[r].op = action[r].op /\ action'[r].pc \in {"idle", "deleteData"}
        /\ \A t \in Reservations : t # r => action'[t] = action[t]
    BY <1>6 DEF ActOnVessel, cacheVars, HandlersTyped, Actions
  <2>2. /\ o \in {"release", "confirm"} /\ action[r] # IdleAction /\ action'[r] # IdleAction
        /\ IdleAction.pc = "idle" /\ call[r].pc = "accepted"
    BY <2>1 DEF CallInv, CallAt, ActionAt, IdleAction, HandlersTyped, Actions
  <2> HIDE DEF o
  <2>3. CASE Apply(r, o) /\ UNCHANGED requests
    <3>1. \A op : VS!Recorded(s, op)' <=> VS!Recorded(s, op) \/ (s = r /\ op = o)
      BY <2>3, ApplyRecords
    <3>2. UNCHANGED <<late, lost>>
      BY <2>3 DEF requests
    <3>3. CASE s # r
      BY <2>1, <3>1, <3>2, <3>3, CallFrame
    <3>4. CASE s = r
      BY <2>1, <2>2, <3>1, <3>2, <3>4
      DEF CallInv, CallAt, BookedAt, StoredAt, ActionAt, ReleasedAt, KnownAt, Held
    <3> QED
      BY <3>3, <3>4
  <2>4. CASE AttemptFails(r, o)
    <3>1. \/ UNCHANGED <<late, lost>>
          \/ late' = late \cup {<<r, o>>} /\ lost' = lost \cup {r}
      BY <2>4 DEF AttemptFails, requests
    <3>2. \A op : VS!Recorded(s, op)' <=> VS!Recorded(s, op)
      BY <2>4, NothingRecorded DEF AttemptFails
    <3>3. CASE s # r
      <4>1. \A op : <<s, op>> \in late' => <<s, op>> \in late
        BY <3>1, <3>3
      <4>2. s \in lost => s \in lost'
        BY <3>1
      <4> QED
        BY <2>1, <3>2, <3>3, <4>1, <4>2, CallFrame
    <3>4. CASE s = r
      BY <2>1, <2>2, <3>1, <3>2, <3>4
      DEF CallInv, CallAt, BookedAt, StoredAt, ActionAt, ReleasedAt, KnownAt, Held
    <3> QED
      BY <3>3, <3>4
  <2> QED
    BY <1>6, <2>3, <2>4 DEF ActOnVessel, o
<1>7. ASSUME NEW r \in Reservations, DeleteData(r) \/ DeleteID(r), NEW s \in Reservations
      PROVE  CallAt(s)'
  <2>1. /\ UNCHANGED <<call, manager, late, lost>> /\ UNCHANGED vesselVars
        /\ data' = data \/ data' = data \ {r}
        /\ \A t \in Reservations : t # r => action'[t] = action[t]
        /\ action[r].pc \in {"deleteData", "deleteID"}
    BY <1>7 DEF DeleteData, DeleteID, requests, HandlersTyped
  <2>2. /\ action'[r].op = action[r].op
        /\ action'[r].pc \in {"deleteID", "done"} /\ ~ action'[r].alert
              => data' = data \ {r} \/ (action[r].pc = "deleteID" /\ ~ action[r].alert)
    BY <1>7 DEF DeleteData, DeleteID, HandlersTyped, Actions
  <2>3. /\ action[r] # IdleAction /\ action'[r] # IdleAction
    BY <2>1, <2>2 DEF IdleAction, HandlersTyped, Actions
  <2>4. \A op : VS!Recorded(s, op)' <=> VS!Recorded(s, op)
    BY <2>1, NothingRecorded
  <2>5. CASE s # r
    BY <2>1, <2>4, <2>5, CallFrame
  <2>6. CASE s = r
    BY <2>1, <2>2, <2>3, <2>4, <2>6
    DEF CallInv, CallAt, BookedAt, StoredAt, ActionAt, ReleasedAt, KnownAt, Held
  <2> QED
    BY <2>5, <2>6
<1>8. ASSUME NEW r \in Reservations, NEW op \in {"release", "confirm"}, TakeOver(r, op),
             NEW s \in Reservations
      PROVE  CallAt(s)'
  <2>1. /\ UNCHANGED <<call, action, late, lost>> /\ UNCHANGED vesselVars
        /\ r \in data /\ data' = data \ {r}
        /\ \A t \in Reservations : t # r => manager'[t] = manager[t]
    BY <1>8 DEF TakeOver, requests, HandlersTyped
  <2>2. \A other : VS!Recorded(s, other)' <=> VS!Recorded(s, other)
    BY <2>1, NothingRecorded
  <2>3. CASE s # r
    BY <2>1, <2>2, <2>3, CallFrame
  <2>4. CASE s = r
    BY <2>1, <2>2, <2>4
    DEF CallInv, CallAt, BookedAt, StoredAt, ActionAt, ReleasedAt, KnownAt, Held
  <2> QED
    BY <2>3, <2>4
<1>9. ASSUME NEW r \in Reservations, ManagerApplies(r), NEW s \in Reservations PROVE CallAt(s)'
  <2>1. /\ UNCHANGED <<call, action, data, late, lost>>
        /\ manager[r] # "none" /\ manager'[r] = "none"
        /\ manager[r] \in {"release", "confirm"}
        /\ \A t \in Reservations : t # r => manager'[t] = manager[t]
    BY <1>9 DEF ManagerApplies, cacheVars, requests, HandlersTyped
  <2>2. \A other : VS!Recorded(s, other)' <=> VS!Recorded(s, other) \/ (s = r /\ other = manager[r])
    BY <1>9, ApplyRecords DEF ManagerApplies
  <2>3. CASE s # r
    BY <2>1, <2>2, <2>3, CallFrame
  <2>4. CASE s = r
    BY <2>1, <2>2, <2>4
    DEF CallInv, CallAt, BookedAt, StoredAt, ActionAt, ReleasedAt, KnownAt, Held
  <2> QED
    BY <2>3, <2>4
<1>10. ASSUME NEW r \in Reservations, NEW op \in {"reserve", "release", "confirm"},
              LateRequest(r, op), NEW s \in Reservations
       PROVE  CallAt(s)'
  <2>1. /\ UNCHANGED <<call, action, manager, data, lost>>
        /\ <<r, op>> \in late /\ late' = late \ {<<r, op>>}
    BY <1>10 DEF LateRequest, cacheVars
  <2>2. \/ \A other : VS!Recorded(s, other)' <=> VS!Recorded(s, other)
        \/ \A other : VS!Recorded(s, other)' <=> VS!Recorded(s, other) \/ (s = r /\ other = op)
    <3>1. ASSUME op = "reserve", NEW v, VS!ReserveCapacity(r, v)
          PROVE  \A other : VS!Recorded(s, other)' <=> VS!Recorded(s, other) \/ (s = r /\ other = op)
      BY <3>1, ReserveRecords
    <3>2. ASSUME Apply(r, op)
          PROVE  \A other : VS!Recorded(s, other)' <=> VS!Recorded(s, other) \/ (s = r /\ other = op)
      BY <3>2, ApplyRecords
    <3>3. ASSUME UNCHANGED vesselVars
          PROVE  \A other : VS!Recorded(s, other)' <=> VS!Recorded(s, other)
      BY <3>3, NothingRecorded
    <3> QED
      BY <1>10, <3>1, <3>2, <3>3 DEF LateRequest
  <2>3. r \in lost
    BY <2>1 DEF CallInv, CallAt, KnownAt
  <2>4. CASE s # r
    BY <2>1, <2>2, <2>4, CallFrame
  <2>5. CASE s = r
    BY <2>1, <2>2, <2>3, <2>5
    DEF CallInv, CallAt, BookedAt, StoredAt, ActionAt, ReleasedAt, KnownAt, Held
  <2> QED
    BY <2>4, <2>5
<1>11. ASSUME UNCHANGED <<call, action, manager, data, late, lost, capacityOps>>,
              NEW s \in Reservations
       PROVE  CallAt(s)'
  <2>1. \A op : VS!Recorded(s, op)' <=> VS!Recorded(s, op)
    BY <1>11 DEF VS!Recorded
  <2> QED
    BY <1>11, <2>1, CallFrame
<1>12. ASSUME NEW r \in Reservations, ExpireID(r), NEW s \in Reservations PROVE CallAt(s)'
  BY <1>11, <1>12 DEF ExpireID, requests, vesselVars
<1>13. ASSUME NEW v \in Vessels, CreateVessel(v), NEW s \in Reservations PROVE CallAt(s)'
  BY <1>11, <1>13 DEF CreateVessel, VS!Create, cacheVars, requests
<1>14. ASSUME UNCHANGED vars, NEW s \in Reservations PROVE CallAt(s)'
  BY <1>11, <1>14 DEF vars
<1>15. ASSUME NEW request \in late, LateRequest(request[1], request[2]), NEW s \in Reservations
       PROVE  CallAt(s)'
  <2>1. request[1] \in Reservations /\ request[2] \in {"reserve", "release", "confirm"}
    BY DEF HandlersTyped
  <2> QED
    BY <1>10, <1>15, <2>1
<1> QED
  BY <1>1, <1>2, <1>3, <1>4, <1>5, <1>6, <1>7, <1>8, <1>9, <1>12, <1>13, <1>14, <1>15
  DEF Next, Handler, Manager, CallInv

LEMMA CallsKnown == Spec => []CallInv
<1>1. Init => CallInv
  BY DEF Init, VS!Init, CallInv, CallAt, BookedAt, StoredAt, ActionAt, ReleasedAt, KnownAt, Held,
         VS!Recorded, IdleAction
<1> QED
  BY <1>1, CallInvStep, ServiceTyped, PTL DEF Spec

\* An accepted reservation keeps its capacity as long as its data is cached and
\* no gRPC action was asked for: whoever else gives it back took the data first.
THEOREM AcceptedStaysHeld == Spec => []AcceptedIsHeld
<1>1. HandlersTyped /\ CallInv => AcceptedIsHeld
  BY DEF HandlersTyped, CallInv, CallAt, BookedAt, ReleasedAt, AcceptedIsHeld, Held
<1> QED
  BY <1>1, CallsKnown, ServiceTyped, PTL

\* A ReserveCapacity that failed holds no capacity unless a reply was lost.
THEOREM FailuresCompensated == Spec => []FailureIsCompensated
<1>1. CallInv => FailureIsCompensated
  BY DEF CallInv, CallAt, KnownAt, FailureIsCompensated
<1> QED
  BY <1>1, CallsKnown, PTL

\* What ConfirmCapacity has confirmed and answered without an alert is not
\* released by the cleanup job: its data is gone, and TakeOver needs it.
THEOREM ConfirmedStays == Spec => ConfirmedNotCleanedUp
<1> DEFINE Kept == \A r \in Reservations :
                       /\ action[r].pc = "done"
                       /\ action[r].op = "confirm"
                       /\ ~ action[r].alert
                       /\ manager[r] # "release"
                       => manager'[r] # "release"
<1>1. HandlersTyped /\ CallInv /\ Next => Kept
  <2> SUFFICES ASSUME HandlersTyped, CallInv, Next, NEW s \in Reservations,
                      action[s].pc = "done", ~ action[s].alert, manager[s] # "release"
               PROVE  manager'[s] # "release"
    OBVIOUS
  <2>1. s \notin data
    BY DEF CallInv, CallAt, ActionAt
  <2>2. ASSUME NEW r \in Reservations, NEW op, TakeOver(r, op) PROVE manager'[s] # "release"
    BY <2>1, <2>2 DEF TakeOver, HandlersTyped
  <2>3. ASSUME NEW r \in Reservations, ManagerApplies(r) PROVE manager'[s] # "release"
    BY <2>3 DEF ManagerApplies, HandlersTyped
  <2>4. ASSUME NEW r \in Reservations, Handler(r) \/ ExpireID(r) PROVE UNCHANGED manager
    BY <2>4 DEF Handler, ReserveCapacity, ReserveVessel, StoreID, StoreData, Compensate,
                GetData, ActOnVessel, DeleteData, DeleteID, ExpireID
  <2> QED
    BY <2>2, <2>3, <2>4 DEF Next, Manager, CreateVessel, LateRequest
<1>2. HandlersTyped /\ CallInv /\ [Next]_vars => [Kept]_vars
  BY <1>1
<1> QED
  BY <1>2, CallsKnown, ServiceTyped, PTL DEF ConfirmedNotCleanedUp, Spec
=============================================================================
