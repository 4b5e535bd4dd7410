---------------------------- MODULE OutboxProofs ----------------------------
(***************************************************************************)
(* Proofs about Outbox, for every number of rows and instances, every      *)
(* lease longer than the deadline, and any number of failures.             *)
(*                                                                         *)
(* OnePublisher is not inductive: it says nothing of the time between the  *)
(* claim of a row and its production.  The invariant follows a row from    *)
(* the claim on: as long as a pass is younger than the lease, the leases   *)
(* of the rows it holds have not run out, so that nobody else can claim    *)
(* them, and a delivery is only awaited by a pass that is younger.         *)
(***************************************************************************)
EXTENDS Outbox, TLAPS

Pcs == {"idle", "claim", "fetch", "loop", "await", "mark"}

\* Produce, Delivered and MarkPublished are about a row of the pass.
Current ==
    \A i \in Instances : pass[i].pc \in {"await", "mark"} => pass[i].current \in pass[i].events

Held ==
    /\ \A i \in Instances, r \in Rows : holder[r] = i => pass[i].pc # "idle"
    /\ \A i \in Instances, r \in Rows :
           holder[r] = i /\ pass[i].age < Lease => lease[r] >= Lease - pass[i].age
    /\ \A i \in Instances : \A r \in pass[i].events :
           pass[i].age < Lease => holder[r] = i
    /\ \A i \in Instances : pass[i].pc = "await" => pass[i].age <= Deadline

USE DEF Rows

-----------------------------------------------------------------------------
(* What a pass may become *)

LEMMA PassFields ==
    ASSUME TypeOK, NEW i \in Instances
    PROVE  /\ pass[i] \in Passes
           /\ pass[i].pc \in Pcs
           /\ pass[i].age \in 0..Lease
           /\ pass[i].scan \subseteq Rows
           /\ pass[i].events \subseteq Rows
           /\ pass[i].current \in {0} \cup Rows
  BY DEF TypeOK, Passes, Pcs

LEMMA IdlePassType ==
    ASSUME NEW age \in Nat
    PROVE  /\ IdlePass(age) \in Passes
           /\ IdlePass(age).pc = "idle"
           /\ IdlePass(age).events = {}
           /\ IdlePass(age).age <= age
  BY LeaseAssumption DEF IdlePass, Passes

LEMMA EndPassType ==
    ASSUME TypeOK, NEW i \in Instances, EndPass(i)
    PROVE  /\ pass' \in [Instances -> Passes]
           /\ holder' \in [Rows -> Instances \cup {Nobody}]
           /\ pass'[i].pc = "idle" /\ pass'[i].events = {}
           /\ \A j \in Instances \ {i} : pass'[j] = pass[j]
           /\ \A r \in Rows : /\ holder'[r] # i
                              /\ holder[r] # i => holder'[r] = holder[r]
                              /\ holder'[r] = holder[r] \/ holder'[r] = Nobody
  <1>1. pass[i].age \in Nat
    BY PassFields, LeaseAssumption
  <1>2. IdlePass(pass[i].age) \in Passes /\ IdlePass(pass[i].age).pc = "idle"
        /\ IdlePass(pass[i].age).events = {}
    BY <1>1, IdlePassType
  <1>3. pass' = [pass EXCEPT ![i] = IdlePass(pass[i].age)]
    BY DEF EndPass
  <1>4. pass \in [Instances -> Passes] /\ holder \in [Rows -> Instances \cup {Nobody}]
    BY DEF TypeOK
  <1>5. holder' = [r \in Rows |-> IF holder[r] = i THEN Nobody ELSE holder[r]]
    BY DEF EndPass
  <1>6. QED
    BY <1>2, <1>3, <1>4, <1>5, InstancesAssumption

LEMMA NextRowType ==
    ASSUME TypeOK, NEW i \in Instances, NEW left \in SUBSET Rows, NextRow(i, left)
    PROVE  /\ pass' \in [Instances -> Passes]
           /\ holder' \in [Rows -> Instances \cup {Nobody}]
           /\ \A j \in Instances \ {i} : pass'[j] = pass[j]
           /\ \/ EndPass(i)
              \/ /\ pass'[i].pc = "loop" /\ pass'[i].events = left
                 /\ pass'[i].age = pass[i].age /\ holder' = holder
  <1>1. CASE left = {}
    <2>1. EndPass(i)
      BY <1>1 DEF NextRow
    <2>2. QED
      BY <2>1, EndPassType
  <1>2. CASE left # {}
    <2>1. pass' = [pass EXCEPT ![i].pc = "loop", ![i].events = left, ![i].current = 0]
          /\ holder' = holder
      BY <1>2 DEF NextRow
    <2>2. pass \in [Instances -> Passes] /\ holder \in [Rows -> Instances \cup {Nobody}]
      BY DEF TypeOK
    <2>3. pass'[i] = [pass[i] EXCEPT !.pc = "loop", !.events = left, !.current = 0]
      BY <2>1, <2>2
    <2>4. pass[i] \in Passes
      BY <2>2
    <2>5. /\ pass'[i] \in Passes /\ pass'[i].pc = "loop" /\ pass'[i].events = left
          /\ pass'[i].age = pass[i].age
      BY <2>3, <2>4 DEF Passes
    <2>6. QED
      BY <2>1, <2>2, <2>5
  <1>3. QED
    BY <1>1, <1>2

LEMMA StartLeaseType ==
    ASSUME TypeOK, NEW i \in Instances, NEW rows \in SUBSET Rows, StartLease(i, rows)
    PROVE  /\ lease' \in [Rows -> 0..Lease]
           /\ \A r \in rows : lease'[r] >= Lease - pass[i].age
           /\ \A r \in Rows \ rows : lease'[r] = lease[r]
  <1>1. PICK left \in LeaseLeft(i) :
            lease' = [r \in Rows |-> IF r \in rows THEN left ELSE lease[r]]
    BY DEF StartLease
  <1>2. pass[i].age \in 0..Lease
    BY PassFields
  <1>3. left \in 0..Lease /\ left >= Lease - pass[i].age
    BY <1>1, <1>2, LeaseAssumption DEF LeaseLeft
  <1>4. QED
    BY <1>1, <1>3 DEF TypeOK

LEMMA HoldType ==
    ASSUME TypeOK, NEW i \in Instances, NEW rows \in SUBSET Rows, Hold(i, rows)
    PROVE  /\ holder' \in [Rows -> Instances \cup {Nobody}]
           /\ \A r \in rows : holder'[r] = i
           /\ \A r \in Rows \ rows : holder'[r] = holder[r]
  BY DEF TypeOK, Hold

LEMMA FaultType ==
    ASSUME TypeOK, NoFault \/ \E kind \in FaultKinds : Fault(kind)
    PROVE  faults' \in 0..MaxFaults
  BY FaultsAssumption DEF TypeOK, NoFault, Fault

-----------------------------------------------------------------------------
(* Type correctness *)

LEMMA TypeInit == Init => TypeOK
  <1>1. SUFFICES ASSUME Init PROVE TypeOK
    OBVIOUS
  <1>2. IdlePass(0) \in Passes
    BY IdlePassType
  <1>3. QED
    BY <1>1, <1>2, LeaseAssumption, FaultsAssumption DEF Init, TypeOK

LEMMA PassStepType ==
    ASSUME TypeOK, Current, NEW i \in Instances, PassStep(i)
    PROVE  TypeOK'
  <1>1. CASE ClaimRows(i)
    <2>1. PICK rows \in SUBSET Rows :
              \/ EndPass(i) /\ UNCHANGED lease
              \/ EndPass(i) /\ StartLease(i, rows)
              \/ /\ StartLease(i, rows) /\ Hold(i, rows)
                 /\ pass' = [pass EXCEPT ![i].pc = "loop", ![i].events = rows, ![i].scan = {}]
      BY <1>1 DEF ClaimRows, Claimable
    <2>2. lease' \in [Rows -> 0..Lease]
      BY <2>1, StartLeaseType DEF TypeOK
    <2>3. pass' \in [Instances -> Passes] /\ holder' \in [Rows -> Instances \cup {Nobody}]
      <3>1. CASE EndPass(i)
        BY <3>1, EndPassType
      <3>2. CASE Hold(i, rows) /\ pass' = [pass EXCEPT ![i].pc = "loop", ![i].events = rows, ![i].scan = {}]
        <4>1. [pass[i] EXCEPT !.pc = "loop", !.events = rows, !.scan = {}] \in Passes
          BY PassFields DEF Passes
        <4>2. QED
          BY <3>2, <4>1, HoldType DEF TypeOK
      <3>3. QED
        BY <2>1, <3>1, <3>2
    <2>4. faults' \in 0..MaxFaults
      BY <1>1, FaultType DEF ClaimRows, FaultKinds
    <2>5. QED
      BY <1>1, <2>2, <2>3, <2>4 DEF TypeOK, ClaimRows, rowVars
  <1>2. ASSUME NEW r \in Rows, ClaimDocument(i, r) PROVE TypeOK'
    <2>1. PICK rows \in SUBSET {r} : StartLease(i, rows) /\ Hold(i, rows)
      BY <1>2 DEF ClaimDocument
    <2>2. lease' \in [Rows -> 0..Lease] /\ holder' \in [Rows -> Instances \cup {Nobody}]
      BY <2>1, StartLeaseType, HoldType
    <2>3. pass' \in [Instances -> Passes]
      <3>1. pass' = [pass EXCEPT ![i].scan = pass[i].scan \ {r},
                                 ![i].pc = IF pass[i].scan \ {r} = {} THEN "fetch" ELSE @]
        BY <1>2 DEF ClaimDocument
      <3>2. [pass[i] EXCEPT !.scan = pass[i].scan \ {r},
                            !.pc = IF pass[i].scan \ {r} = {} THEN "fetch" ELSE @] \in Passes
        BY PassFields DEF Passes
      <3>3. QED
        BY <3>1, <3>2 DEF TypeOK
    <2>4. QED
      BY <1>2, <2>2, <2>3 DEF TypeOK, ClaimDocument, rowVars
  <1>3. CASE FetchClaimed(i)
    <2>1. PICK part \in SUBSET Rows : NextRow(i, part)
      BY <1>3 DEF FetchClaimed
    <2>2. faults' \in 0..MaxFaults
      BY <1>3, FaultType DEF FetchClaimed, FaultKinds
    <2>3. QED
      BY <1>3, <2>1, <2>2, NextRowType DEF TypeOK, FetchClaimed, rowVars
  <1>4. CASE Produce(i)
    <2>1. PICK r \in pass[i].events : pass' = [pass EXCEPT ![i].pc = "await", ![i].current = r]
      BY <1>4 DEF Produce
    <2>2. [pass[i] EXCEPT !.pc = "await", !.current = r] \in Passes
      BY <2>1, PassFields DEF Passes
    <2>3. QED
      BY <1>4, <2>1, <2>2 DEF TypeOK, Produce, rowVars
  <1>5. CASE Delivered(i)
    <2>1. pass[i].current \in Rows
      BY <1>5, PassFields DEF Current, Delivered
    <2>2. pass' \in [Instances -> Passes]
      BY <1>5 DEF TypeOK, Passes, Delivered
    <2>3. delivered' \subseteq Rows
      BY <1>5, <2>1 DEF TypeOK, Delivered
    <2>4. QED
      BY <1>5, <2>2, <2>3 DEF TypeOK, Delivered, rowVars
  <1>6. CASE Rejected(i)
    <2>1. pass[i].events \ {pass[i].current} \in SUBSET Rows
      BY PassFields
    <2>2. pass[i].current \in Rows
      BY <1>6, PassFields DEF Current, Rejected, ProduceError
    <2>3. faults' \in 0..MaxFaults
      BY <1>6, FaultType DEF Rejected, ProduceError, FaultKinds
    <2>4. delivered' \subseteq Rows
      BY <1>6, <2>2 DEF TypeOK, Rejected, ProduceError
    <2>5. QED
      BY <1>6, <2>1, <2>3, <2>4, NextRowType DEF TypeOK, Rejected, rowVars
  <1>7. CASE DeadlineExceeded(i)
    BY <1>7, EndPassType DEF TypeOK, DeadlineExceeded, rowVars
  <1>8. CASE MarkPublished(i)
    <2>1. pass[i].events \ {pass[i].current} \in SUBSET Rows
      BY PassFields
    <2>2. faults' \in 0..MaxFaults
      BY <1>8, FaultType DEF MarkPublished, FaultKinds
    <2>3. row' \in [Rows -> {"none", "pending", "published"}]
      BY <1>8 DEF TypeOK, MarkPublished
    <2>4. QED
      BY <1>8, <2>1, <2>2, <2>3, NextRowType DEF TypeOK, MarkPublished
  <1>9. QED
    BY <1>1, <1>2, <1>3, <1>4, <1>5, <1>6, <1>7, <1>8 DEF PassStep

LEMMA TypeStep == TypeOK /\ Current /\ [Next]_vars => TypeOK'
  <1>1. SUFFICES ASSUME TypeOK, Current, [Next]_vars PROVE TypeOK'
    OBVIOUS
  <1>2. ASSUME NEW r \in Rows, CreateEvent(r) PROVE TypeOK'
    <2>1. faults' \in 0..MaxFaults
      BY <1>1, <1>2, FaultType DEF CreateEvent, FaultKinds
    <2>2. row' \in [Rows -> {"none", "pending", "published"}] /\ refused' \subseteq Rows
      BY <1>1, <1>2 DEF TypeOK, CreateEvent
    <2>3. QED
      BY <1>1, <1>2, <2>1, <2>2 DEF TypeOK, CreateEvent
  <1>3. ASSUME NEW r \in Rows, LateDelivery(r) PROVE TypeOK'
    <2>1. late' \subseteq Rows /\ delivered' \subseteq Rows
      BY <1>1, <1>3 DEF TypeOK, LateDelivery
    <2>2. QED
      BY <1>1, <1>3, <2>1 DEF TypeOK, LateDelivery, rowVars
  <1>4. ASSUME NEW i \in Instances, StartPass(i) PROVE TypeOK'
    <2>1. IdlePass(0) \in Passes
      BY IdlePassType
    <2>2. [IdlePass(0) EXCEPT !.pc = "claim", !.scan = Rows] \in Passes
      BY <2>1 DEF Passes
    <2>3. QED
      BY <1>1, <1>4, <2>2 DEF TypeOK, StartPass, rowVars
  <1>5. ASSUME NEW i \in Instances, PassStep(i) PROVE TypeOK'
    BY <1>1, <1>5, PassStepType
  <1>6. ASSUME NEW i \in Instances, BrokerUnreachable(i) PROVE TypeOK'
    <2>1. faults' \in 0..MaxFaults
      BY <1>1, <1>6, FaultType DEF BrokerUnreachable, FaultKinds
    <2>2. pass[i].current \in Rows
      BY <1>1, <1>6, PassFields DEF Current, BrokerUnreachable
    <2>3. delivered' \subseteq Rows
      BY <1>1, <1>6, <2>2 DEF TypeOK, BrokerUnreachable
    <2>4. QED
      BY <1>1, <1>6, <2>1, <2>3, EndPassType DEF TypeOK, BrokerUnreachable, rowVars
  <1>7. ASSUME NEW i \in Instances, Crash(i) PROVE TypeOK'
    <2>1. faults' \in 0..MaxFaults
      BY <1>1, <1>7, FaultType DEF Crash, FaultKinds
    <2>2. pass[i].pc = "await" => pass[i].current \in Rows
      BY <1>1, PassFields DEF Current
    <2>3. late' \subseteq Rows
      BY <1>1, <1>7, <2>2 DEF TypeOK, Crash
    <2>4. QED
      BY <1>1, <1>7, <2>1, <2>3, EndPassType DEF TypeOK, Crash, rowVars
  <1>8. ASSUME NEW i \in Instances, ClaimFails(i) PROVE TypeOK'
    <2>1. faults' \in 0..MaxFaults
      BY <1>1, <1>8, FaultType DEF ClaimFails, FaultKinds
    <2>2. QED
      BY <1>1, <1>8, <2>1, EndPassType DEF TypeOK, ClaimFails, rowVars
  <1>9. CASE Tick
    <2>1. faults' \in 0..MaxFaults
      BY <1>1, <1>9, FaultType DEF Tick, FaultKinds
    <2>2. lease' \in [Rows -> 0..Lease]
      BY <1>1, <1>9, LeaseAssumption DEF TypeOK, Tick
    <2>3. ASSUME NEW i \in Instances PROVE pass'[i] \in Passes
      <3>1. pass[i] \in Passes /\ pass[i].age \in 0..Lease
        BY <1>1, PassFields
      <3>2. IdlePass(pass[i].age + 1) \in Passes
        BY <3>1, IdlePassType, LeaseAssumption
      <3>3. [pass[i] EXCEPT !.age = IF @ < Lease THEN @ + 1 ELSE @] \in Passes
        BY <3>1, LeaseAssumption DEF Passes
      <3>4. QED
        BY <1>9, <3>2, <3>3 DEF Tick
    <2>4. pass' \in [Instances -> Passes]
      BY <1>9, <2>3 DEF Tick
    <2>5. QED
      BY <1>1, <1>9, <2>1, <2>2, <2>4 DEF TypeOK, Tick, rowVars
  <1>10. CASE UNCHANGED vars
    BY <1>1, <1>10 DEF TypeOK, vars, rowVars
  <1>11. QED
    BY <1>1, <1>2, <1>3, <1>4, <1>5, <1>6, <1>7, <1>8, <1>9, <1>10 DEF Next

-----------------------------------------------------------------------------
(* What a pass holds *)

\* A step that ends the pass of i, leaving the leases alone or longer than the
\* others need, keeps what the others hold.
LEMMA HeldAfterEnd ==
    ASSUME TypeOK, Held, Current, NEW i \in Instances, EndPass(i),
           \A r \in Rows, j \in Instances \ {i} :
               holder[r] = j /\ pass[j].age < Lease => lease'[r] = lease[r]
    PROVE  Held' /\ Current'
  <1>1. /\ pass'[i].pc = "idle" /\ pass'[i].events = {}
        /\ \A j \in Instances \ {i} : pass'[j] = pass[j]
        /\ \A r \in Rows : /\ holder'[r] # i
                           /\ holder[r] # i => holder'[r] = holder[r]
                           /\ holder'[r] = holder[r] \/ holder'[r] = Nobody
    BY EndPassType
  <1>2. \A j \in Instances : pass[j].events \subseteq Rows
    BY PassFields
  <1>3. Current'
    BY <1>1 DEF Current
  <1>4. ASSUME NEW j \in Instances, NEW r \in Rows, holder'[r] = j
        PROVE  /\ j # i /\ holder[r] = j /\ pass'[j] = pass[j]
               /\ pass'[j].age < Lease => lease'[r] >= Lease - pass'[j].age
    BY <1>1, <1>4, InstancesAssumption DEF Held
  <1>5. Held'
    <2>1. \A j \in Instances, r \in Rows : holder'[r] = j => pass'[j].pc # "idle"
      BY <1>4 DEF Held
    <2>2. \A j \in Instances : \A r \in pass'[j].events :
              pass'[j].age < Lease => holder'[r] = j
      BY <1>1, <1>2 DEF Held
    <2>3. \A j \in Instances : pass'[j].pc = "await" => pass'[j].age <= Deadline
      BY <1>1 DEF Held
    <2>4. QED
      BY <1>4, <2>1, <2>2, <2>3 DEF Held
  <1>6. QED
    BY <1>3, <1>5

\* A lease is only taken of rows that no pass in time still holds.
LEMMA OthersKeepLease ==
    ASSUME TypeOK, Held, NEW i \in Instances, NEW rows \in SUBSET Rows,
           \A r \in rows : Claimable(r), StartLease(i, rows)
    PROVE  /\ \A r \in rows : lease'[r] >= Lease - pass[i].age
           /\ \A r \in Rows \ rows : lease'[r] = lease[r]
           /\ \A r \in rows, j \in Instances : holder[r] = j => pass[j].age >= Lease
  <1>1. \A r \in rows, j \in Instances : holder[r] = j => pass[j].age >= Lease
    <2>1. SUFFICES ASSUME NEW r \in rows, NEW j \in Instances, holder[r] = j, pass[j].age < Lease
                   PROVE  FALSE
      BY PassFields, LeaseAssumption
    <2>2. lease[r] = 0 /\ lease[r] >= Lease - pass[j].age
      BY <2>1 DEF Held, Claimable
    <2>3. QED
      BY <2>1, <2>2, PassFields, LeaseAssumption
  <1>2. QED
    BY <1>1, StartLeaseType

\* A claim that takes rows no pass in time still holds keeps what passes hold.
LEMMA HeldAfterClaim ==
    ASSUME TypeOK, Held, Current, NEW i \in Instances, NEW rows \in SUBSET Rows,
           \A r \in rows : Claimable(r), StartLease(i, rows), Hold(i, rows),
           pass[i].pc = "claim", pass'[i].pc \in {"claim", "fetch", "loop"},
           pass'[i].events \subseteq rows \/ pass'[i].events = pass[i].events,
           pass'[i].age = pass[i].age,
           \A j \in Instances \ {i} : pass'[j] = pass[j]
    PROVE  Held' /\ Current'
  <1>1. /\ \A r \in rows : lease'[r] >= Lease - pass[i].age
        /\ \A r \in Rows \ rows : lease'[r] = lease[r]
        /\ \A r \in rows, j \in Instances : holder[r] = j => pass[j].age >= Lease
    BY OthersKeepLease
  <1>2. /\ \A r \in rows : holder'[r] = i
        /\ \A r \in Rows \ rows : holder'[r] = holder[r]
    BY HoldType
  <1>3. \A j \in Instances : pass[j].events \subseteq Rows /\ pass[j].age \in 0..Lease
    BY PassFields
  <1>4. Current'
    BY DEF Current
  <1>5. \A j \in Instances, r \in Rows : holder'[r] = j => pass'[j].pc # "idle"
    BY <1>2 DEF Held
  <1>6. \A j \in Instances, r \in Rows :
            holder'[r] = j /\ pass'[j].age < Lease => lease'[r] >= Lease - pass'[j].age
    BY <1>1, <1>2 DEF Held
  <1>7. ASSUME NEW j \in Instances, NEW r \in pass'[j].events, pass'[j].age < Lease
        PROVE  holder'[r] = j
    <2>1. CASE r \in rows
      <3>1. CASE j = i
        BY <1>2, <2>1, <3>1
      <3>2. CASE j # i
        <4>1. holder[r] = j /\ pass[j].age < Lease
          BY <1>3, <1>7, <3>2 DEF Held
        <4>2. QED
          BY <1>1, <1>3, <2>1, <4>1, LeaseAssumption
      <3>3. QED
        BY <3>1, <3>2
    <2>2. CASE r \notin rows
      <3>1. r \in pass[j].events /\ pass[j].age < Lease
        BY <1>7, <2>2
      <3>2. QED
        BY <1>2, <1>3, <2>2, <3>1 DEF Held
    <2>3. QED
      BY <2>1, <2>2
  <1>8. \A j \in Instances : pass'[j].pc = "await" => pass'[j].age <= Deadline
    BY DEF Held
  <1>9. QED
    BY <1>4, <1>5, <1>6, <1>7, <1>8 DEF Held

\* A step inside the pass of i that leaves the leases and holders alone.
LEMMA HeldInPass ==
    ASSUME TypeOK, Held, Current, NEW i \in Instances, UNCHANGED <<lease, holder>>,
           pass'[i].pc # "idle", pass'[i].age = pass[i].age,
           \A r \in pass'[i].events : r \in Rows /\ (pass[i].age < Lease => holder[r] = i),
           pass'[i].pc = "await" => pass[i].age <= Deadline,
           pass'[i].pc \in {"await", "mark"} => pass'[i].current \in pass'[i].events,
           \A j \in Instances \ {i} : pass'[j] = pass[j]
    PROVE  Held' /\ Current'
  <1>1. Current'
    BY DEF Current
  <1>2. \A j \in Instances, r \in Rows : holder'[r] = j => pass'[j].pc # "idle"
    BY DEF Held
  <1>3. \A j \in Instances, r \in Rows :
            holder'[r] = j /\ pass'[j].age < Lease => lease'[r] >= Lease - pass'[j].age
    BY DEF Held
  <1>4. \A j \in Instances : \A r \in pass'[j].events : pass'[j].age < Lease => holder'[r] = j
    BY DEF Held
  <1>5. \A j \in Instances : pass'[j].pc = "await" => pass'[j].age <= Deadline
    BY DEF Held
  <1>6. QED
    BY <1>1, <1>2, <1>3, <1>4, <1>5 DEF Held

LEMMA HeldNextRow ==
    ASSUME TypeOK, Held, Current, NEW i \in Instances, NEW left \in SUBSET Rows,
           NextRow(i, left), UNCHANGED lease,
           \A r \in left : pass[i].age < Lease => holder[r] = i
    PROVE  Held' /\ Current'
  <1>1. CASE EndPass(i)
    BY <1>1, HeldAfterEnd
  <1>2. CASE /\ pass'[i].pc = "loop" /\ pass'[i].events = left
             /\ pass'[i].age = pass[i].age /\ holder' = holder
    BY <1>2, NextRowType, HeldInPass
  <1>3. QED
    BY <1>1, <1>2, NextRowType

LEMMA HeldPassStep ==
    ASSUME TypeOK, Held, Current, NEW i \in Instances, PassStep(i)
    PROVE  Held' /\ Current'
  <1>1. CASE ClaimRows(i)
    <2> DEFINE rows == {r \in Rows : Claimable(r)}
    <2> rows \in SUBSET Rows /\ \A r \in rows : Claimable(r)
      OBVIOUS
    <2>1. \/ EndPass(i) /\ UNCHANGED lease
          \/ EndPass(i) /\ StartLease(i, rows)
          \/ /\ StartLease(i, rows) /\ Hold(i, rows)
             /\ pass' = [pass EXCEPT ![i].pc = "loop", ![i].events = rows, ![i].scan = {}]
      BY <1>1 DEF ClaimRows
    <2> HIDE DEF rows
    <2>2. CASE EndPass(i) /\ UNCHANGED lease
      BY <2>2, HeldAfterEnd
    <2>3. CASE EndPass(i) /\ StartLease(i, rows)
      <3>1. \A r \in Rows, j \in Instances \ {i} :
                holder[r] = j /\ pass[j].age < Lease => lease'[r] = lease[r]
        BY <2>1, <2>3, OthersKeepLease, PassFields, LeaseAssumption
      <3>2. QED
        BY <2>3, <3>1, HeldAfterEnd
    <2>4. CASE /\ StartLease(i, rows) /\ Hold(i, rows)
               /\ pass' = [pass EXCEPT ![i].pc = "loop", ![i].events = rows, ![i].scan = {}]
      <3>1. /\ pass'[i] = [pass[i] EXCEPT !.pc = "loop", !.events = rows, !.scan = {}]
            /\ \A j \in Instances \ {i} : pass'[j] = pass[j]
        BY <2>4 DEF TypeOK
      <3>2. pass'[i].pc = "loop" /\ pass'[i].events = rows /\ pass'[i].age = pass[i].age
        BY <3>1, PassFields DEF Passes
      <3>3. QED
        BY <1>1, <2>1, <2>4, <3>1, <3>2, HeldAfterClaim DEF ClaimRows
    <2>5. QED
      BY <2>1, <2>2, <2>3, <2>4
  <1>2. ASSUME NEW r \in Rows, ClaimDocument(i, r) PROVE Held' /\ Current'
    <2>1. PICK rows \in SUBSET {r} :
              /\ \A x \in rows : Claimable(x)
              /\ StartLease(i, rows) /\ Hold(i, rows)
      BY <1>2 DEF ClaimDocument
    <2>2. /\ pass[i].pc = "claim"
          /\ pass' = [pass EXCEPT ![i].scan = pass[i].scan \ {r},
                                  ![i].pc = IF pass[i].scan \ {r} = {} THEN "fetch" ELSE @]
      BY <1>2 DEF ClaimDocument
    <2>3. /\ pass'[i] = [pass[i] EXCEPT !.scan = pass[i].scan \ {r},
                                        !.pc = IF pass[i].scan \ {r} = {} THEN "fetch" ELSE @]
          /\ \A j \in Instances \ {i} : pass'[j] = pass[j]
      BY <2>2 DEF TypeOK
    <2>4. /\ pass'[i].pc \in {"fetch", pass[i].pc} /\ pass'[i].events = pass[i].events
          /\ pass'[i].age = pass[i].age
      BY <2>3, PassFields DEF Passes
    <2>5. rows \in SUBSET Rows /\ pass'[i].pc \in {"claim", "fetch", "loop"}
      BY <2>1, <2>2, <2>4
    <2>6. QED
      BY <2>1, <2>2, <2>3, <2>4, <2>5, HeldAfterClaim
  <1>3. CASE FetchClaimed(i)
    <2> DEFINE claimed == {r \in Rows : row[r] = "pending" /\ holder[r] = i}
    <2>1. PICK part \in SUBSET claimed : NextRow(i, part)
      <3>1. NextRow(i, claimed) \/ \E part \in SUBSET claimed : NextRow(i, part)
        BY <1>3 DEF FetchClaimed
      <3>2. claimed \in SUBSET claimed
        OBVIOUS
      <3>3. QED
        BY <3>1, <3>2
    <2>2. part \in SUBSET Rows /\ \A r \in part : holder[r] = i
      BY <2>1
    <2>3. QED
      BY <1>3, <2>1, <2>2, HeldNextRow DEF FetchClaimed
  <1>4. CASE Produce(i)
    <2>1. PICK r \in pass[i].events : pass' = [pass EXCEPT ![i].pc = "await", ![i].current = r]
      BY <1>4 DEF Produce
    <2>2. /\ pass'[i] = [pass[i] EXCEPT !.pc = "await", !.current = r]
          /\ \A j \in Instances \ {i} : pass'[j] = pass[j]
      BY <2>1 DEF TypeOK
    <2>3. /\ pass'[i].pc = "await" /\ pass'[i].current = r
          /\ pass'[i].events = pass[i].events /\ pass'[i].age = pass[i].age
      BY <2>2, PassFields DEF Passes
    <2>4. pass[i].age <= Deadline /\ lease' = lease /\ holder' = holder
      BY <1>4, PassFields, LeaseAssumption DEF Produce
    <2>5. QED
      BY <2>1, <2>2, <2>3, <2>4, PassFields, HeldInPass DEF Held
  <1>5. CASE Delivered(i)
    <2>1. pass' = [pass EXCEPT ![i].pc = "mark"] /\ pass[i].pc = "await"
      BY <1>5 DEF Delivered
    <2>2. /\ pass'[i] = [pass[i] EXCEPT !.pc = "mark"]
          /\ \A j \in Instances \ {i} : pass'[j] = pass[j]
      BY <2>1 DEF TypeOK
    <2>3. /\ pass'[i].pc = "mark" /\ pass'[i].current = pass[i].current
          /\ pass'[i].events = pass[i].events /\ pass'[i].age = pass[i].age
      BY <2>2, PassFields DEF Passes
    <2>4. lease' = lease /\ holder' = holder /\ pass[i].current \in pass[i].events
      BY <1>5, <2>1 DEF Delivered, Current
    <2>5. QED
      BY <2>1, <2>2, <2>3, <2>4, PassFields, HeldInPass DEF Held
  <1>6. CASE Rejected(i)
    BY <1>6, PassFields, HeldNextRow DEF Rejected, Held
  <1>7. CASE DeadlineExceeded(i)
    BY <1>7, HeldAfterEnd DEF DeadlineExceeded
  <1>8. CASE MarkPublished(i)
    BY <1>8, PassFields, HeldNextRow DEF MarkPublished, Held
  <1>9. QED
    BY <1>1, <1>2, <1>3, <1>4, <1>5, <1>6, <1>7, <1>8 DEF PassStep

LEMMA HeldInit == Init => Held /\ Current
  <1>1. SUFFICES ASSUME Init PROVE Held /\ Current
    OBVIOUS
  <1>2. IdlePass(0).pc = "idle" /\ IdlePass(0).events = {}
    BY IdlePassType
  <1>3. QED
    BY <1>1, <1>2, InstancesAssumption DEF Init, Held, Current

LEMMA HeldStep == TypeOK /\ Held /\ Current /\ [Next]_vars => Held' /\ Current'
  <1>1. SUFFICES ASSUME TypeOK, Held, Current, [Next]_vars PROVE Held' /\ Current'
    OBVIOUS
  <1>2. ASSUME NEW r \in Rows, CreateEvent(r) PROVE Held' /\ Current'
    BY <1>1, <1>2 DEF CreateEvent, Held, Current
  <1>3. ASSUME NEW r \in Rows, LateDelivery(r) PROVE Held' /\ Current'
    BY <1>1, <1>3 DEF LateDelivery, Held, Current
  <1>4. ASSUME NEW i \in Instances, StartPass(i) PROVE Held' /\ Current'
    <2>1. /\ pass'[i] = [IdlePass(0) EXCEPT !.pc = "claim", !.scan = Rows]
          /\ \A j \in Instances \ {i} : pass'[j] = pass[j]
      BY <1>1, <1>4 DEF StartPass, TypeOK
    <2>2. pass'[i].pc = "claim" /\ pass'[i].events = {}
      BY <2>1, IdlePassType DEF Passes
    <2>3. \A r \in Rows : holder[r] # i
      BY <1>1, <1>4 DEF StartPass, Held
    <2>4. lease' = lease /\ holder' = holder
      BY <1>4 DEF StartPass
    <2>5. QED
      BY <1>1, <2>1, <2>2, <2>3, <2>4, PassFields DEF Held, Current
  <1>5. ASSUME NEW i \in Instances, PassStep(i) PROVE Held' /\ Current'
    BY <1>1, <1>5, HeldPassStep
  <1>6. ASSUME NEW i \in Instances, BrokerUnreachable(i) PROVE Held' /\ Current'
    BY <1>1, <1>6, HeldAfterEnd DEF BrokerUnreachable
  <1>7. ASSUME NEW i \in Instances, Crash(i) PROVE Held' /\ Current'
    BY <1>1, <1>7, HeldAfterEnd DEF Crash
  <1>8. ASSUME NEW i \in Instances, ClaimFails(i) PROVE Held' /\ Current'
    BY <1>1, <1>8, HeldAfterEnd DEF ClaimFails
  <1>9. CASE Tick
    <2>1. ASSUME NEW i \in Instances
          PROVE  \/ /\ pass[i].pc = "idle" /\ pass'[i].pc = "idle" /\ pass'[i].events = {}
                 \/ /\ pass[i].pc # "idle" /\ pass'[i].pc = pass[i].pc
                    /\ pass'[i].events = pass[i].events
                    /\ pass'[i].current = pass[i].current
                    /\ pass'[i].age = IF pass[i].age < Lease THEN pass[i].age + 1 ELSE pass[i].age
      <3>1. CASE pass[i].pc = "idle"
        <4>1. pass'[i] = IdlePass(pass[i].age + 1)
          BY <1>9, <3>1 DEF Tick
        <4>2. pass[i].age + 1 \in Nat
          BY <1>1, PassFields, LeaseAssumption
        <4>3. QED
          BY <3>1, <4>1, <4>2, IdlePassType
      <3>2. CASE pass[i].pc # "idle"
        <4>1. pass'[i] = [pass[i] EXCEPT !.age = IF @ < Lease THEN @ + 1 ELSE @]
          BY <1>9, <3>2 DEF Tick
        <4>2. QED
          BY <1>1, <3>2, <4>1, PassFields DEF Passes
      <3>3. QED
        BY <3>1, <3>2
    <2>2. \A r \in Rows : lease'[r] = IF lease[r] > 0 THEN lease[r] - 1 ELSE 0
      BY <1>9 DEF Tick
    <2>3. holder' = holder
      BY <1>9 DEF Tick
    <2>4. /\ \A i \in Instances : pass[i].age \in 0..Lease
          /\ \A r \in Rows : lease[r] \in 0..Lease
      BY <1>1, PassFields DEF TypeOK
    <2>5. \A i \in Instances, r \in Rows : holder'[r] = i => pass'[i].pc # "idle"
      BY <1>1, <2>1, <2>3 DEF Held
    <2>6. ASSUME NEW i \in Instances, NEW r \in Rows, holder'[r] = i, pass'[i].age < Lease
          PROVE  lease'[r] >= Lease - pass'[i].age
      <3>1. pass'[i].age = pass[i].age + 1 /\ pass[i].age < Lease
        BY <2>1, <2>4, <2>5, <2>6, LeaseAssumption
      <3>2. lease[r] >= Lease - pass[i].age
        BY <1>1, <2>3, <2>6, <3>1 DEF Held
      <3>3. QED
        BY <2>2, <2>4, <3>1, <3>2, LeaseAssumption
    <2>7. \A i \in Instances : pass[i].events \subseteq Rows
      BY <1>1, PassFields
    <2>8. ASSUME NEW i \in Instances, NEW r \in pass'[i].events, pass'[i].age < Lease
          PROVE  holder'[r] = i
      <3>1. r \in pass[i].events /\ pass[i].age < Lease
        BY <2>1, <2>4, <2>8, LeaseAssumption
      <3>2. QED
        BY <1>1, <2>3, <3>1 DEF Held
    <2>9. ASSUME NEW i \in Instances, pass'[i].pc = "await" PROVE pass'[i].age <= Deadline
      <3>1. pass[i].pc = "await" /\ pass[i].age < Deadline
        BY <1>9, <2>1, <2>9 DEF Tick
      <3>2. pass'[i].age = pass[i].age + 1 /\ pass[i].age \in 0..Lease
        BY <2>1, <2>4, <3>1, LeaseAssumption
      <3>3. QED
        BY <3>1, <3>2, LeaseAssumption
    <2>10. Current'
      BY <1>1, <2>1 DEF Current
    <2>11. QED
      BY <2>5, <2>6, <2>8, <2>9, <2>10 DEF Held
  <1>10. CASE UNCHANGED vars
    BY <1>1, <1>10 DEF vars, rowVars, Held, Current
  <1>11. QED
    BY <1>1, <1>2, <1>3, <1>4, <1>5, <1>6, <1>7, <1>8, <1>9, <1>10 DEF Next

-----------------------------------------------------------------------------
(* The theorems *)

\* Every reachable state of the outbox and its publishers is well typed; in
\* particular no lease is ever longer than outboxLeaseDuration.
THEOREM TypeCorrect == Spec => []TypeOK
  <1>1. Init => TypeOK /\ Held /\ Current
    BY TypeInit, HeldInit
  <1>2. TypeOK /\ Held /\ Current /\ [Next]_vars => (TypeOK /\ Held /\ Current)'
    BY TypeStep, HeldStep
  <1>3. QED
    BY <1>1, <1>2, PTL DEF Spec

LEMMA HeldAlways == Spec => [](TypeOK /\ Held /\ Current)
  <1>1. Init => TypeOK /\ Held /\ Current
    BY TypeInit, HeldInit
  <1>2. TypeOK /\ Held /\ Current /\ [Next]_vars => (TypeOK /\ Held /\ Current)'
    BY TypeStep, HeldStep
  <1>3. QED
    BY <1>1, <1>2, PTL DEF Spec

\* No two instances ever produce the same row of the outbox at a time, on
\* either store and however long their calls take: outboxPublishDeadline is
\* shorter than outboxLeaseDuration.
THEOREM OnePublisherAlways == Spec => []OnePublisher
  <1>1. TypeOK /\ Held /\ Current => OnePublisher
    <2>1. SUFFICES ASSUME TypeOK, Held, Current,
                          NEW i \in Instances, NEW j \in Instances, i # j,
                          pass[i].pc = "await", pass[j].pc = "await",
                          pass[i].current = pass[j].current
                   PROVE  FALSE
      BY DEF OnePublisher, Producing
    <2>2. /\ pass[i].age < Lease /\ pass[j].age < Lease
      BY <2>1, PassFields, LeaseAssumption DEF Held
    <2>3. pass[i].current \in pass[i].events /\ pass[j].current \in pass[j].events
      BY <2>1 DEF Current
    <2>4. holder[pass[i].current] = i /\ holder[pass[j].current] = j
      BY <2>1, <2>2, <2>3 DEF Held
    <2>5. QED
      BY <2>1, <2>4
  <1>2. QED
    BY <1>1, HeldAlways, PTL

\* A row is only marked after the delivery report of its own message: the
\* invariant adds that a pass about to mark a row has seen it delivered.
MarkSeesDelivery ==
    /\ MarkedIsDelivered
    /\ \A i \in Instances : pass[i].pc = "mark" => pass[i].current \in delivered

LEMMA MarkStep ==
    TypeOK /\ Current /\ MarkSeesDelivery /\ [Next]_vars => MarkSeesDelivery'
  <1>1. SUFFICES ASSUME TypeOK, Current, MarkSeesDelivery, [Next]_vars
                 PROVE  MarkSeesDelivery'
    OBVIOUS
  <1>2. ASSUME NEW i \in Instances, delivered \subseteq delivered', row' = row,
               pass'[i].pc = "mark" => pass'[i].current \in delivered',
               \A j \in Instances \ {i} : pass'[j] = pass[j]
        PROVE  MarkSeesDelivery'
    BY <1>1, <1>2 DEF MarkSeesDelivery, MarkedIsDelivered
  <1>3. ASSUME NEW r \in Rows, CreateEvent(r) PROVE MarkSeesDelivery'
    BY <1>1, <1>3 DEF CreateEvent, MarkSeesDelivery, MarkedIsDelivered, TypeOK
  <1>4. ASSUME NEW r \in Rows, LateDelivery(r) PROVE MarkSeesDelivery'
    BY <1>1, <1>4 DEF LateDelivery, MarkSeesDelivery, MarkedIsDelivered, rowVars
  <1>5. ASSUME NEW i \in Instances, StartPass(i) PROVE MarkSeesDelivery'
    <2>1. /\ pass'[i] = [IdlePass(0) EXCEPT !.pc = "claim", !.scan = Rows]
          /\ \A j \in Instances \ {i} : pass'[j] = pass[j]
      BY <1>1, <1>5 DEF StartPass, TypeOK
    <2>2. pass'[i].pc = "claim"
      BY <2>1, IdlePassType DEF Passes
    <2>3. QED
      BY <1>2, <1>5, <2>1, <2>2 DEF StartPass, rowVars
  <1>6. ASSUME NEW i \in Instances, PassStep(i) PROVE MarkSeesDelivery'
    <2>1. CASE ClaimRows(i)
      <3>1. pass'[i].pc # "mark" /\ \A j \in Instances \ {i} : pass'[j] = pass[j]
        <4>1. CASE EndPass(i)
          BY <1>1, <4>1, EndPassType
        <4>2. ASSUME NEW rows,
                     pass' = [pass EXCEPT ![i].pc = "loop", ![i].events = rows, ![i].scan = {}]
              PROVE  pass'[i].pc # "mark" /\ \A j \in Instances \ {i} : pass'[j] = pass[j]
          <5>1. pass'[i] = [pass[i] EXCEPT !.pc = "loop", !.events = rows, !.scan = {}]
            BY <1>1, <4>2 DEF TypeOK
          <5>2. QED
            BY <1>1, <4>2, <5>1, PassFields DEF Passes, TypeOK
        <4>3. QED
          BY <2>1, <4>1, <4>2 DEF ClaimRows
      <3>2. QED
        BY <1>2, <2>1, <3>1 DEF ClaimRows, rowVars
    <2>2. ASSUME NEW r \in Rows, ClaimDocument(i, r) PROVE MarkSeesDelivery'
      <3>1. pass'[i].pc # "mark" /\ \A j \in Instances \ {i} : pass'[j] = pass[j]
        <4>1. /\ pass[i].pc = "claim"
              /\ pass' = [pass EXCEPT ![i].scan = pass[i].scan \ {r},
                                      ![i].pc = IF pass[i].scan \ {r} = {} THEN "fetch" ELSE @]
          BY <2>2 DEF ClaimDocument
        <4>2. pass'[i] = [pass[i] EXCEPT !.scan = pass[i].scan \ {r},
                                         !.pc = IF pass[i].scan \ {r} = {} THEN "fetch" ELSE @]
          BY <1>1, <4>1 DEF TypeOK
        <4>3. QED
          BY <1>1, <4>1, <4>2, PassFields DEF Passes, TypeOK
      <3>2. QED
        BY <1>2, <2>2, <3>1 DEF ClaimDocument, rowVars
    <2>3. ASSUME NEW left \in SUBSET Rows, NextRow(i, left), delivered \subseteq delivered', row' = row
          PROVE  MarkSeesDelivery'
      BY <1>1, <1>2, <2>3, NextRowType, EndPassType
    <2>4. CASE FetchClaimed(i)
      <3>1. PICK part \in SUBSET Rows : NextRow(i, part)
        BY <2>4 DEF FetchClaimed
      <3>2. QED
        BY <2>3, <2>4, <3>1 DEF FetchClaimed, rowVars
    <2>5. CASE Produce(i)
      <3>1. PICK r \in pass[i].events : pass' = [pass EXCEPT ![i].pc = "await", ![i].current = r]
        BY <2>5 DEF Produce
      <3>2. /\ pass'[i] = [pass[i] EXCEPT !.pc = "await", !.current = r]
            /\ \A j \in Instances \ {i} : pass'[j] = pass[j]
        BY <1>1, <3>1 DEF TypeOK
      <3>3. pass'[i].pc = "await"
        BY <1>1, <3>2, PassFields DEF Passes
      <3>4. QED
        BY <1>2, <2>5, <3>2, <3>3 DEF Produce, rowVars
    <2>6. CASE Delivered(i)
      <3>1. /\ pass'[i] = [pass[i] EXCEPT !.pc = "mark"]
            /\ \A j \in Instances \ {i} : pass'[j] = pass[j]
            /\ delivered' = delivered \cup {pass[i].current}
        BY <1>1, <2>6 DEF TypeOK, Delivered
      <3>2. pass'[i].current = pass[i].current
        BY <1>1, <3>1, PassFields DEF Passes
      <3>3. QED
        BY <1>2, <2>6, <3>1, <3>2 DEF Delivered, rowVars
    <2>7. CASE Rejected(i)
      <3>1. delivered \subseteq delivered'
        BY <2>7 DEF Rejected, ProduceError
      <3>2. QED
        BY <1>1, <2>3, <2>7, <3>1, PassFields DEF Rejected, rowVars
    <2>8. CASE DeadlineExceeded(i)
      BY <1>1, <1>2, <2>8, EndPassType DEF DeadlineExceeded, rowVars
    <2>9. CASE MarkPublished(i)
      <3>1. pass[i].events \ {pass[i].current} \in SUBSET Rows
        BY <1>1, PassFields
      <3>2. /\ pass'[i].pc # "mark"
            /\ \A j \in Instances \ {i} : pass'[j] = pass[j]
        BY <1>1, <2>9, <3>1, NextRowType, EndPassType DEF MarkPublished
      <3>3. pass[i].current \in delivered /\ delivered' = delivered
        BY <1>1, <2>9 DEF MarkPublished, MarkSeesDelivery
      <3>4. \A r \in Rows : row'[r] = row[r] \/ r = pass[i].current
        BY <1>1, <2>9 DEF MarkPublished, TypeOK
      <3>5. QED
        BY <1>1, <3>2, <3>3, <3>4 DEF MarkSeesDelivery, MarkedIsDelivered
    <2>10. QED
      BY <1>6, <2>1, <2>2, <2>4, <2>5, <2>6, <2>7, <2>8, <2>9 DEF PassStep
  <1>7. ASSUME NEW i \in Instances, BrokerUnreachable(i) PROVE MarkSeesDelivery'
    BY <1>1, <1>2, <1>7, EndPassType DEF BrokerUnreachable, rowVars
  <1>8. ASSUME NEW i \in Instances, Crash(i) PROVE MarkSeesDelivery'
    BY <1>1, <1>2, <1>8, EndPassType DEF Crash, rowVars
  <1>9. ASSUME NEW i \in Instances, ClaimFails(i) PROVE MarkSeesDelivery'
    BY <1>1, <1>2, <1>9, EndPassType DEF ClaimFails, rowVars
  <1>10. CASE Tick
    <2>1. ASSUME NEW i \in Instances
          PROVE  pass'[i].pc = "mark" => pass[i].pc = "mark" /\ pass'[i].current = pass[i].current
      <3>1. CASE pass[i].pc = "idle"
        BY <1>1, <1>10, <3>1, PassFields, IdlePassType, LeaseAssumption DEF Tick
      <3>2. CASE pass[i].pc # "idle"
        <4>1. pass'[i] = [pass[i] EXCEPT !.age = IF @ < Lease THEN @ + 1 ELSE @]
          BY <1>10, <3>2 DEF Tick
        <4>2. QED
          BY <1>1, <4>1, PassFields DEF Passes
      <3>3. QED
        BY <3>1, <3>2
    <2>2. QED
      BY <1>1, <1>10, <2>1 DEF Tick, MarkSeesDelivery, MarkedIsDelivered, rowVars
  <1>11. CASE UNCHANGED vars
    BY <1>1, <1>11 DEF vars, rowVars, MarkSeesDelivery, MarkedIsDelivered
  <1>12. QED
    BY <1>1, <1>3, <1>4, <1>5, <1>6, <1>7, <1>8, <1>9, <1>10, <1>11 DEF Next

\* A row is marked as published only if Kafka has its message, whatever fails in
\* the broker, the store or the instances: no event is given up undelivered.
THEOREM MarkingIsSafe == Spec => []MarkedIsDelivered
  <1>1. Init => MarkSeesDelivery
    BY IdlePassType DEF Init, MarkSeesDelivery, MarkedIsDelivered
  <1>2. TypeOK /\ Held /\ Current /\ MarkSeesDelivery /\ [Next]_vars => MarkSeesDelivery'
    BY MarkStep
  <1>3. MarkSeesDelivery => MarkedIsDelivered
    BY DEF MarkSeesDelivery
  <1>4. QED
    BY <1>1, <1>2, <1>3, HeldAlways, PTL DEF Spec

=============================================================================
