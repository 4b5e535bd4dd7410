------------------------------- MODULE Outbox -------------------------------
(***************************************************************************)
(* The outbox publishers of the consignment and the reservation service.   *)
(* Every instance of a service polls the same outbox, claims the pending   *)
(* rows for the time of a lease, produces them to Kafka within a shorter   *)
(* deadline and marks them as published.                                   *)
(*                                                                         *)
(* The two services share the code of the publisher and differ in the      *)
(* store: Postgres claims the rows in one transaction that skips what      *)
(* others have locked, Mongo document by document, and reads back what     *)
(* carries its claim_id.  Rows are numbered in the order of created_at.    *)
(* Time passes in ticks; a call takes as long as it likes, a pass counts   *)
(* its age from the moment publishOutbox creates its context.              *)
(*                                                                         *)
(* One clock stands for all of them: processing_until comes from the clock *)
(* of an instance, and is compared with that of another instance (Mongo)   *)
(* or of the database (Postgres).  What is said here of leases assumes     *)
(* that these clocks agree; the slack between the deadline and the lease   *)
(* is what the code leaves for their difference.                           *)
(***************************************************************************)
EXTENDS Naturals

CONSTANTS
    NumRows,    \* bound: how many events are written to the outbox
    Instances,  \* the running instances of the service
    Stores,     \* the stores it may run on
    Lease,      \* outboxLeaseDuration, in ticks
    Deadline,   \* outboxPublishDeadline, in ticks
    Interval,   \* OUTBOX_INTERVAL, in ticks
    Faults,     \* which failures the environment may inject
    MaxFaults   \* bound: how many of them one behaviour may contain

FaultKinds ==
    { "storeDown",      \* a call to the store fails and is not applied
      "storeReplyLost", \* it is applied, or partly applied, and fails
      "brokerDown",     \* the delivery report says that Kafka is unreachable
      "produceFails",   \* Produce returns an error that is not about the broker
      "tooLarge",       \* an event is written that Kafka will never accept
      "slow",           \* a tick passes while a pass is in progress
      "crash" }         \* an instance dies in the middle of a pass

Rows == 1..NumRows

Nobody == "nobody"

ASSUME RowsAssumption      == NumRows \in Nat
ASSUME InstancesAssumption == Nobody \notin Instances
ASSUME StoresAssumption    == Stores \subseteq {"postgres", "mongo"}
ASSUME LeaseAssumption     == Lease \in Nat \ {0} /\ Deadline \in 0..(Lease - 1) /\ Interval \in 0..Lease
ASSUME FaultsAssumption    == Faults \subseteq FaultKinds /\ MaxFaults \in Nat

VARIABLES
    store,      \* which of the stores this is
    row,        \* how far each row has come
    refused,    \* the rows whose message Kafka will not accept
    lease,      \* ticks left until processing_until
    holder,     \* whose pass has claimed the row: claim_id in Mongo, events in Postgres
    pass,       \* the pass of publishOutbox each instance is in
    delivered,  \* the rows with a copy in Kafka
    late,       \* messages still queued in a producer that nobody waits for
    faults      \* how many failures have been injected

rowVars == <<row, refused>>
vars    == <<store, row, refused, lease, holder, pass, delivered, late, faults>>

\* A pass: scan are the documents UpdateMany has yet to look at, events the
\* rows yet to be gone through, and age the ticks since it began.  Between two
\* passes age goes on, up to the interval of the ticker.
Passes == [pc      : {"idle", "claim", "fetch", "loop", "await", "mark"},
           age     : 0..Lease,
           scan    : SUBSET Rows,
           events  : SUBSET Rows,
           current : {0} \cup Rows]

TypeOK ==
    /\ store \in Stores
    /\ row \in [Rows -> {"none", "pending", "published"}]
    /\ refused \subseteq Rows
    /\ lease \in [Rows -> 0..Lease]
    /\ holder \in [Rows -> Instances \cup {Nobody}]
    /\ pass \in [Instances -> Passes]
    /\ delivered \subseteq Rows
    /\ late \subseteq Rows
    /\ faults \in 0..MaxFaults

IdlePass(age) ==
    [pc |-> "idle", age |-> IF age < Interval THEN age ELSE Interval,
     scan |-> {}, events |-> {}, current |-> 0]

Init ==
    /\ store \in Stores
    /\ row = [r \in Rows |-> "none"]
    /\ refused = {}
    /\ lease = [r \in Rows |-> 0]
    /\ holder = [r \in Rows |-> Nobody]
    /\ pass = [i \in Instances |-> IdlePass(0)]
    /\ delivered = {}
    /\ late = {}
    /\ faults = 0

Fault(kind) == kind \in Faults /\ faults < MaxFaults /\ faults' = faults + 1
NoFault     == UNCHANGED faults

-----------------------------------------------------------------------------
(* Writing events *)

CreateEvent(r) ==
    /\ row[r] = "none"
    /\ \A s \in Rows : s < r => row[s] # "none"
    /\ row' = [row EXCEPT ![r] = "pending"]
    /\ \/ UNCHANGED refused /\ NoFault
       \/ refused' = refused \cup {r} /\ Fault("tooLarge")
    /\ UNCHANGED <<store, lease, holder, pass, delivered, late>>

-----------------------------------------------------------------------------
(* A pass of publishOutbox *)

\* The next pass has a claim_id of its own: what this one holds is nobody's.
EndPass(i) ==
    /\ pass' = [pass EXCEPT ![i] = IdlePass(pass[i].age)]
    /\ holder' = [r \in Rows |-> IF holder[r] = i THEN Nobody ELSE holder[r]]

\* The next row of the loop, or the end of the pass.
NextRow(i, left) ==
    IF left = {} THEN EndPass(i)
    ELSE /\ pass' = [pass EXCEPT ![i].pc = "loop", ![i].events = left, ![i].current = 0]
         /\ UNCHANGED holder

\* The ticker fires.
StartPass(i) ==
    /\ pass[i].pc = "idle"
    /\ pass[i].age >= Interval
    /\ pass' = [pass EXCEPT ![i] = [IdlePass(0) EXCEPT !.pc = "claim", !.scan = Rows]]
    /\ UNCHANGED <<store, rowVars, lease, holder, delivered, late, faults>>

\* Mutant: a lease that is still running is not respected.
Claimable_IgnoresLease(r) == row[r] = "pending"

Claimable(r) == row[r] = "pending" /\ lease[r] = 0

\* Mutant: processing_until is counted from the end of the pass.
LeaseLeft_FromEnd(i) == {Lease + Deadline - pass[i].age}

\* What is left of a lease taken now.  Mongo counts it from the beginning of
\* GetPendingEvents, Postgres from the UPDATE, before the commit shows it.
LeaseLeft(i) == {Lease - t : t \in IF store = "mongo" THEN {pass[i].age} ELSE 0..pass[i].age}

StartLease(i, rows) ==
    \E left \in LeaseLeft(i) :
        lease' = [r \in Rows |-> IF r \in rows THEN left ELSE lease[r]]

Hold(i, rows) == holder' = [r \in Rows |-> IF r \in rows THEN i ELSE holder[r]]

\* SELECT ... FOR UPDATE SKIP LOCKED, UPDATE and COMMIT: one transaction.
ClaimRows(i) ==
    LET rows == {r \in Rows : Claimable(r)} IN
    /\ store = "postgres"
    /\ pass[i].pc = "claim"
    /\ \/ rows = {} /\ EndPass(i) /\ UNCHANGED lease /\ NoFault
       \/ /\ rows # {} /\ StartLease(i, rows) /\ Hold(i, rows) /\ NoFault
          /\ pass' = [pass EXCEPT ![i].pc = "loop", ![i].events = rows, ![i].scan = {}]
       \/ StartLease(i, rows) /\ EndPass(i) /\ Fault("storeReplyLost")
       \/ EndPass(i) /\ UNCHANGED lease /\ Fault("storeDown")
    /\ UNCHANGED <<store, rowVars, delivered, late>>

\* UpdateMany looks at document r, and claims it if its filter matches.  The
\* filter's time is that of the beginning: a lease that has lapsed since counts.
ClaimDocument(i, r) ==
    LET left   == pass[i].scan \ {r}
        passed == pass[i].age > 0 \/ ~Claimable(r)
    IN  /\ store = "mongo"
        /\ pass[i].pc = "claim"
        /\ r \in pass[i].scan
        /\ \E rows \in SUBSET {r} :
               /\ IF rows = {} THEN passed ELSE Claimable(r)
               /\ StartLease(i, rows)
               /\ Hold(i, rows)
        /\ pass' = [pass EXCEPT ![i].scan = left,
                                ![i].pc = IF left = {} THEN "fetch" ELSE @]
        /\ UNCHANGED <<store, rowVars, delivered, late, faults>>

\* UpdateMany returns an error: what it has claimed so far, if anything, waits
\* for its lease.
ClaimFails(i) ==
    /\ store = "mongo"
    /\ pass[i].pc = "claim"
    /\ Fault(IF pass[i].scan = Rows THEN "storeDown" ELSE "storeReplyLost")
    /\ EndPass(i)
    /\ UNCHANGED <<store, rowVars, lease, delivered, late>>

\* Find by claim_id.  An error of the cursor ends the iteration, and is not
\* told from the end of it: the rows that are missing wait for their lease.
FetchClaimed(i) ==
    LET claimed == {r \in Rows : row[r] = "pending" /\ holder[r] = i} IN
    /\ pass[i].pc = "fetch"
    /\ \/ NextRow(i, claimed) /\ NoFault
       \/ \E part \in SUBSET claimed : NextRow(i, part) /\ Fault("storeDown")
    /\ UNCHANGED <<store, rowVars, lease, delivered, late>>

\* Mutant: the deadline is only looked at while a delivery is awaited.
Produce_IgnoresDeadline(i) ==
    \E r \in pass[i].events :
        /\ pass[i].pc = "loop"
        /\ \A s \in pass[i].events : r <= s
        /\ pass' = [pass EXCEPT ![i].pc = "await", ![i].current = r]
        /\ UNCHANGED <<store, rowVars, lease, holder, delivered, late, faults>>

\* The first of the rows is enqueued, if the deadline has not passed.
Produce(i) ==
    \E r \in pass[i].events :
        /\ pass[i].pc = "loop"
        /\ pass[i].age < Deadline
        /\ \A s \in pass[i].events : r <= s
        /\ pass' = [pass EXCEPT ![i].pc = "await", ![i].current = r]
        /\ UNCHANGED <<store, rowVars, lease, holder, delivered, late, faults>>

\* The delivery report arrives.
Delivered(i) ==
    /\ pass[i].pc = "await"
    /\ pass[i].current \notin refused
    /\ delivered' = delivered \cup {pass[i].current}
    /\ pass' = [pass EXCEPT ![i].pc = "mark"]
    /\ UNCHANGED <<store, rowVars, lease, holder, late, faults>>

\* Kafka does not accept the message; or Produce fails for once, before or
\* after the broker has it.
ProduceError(i) ==
    LET r == pass[i].current IN
    /\ pass[i].pc = "await"
    /\ \/ r \in refused /\ UNCHANGED delivered /\ NoFault
       \/ /\ r \notin refused /\ Fault("produceFails")
          /\ delivered' \in {delivered, delivered \cup {r}}

\* Mutant: an error of the delivery report is not looked at.
Rejected_IgnoresError(i) ==
    /\ ProduceError(i)
    /\ pass' = [pass EXCEPT ![i].pc = "mark"]
    /\ UNCHANGED <<store, rowVars, lease, holder, late>>

\* Mutant: the pass gives up on the first row that cannot be produced.
Rejected_Aborts(i) ==
    /\ ProduceError(i)
    /\ EndPass(i)
    /\ UNCHANGED <<store, rowVars, lease, late>>

\* The loop continues with the next row; this one waits for its lease.
Rejected(i) ==
    /\ ProduceError(i)
    /\ NextRow(i, pass[i].events \ {pass[i].current})
    /\ UNCHANGED <<store, rowVars, lease, late>>

\* ErrBrokerUnreachable aborts the pass.  A message whose time ran out may
\* have been written to the log all the same.
BrokerUnreachable(i) ==
    /\ pass[i].pc = "await"
    /\ Fault("brokerDown")
    /\ \/ UNCHANGED delivered
       \/ pass[i].current \notin refused /\ delivered' = delivered \cup {pass[i].current}
    /\ EndPass(i)
    /\ UNCHANGED <<store, rowVars, lease, late>>

\* The deadline passes, in the loop or while a delivery report is awaited.  The
\* producer still has the message and goes on trying to deliver it.
DeadlineExceeded(i) ==
    /\ pass[i].pc \in {"loop", "await"}
    /\ pass[i].age >= Deadline
    /\ late' = late \cup ({pass[i].current} \cap (Rows \ refused))
    /\ EndPass(i)
    /\ UNCHANGED <<store, rowVars, lease, delivered, faults>>

\* MarkPublished, outside of the deadline; an error is only logged.
MarkPublished(i) ==
    LET r == pass[i].current IN
    /\ pass[i].pc = "mark"
    /\ \/ row' = [row EXCEPT ![r] = "published"] /\ NoFault
       \/ row' = [row EXCEPT ![r] = "published"] /\ Fault("storeReplyLost")
       \/ UNCHANGED row /\ Fault("storeDown")
    /\ NextRow(i, pass[i].events \ {r})
    /\ UNCHANGED <<store, refused, lease, delivered, late>>

\* A message of a pass that has ended is delivered, or given up.
LateDelivery(r) ==
    /\ r \in late
    /\ late' = late \ {r}
    /\ delivered' \in {delivered, delivered \cup {r}}
    /\ UNCHANGED <<store, rowVars, lease, holder, pass, faults>>

\* The instance dies; what it had enqueued may have left it.  It is started
\* again, and its new ticker fires at any time of its own.
Crash(i) ==
    /\ Fault("crash")
    /\ pass[i].pc # "idle"
    /\ \/ UNCHANGED late
       \/ pass[i].pc = "await" /\ late' = late \cup ({pass[i].current} \ refused)
    /\ EndPass(i)
    /\ UNCHANGED <<store, rowVars, lease, delivered>>

-----------------------------------------------------------------------------
\* A tick.  As long as calls are quick, none falls into a pass; and no delivery
\* report is awaited beyond the deadline, whose timer wakes up the select.
Tick ==
    /\ \A i \in Instances : pass[i].pc = "await" => pass[i].age < Deadline
    /\ \/ (\A i \in Instances : pass[i].pc = "idle") /\ NoFault
       \/ (\E i \in Instances : pass[i].pc # "idle") /\ Fault("slow")
    /\ lease' = [r \in Rows |-> IF lease[r] > 0 THEN lease[r] - 1 ELSE 0]
    /\ pass' = [i \in Instances |->
                   IF pass[i].pc = "idle" THEN IdlePass(pass[i].age + 1)
                   ELSE [pass[i] EXCEPT !.age = IF @ < Lease THEN @ + 1 ELSE @]]
    /\ UNCHANGED <<store, rowVars, holder, delivered, late>>

PassStep(i) ==
    \/ ClaimRows(i)
    \/ \E r \in Rows : ClaimDocument(i, r)
    \/ FetchClaimed(i)
    \/ Produce(i)
    \/ Delivered(i)
    \/ Rejected(i)
    \/ DeadlineExceeded(i)
    \/ MarkPublished(i)

Next ==
    \/ \E r \in Rows : CreateEvent(r) \/ LateDelivery(r)
    \/ \E i \in Instances : StartPass(i) \/ PassStep(i) \/ ClaimFails(i)
                           \/ BrokerUnreachable(i) \/ Crash(i)
    \/ Tick

Spec == Init /\ [][Next]_vars

\* The tickers fire, calls return and time passes.
Fairness ==
    /\ \A i \in Instances : WF_vars(StartPass(i)) /\ WF_vars(PassStep(i))
    /\ WF_vars(Tick)

FairSpec == Spec /\ Fairness

-----------------------------------------------------------------------------
(* Properties *)

\* The row whose delivery instance i awaits.
Producing(i) == IF pass[i].pc = "await" THEN {pass[i].current} ELSE {}

\* No row is produced by two instances at a time: whoever claims a row after
\* its lease finds the pass that held it before past its deadline, however long
\* the calls of either take.  README.md says of the deadline: "This prevents
\* overlapping with another consumers lease window."
OnePublisher ==
    \A i, j \in Instances : i # j => Producing(i) \cap Producing(j) = {}

\* A row is marked as published only when Kafka has it: Produce waits for the
\* delivery report, and returns its error.
MarkedIsDelivered ==
    \A r \in Rows : row[r] = "published" => r \in delivered

\* Every event Kafka accepts is published in the end: no claim is for ever,
\* whatever becomes of the claimant, and a row that Kafka refuses does not
\* hold up the rows behind it.
EventuallyPublished ==
    \A r \in Rows : row[r] = "pending" /\ r \notin refused ~> row[r] = "published"
=============================================================================
