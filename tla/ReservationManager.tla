------------------------- MODULE ReservationManager -------------------------
(***************************************************************************)
(* The reservation manager of the reservation service: the Kafka handlers  *)
(* that confirm or release reserved vessel capacity, the cleanup job that  *)
(* reports lapsed reservations, and the outbox that carries their events.  *)
(*                                                                         *)
(* A handler is a sequence of calls to Redis, the vessel service and       *)
(* Postgres.  Each call is a step of its own, so that handlers of several  *)
(* instances, the cleanup job, TTL expiry, crashes and redeliveries        *)
(* interleave between any two of them.  A reservation stands for its       *)
(* consignment too: one is made for the other, and the payloads of the     *)
(* events (weights, containers, payment ids) take no part in the control.  *)
(*                                                                         *)
(* The vessel service is represented by what its idempotency index keeps,  *)
(* the set of <<reservation, action>> pairs applied; VesselRepository      *)
(* models the capacities behind it.                                        *)
(***************************************************************************)
EXTENDS Naturals

CONSTANTS
    Reservations,   \* the reservations made through ReserveCapacity
    Workers,        \* the consuming loops, one for each running instance
    MaxRetries,     \* manager.MaxRetries
    Faults,         \* which failures the environment may inject
    MaxFaults       \* how many failures one behaviour may contain

FaultKinds ==
    { "redisDown",        \* a Redis command fails and is not applied
      "redisReplyLost",   \* a DEL is applied and its reply is lost
      "vesselDown",       \* every attempt of a vessel call fails, unapplied
      "vesselReplyLost",  \* a vessel call is applied, every reply is an error
      "postgresDown",     \* an INSERT into the outbox returns an error
      "crash",            \* an instance dies between two calls
      "redelivery",       \* a message is delivered, or an event sent, again
      "dataLapse" }       \* the reservation_data key reaches its own TTL

ASSUME RetriesAssumption == MaxRetries \in Nat \ {0}
ASSUME FaultsAssumption  == Faults \subseteq FaultKinds /\ MaxFaults \in Nat

-----------------------------------------------------------------------------
(* Topics, events and messages *)

PaymentCapturedTopic               == "consignment.payment.captured"
ReleaseCapacityTopic               == "reservation.capacity.release"
ConfirmCapacityTopic               == "reservation.capacity.confirm"
CapacityFailedTopic                == "reservation.capacity.failed"
ReservationExpiredTopic            == "reservation.expired"
ConsignmentConfirmationFailedTopic == "consignment.confirmation.failed"
ReservationConfirmedTopic          == "reservation.confirmed"

Actions == {"CONFIRM", "RELEASE"}

CapacityTopics == {ReleaseCapacityTopic, ConfirmCapacityTopic, CapacityFailedTopic}
NoticeTopics   == {PaymentCapturedTopic, ReservationExpiredTopic,
                   ConsignmentConfirmationFailedTopic, ReservationConfirmedTopic}

\* The topics this service has handlers for.
InboundTopics == CapacityTopics \cup {PaymentCapturedTopic, ReservationExpiredTopic}

EventsUpTo(n) == [reservation  : Reservations,
                  action       : Actions,
                  cacheCleared : BOOLEAN,
                  retryCount   : 0..n]

\* An event whose retries are exhausted is only ever found in the DLQ.
PendingEvents  == EventsUpTo(MaxRetries - 1)
RetryMessages  == [topic : {ReleaseCapacityTopic, ConfirmCapacityTopic}, event : PendingEvents]
FailedMessages == [topic : {CapacityFailedTopic}, event : EventsUpTo(MaxRetries)]
Notices        == [topic : NoticeTopics, reservation : Reservations]

Messages        == RetryMessages \cup FailedMessages \cup Notices
InboundMessages == {m \in Messages : m.topic \in InboundTopics}

Notice(t, r) == [topic |-> t, reservation |-> r]

ReservationOf(m) == IF m.topic \in CapacityTopics THEN m.event.reservation
                                                  ELSE m.reservation

\* The capacity event a handler starts from, before any retry.
FreshEvent(r, a, cleared) ==
    [reservation |-> r, action |-> a, cacheCleared |-> cleared, retryCount |-> 0]

-----------------------------------------------------------------------------
VARIABLES
    idKey,      \* reservation:{id} in Redis, whose TTL is the reservation's
    dataKey,    \* reservation_data:{id} in Redis, whose deletion is the dedup token
    applied,    \* <<reservation, action>> pairs the vessel service has applied
    outbox,     \* rows of the Postgres outbox with published_at IS NULL
    published,  \* the notices ever produced to Kafka, for every service to see
    toConsume,  \* messages this consumer group has yet to get through
    worker,     \* what each consuming loop is doing
    cleanup,    \* what the cleanup job is doing
    faults,     \* how many failures have been injected
    \* History variables: what the properties need to know of the past.
    lapsed,     \* reservations whose data key a release deleted, the lapse having won
    alerted     \* reservations an exhausted release has raised an alert for

cacheVars   == <<idKey, dataKey>>
kafkaVars   == <<published, toConsume>>
historyVars == <<lapsed, alerted>>
vars == <<idKey, dataKey, applied, outbox, published, toConsume, worker, cleanup, faults,
          lapsed, alerted>>

IdleWorker == [pc |-> "idle"]
BusyPcs    == {"deleteData", "vessel", "retry", "deleteID", "confirmed", "failed", "commit"}
BusyWorker == [pc : BusyPcs, msg : InboundMessages, event : PendingEvents]

IdleCleanup == [pc |-> "idle", activeIDs |-> {}, expired |-> {}]

TypeOK ==
    /\ idKey \in [Reservations -> {"none", "live", "gone"}]
    /\ dataKey \in [Reservations -> {"none", "live", "gone"}]
    /\ applied \subseteq Reservations \X Actions
    /\ outbox \subseteq Messages
    /\ published \subseteq Notices
    /\ toConsume \subseteq InboundMessages
    /\ worker \in [Workers -> {IdleWorker} \cup BusyWorker]
    /\ cleanup \in [pc : {"idle", "scanData", "publish"},
                    activeIDs : SUBSET Reservations,
                    expired : SUBSET Reservations]
    /\ faults \in 0..MaxFaults
    /\ lapsed \subseteq Reservations
    /\ alerted \subseteq Reservations

Init ==
    /\ idKey = [r \in Reservations |-> "none"]
    /\ dataKey = [r \in Reservations |-> "none"]
    /\ applied = {}
    /\ outbox = {}
    /\ published = {}
    /\ toConsume = {}
    /\ worker = [w \in Workers |-> IdleWorker]
    /\ cleanup = IdleCleanup
    /\ faults = 0
    /\ lapsed = {}
    /\ alerted = {}

Fault(kind) == kind \in Faults /\ faults < MaxFaults /\ faults' = faults + 1
NoFault     == UNCHANGED faults

-----------------------------------------------------------------------------
(* The outbox: CreateEvent swallows the unique violation of the index on   *)
(* (key, topic) WHERE published_at IS NULL.                                *)

Key(m) == IF m.topic \in CapacityTopics
          THEN <<m.event.reservation, m.event.retryCount>>
          ELSE m.reservation

\* Mutant: the unique index covers published rows too.
Scheduled_EverPublished(m) == m \in outbox \cup published

Scheduled(m) == \E row \in outbox : row.topic = m.topic /\ Key(row) = Key(m)

Insert(m)      == outbox' = IF Scheduled(m) THEN outbox ELSE outbox \cup {m}
CreateEvent(m) == Insert(m) /\ NoFault

\* An INSERT that returns an error may have been committed all the same.
CreateEventFails(m) ==
    /\ Fault("postgresDown")
    /\ Insert(m) \/ outbox' = outbox

\* The publisher produces a pending row and stamps published_at; when the
\* stamp fails the row stays pending and is produced again later.
PublishOutbox(row) ==
    /\ row \in outbox
    /\ published' = published \cup ({row} \cap Notices)
    /\ toConsume' = IF row.topic \in InboundTopics THEN toConsume \cup {row} ELSE toConsume
    /\ \/ outbox' = outbox \ {row} /\ NoFault
       \/ outbox' = outbox /\ Fault("redelivery")
    /\ UNCHANGED <<cacheVars, applied, worker, cleanup, historyVars>>

-----------------------------------------------------------------------------
(* The cache around the manager: ReserveCapacity stores the two keys with  *)
(* two SETs, the id key expires and a live one may be refreshed for ever.  *)

StoreID(r) ==
    /\ idKey[r] = "none"
    /\ idKey' = [idKey EXCEPT ![r] = "live"]
    /\ UNCHANGED <<dataKey, applied, outbox, kafkaVars, worker, cleanup, faults, historyVars>>

StoreData(r) ==
    /\ idKey[r] # "none" /\ dataKey[r] = "none"
    /\ dataKey' = [dataKey EXCEPT ![r] = "live"]
    /\ UNCHANGED <<idKey, applied, outbox, kafkaVars, worker, cleanup, faults, historyVars>>

ExpireID(r) ==
    /\ idKey[r] = "live"
    /\ idKey' = [idKey EXCEPT ![r] = "gone"]
    /\ UNCHANGED <<dataKey, applied, outbox, kafkaVars, worker, cleanup, faults, historyVars>>

ExpireData(r) ==
    /\ Fault("dataLapse")
    /\ dataKey[r] = "live"
    /\ dataKey' = [dataKey EXCEPT ![r] = "gone"]
    /\ UNCHANGED <<idKey, applied, outbox, kafkaVars, worker, cleanup, historyVars>>

\* The consignment service, having captured the payment of a stored
\* reservation, publishes the event that starts the confirmation.
PaymentCaptured(r) ==
    LET m == Notice(PaymentCapturedTopic, r) IN
    /\ dataKey[r] # "none"
    /\ \/ m \notin published /\ NoFault
       \/ m \in published /\ Fault("redelivery")
    /\ published' = published \cup {m}
    /\ toConsume' = toConsume \cup {m}
    /\ UNCHANGED <<cacheVars, applied, outbox, worker, cleanup, historyVars>>

-----------------------------------------------------------------------------
(* The event handlers.  A worker takes a message, walks through the calls  *)
(* of its handler and commits the offset.                                  *)

Event(w)       == worker[w].event
Goto(w, label) == worker' = [worker EXCEPT ![w].pc = label]

\* processCapacityEvent returns nil: the DLQ handler goes on to notify the
\* consignment service, the other handlers are done.
HandlingDLQ(w) == worker[w].msg.topic = CapacityFailedTopic

\* Mutant: the DLQ handler stops after the release.
Return_NeverNotifies(w) == Goto(w, "commit")

Return(w)      == Goto(w, IF HandlingDLQ(w) THEN "failed" ELSE "commit")

\* Mutant: the DLQ handler processes the failed event itself.
HandlerEvent_CopiesAction(m) ==
    CASE m.topic = ReservationExpiredTopic -> FreshEvent(m.reservation, "RELEASE", FALSE)
      [] m.topic = PaymentCapturedTopic    -> FreshEvent(m.reservation, "CONFIRM", FALSE)
      [] m.topic = CapacityFailedTopic     ->
            FreshEvent(m.event.reservation, m.event.action, m.event.cacheCleared)
      [] OTHER                             -> m.event

\* The capacity event a handler passes to processCapacityEvent.
HandlerEvent(m) ==
    CASE m.topic = ReservationExpiredTopic -> FreshEvent(m.reservation, "RELEASE", FALSE)
      [] m.topic = PaymentCapturedTopic    -> FreshEvent(m.reservation, "CONFIRM", FALSE)
      [] m.topic = CapacityFailedTopic     ->
            FreshEvent(m.event.reservation, "RELEASE", m.event.cacheCleared)
      [] OTHER                             -> m.event

\* An exhausted release only raises an alert.
AlertOnly(m) == m.topic = CapacityFailedTopic /\ m.event.action = "RELEASE"

Receive(w, m) ==
    /\ worker[w] = IdleWorker
    /\ m \in toConsume
    /\ toConsume' = toConsume \ {m}
    /\ worker' = [worker EXCEPT ![w] =
           [pc    |-> IF AlertOnly(m) THEN "commit"
                      ELSE IF HandlerEvent(m).cacheCleared THEN "vessel" ELSE "deleteData",
            msg   |-> m,
            event |-> HandlerEvent(m)]]
    /\ alerted' = IF AlertOnly(m) THEN alerted \cup {ReservationOf(m)} ELSE alerted
    /\ UNCHANGED <<cacheVars, applied, outbox, published, cleanup, faults, lapsed>>

\* A release that is not the DLQ handler's follows from a lapse.
TakesOverLapsed(w) == ~ HandlingDLQ(w) /\ Event(w).action = "RELEASE"

\* Mutant: the result of the deletion is not looked at.
DeleteData_IgnoresDuplicate(w) ==
    LET r == Event(w).reservation IN
    /\ worker[w].pc = "deleteData"
    /\ dataKey' = [dataKey EXCEPT ![r] = IF @ = "live" THEN "gone" ELSE @]
    /\ worker' = [worker EXCEPT ![w].pc = "vessel", ![w].event.cacheCleared = TRUE]
    /\ lapsed' = IF TakesOverLapsed(w) THEN lapsed \cup {r} ELSE lapsed
    /\ UNCHANGED <<idKey, applied, outbox, kafkaVars, cleanup, faults, alerted>>

\* DEL reservation_data:{id}.  Whoever deletes the key owns the event; a key
\* already gone means a duplicate; an error schedules a retry.
DeleteData(w) ==
    LET r == Event(w).reservation
        Delete == dataKey' = [dataKey EXCEPT ![r] = IF @ = "live" THEN "gone" ELSE @]
    IN
    /\ worker[w].pc = "deleteData"
    /\ \/ /\ dataKey[r] = "live"
          /\ Delete
          /\ worker' = [worker EXCEPT ![w].pc = "vessel", ![w].event.cacheCleared = TRUE]
          /\ lapsed' = IF TakesOverLapsed(w) THEN lapsed \cup {r} ELSE lapsed
          /\ NoFault
       \/ /\ dataKey[r] # "live"
          /\ UNCHANGED <<dataKey, lapsed>>
          /\ Return(w)
          /\ NoFault
       \/ /\ Fault("redisDown")
          /\ UNCHANGED <<dataKey, lapsed>>
          /\ Goto(w, "retry")
       \/ /\ Fault("redisReplyLost")
          /\ Delete
          /\ UNCHANGED lapsed
          /\ Goto(w, "retry")
    /\ UNCHANGED <<idKey, applied, outbox, kafkaVars, cleanup, alerted>>

\* Mutant: the error of the vessel call is not looked at.
CallVessel_IgnoresError(w) ==
    LET op == <<Event(w).reservation, Event(w).action>> IN
    /\ worker[w].pc = "vessel"
    /\ \/ applied' = applied \cup {op} /\ NoFault
       \/ UNCHANGED applied /\ Fault("vesselDown")
    /\ Goto(w, "deleteID")
    /\ UNCHANGED <<cacheVars, outbox, kafkaVars, cleanup, historyVars>>

\* ConfirmCapacity or ReleaseCapacity with its MaxRetries further attempts,
\* as one step: the vessel service applies an operation once, so the attempts
\* differ only in whether one was applied and whether the last one succeeded.
CallVessel(w) ==
    LET op == <<Event(w).reservation, Event(w).action>> IN
    /\ worker[w].pc = "vessel"
    /\ \/ applied' = applied \cup {op} /\ Goto(w, "deleteID") /\ NoFault
       \/ UNCHANGED applied /\ Goto(w, "retry") /\ Fault("vesselDown")
       \/ applied' = applied \cup {op} /\ Goto(w, "retry") /\ Fault("vesselReplyLost")
    /\ UNCHANGED <<cacheVars, outbox, kafkaVars, cleanup, historyVars>>

\* Mutant: one retry too many.
RetryTopic_OffByOne(e) ==
    IF e.retryCount > MaxRetries THEN CapacityFailedTopic
    ELSE IF e.action = "CONFIRM" THEN ConfirmCapacityTopic ELSE ReleaseCapacityTopic

RetryTopic(e) ==
    IF e.retryCount >= MaxRetries THEN CapacityFailedTopic
    ELSE IF e.action = "CONFIRM" THEN ConfirmCapacityTopic ELSE ReleaseCapacityTopic

\* Mutant: the retry does not carry cache_cleared.
RetryMessage_ForgetsCacheCleared(event) ==
    LET e == [event EXCEPT !.retryCount = @ + 1, !.cacheCleared = FALSE]
    IN [topic |-> RetryTopic(e), event |-> e]

RetryMessage(event) ==
    LET e == [event EXCEPT !.retryCount = @ + 1] IN [topic |-> RetryTopic(e), event |-> e]

\* A handler that returns an error leaves its offset uncommitted: the message
\* comes back after a restart or a rebalance, unless the commit of a later
\* offset of the partition has passed over it by then.
HandlerError(w) ==
    /\ toConsume' \in {toConsume, toConsume \cup {worker[w].msg}}
    /\ worker' = [worker EXCEPT ![w] = IdleWorker]

\* publishRetryEvent.  The DLQ handler only logs the error.
ScheduleRetry(w) ==
    LET m == RetryMessage(Event(w)) IN
    /\ worker[w].pc = "retry"
    /\ \/ CreateEvent(m) /\ Return(w) /\ UNCHANGED toConsume
       \/ /\ CreateEventFails(m)
          /\ IF HandlingDLQ(w) THEN Goto(w, "failed") /\ UNCHANGED toConsume
                               ELSE HandlerError(w)
    /\ UNCHANGED <<cacheVars, applied, published, cleanup, historyVars>>

\* DEL reservation:{id}, best effort.
DeleteID(w) ==
    LET r == Event(w).reservation IN
    /\ worker[w].pc = "deleteID"
    /\ \/ idKey' = [idKey EXCEPT ![r] = IF @ = "live" THEN "gone" ELSE @] /\ NoFault
       \/ UNCHANGED idKey /\ Fault("redisDown")
    /\ IF Event(w).action = "CONFIRM" THEN Goto(w, "confirmed") ELSE Return(w)
    /\ UNCHANGED <<dataKey, applied, outbox, kafkaVars, cleanup, historyVars>>

\* An event that cannot be scheduled here is only logged.
PublishReservationConfirmed(w) ==
    LET m == Notice(ReservationConfirmedTopic, Event(w).reservation) IN
    /\ worker[w].pc = "confirmed"
    /\ CreateEvent(m) \/ CreateEventFails(m)
    /\ Return(w)
    /\ UNCHANGED <<cacheVars, applied, kafkaVars, cleanup, historyVars>>

PublishConfirmationFailed(w) ==
    LET m == Notice(ConsignmentConfirmationFailedTopic, Event(w).reservation) IN
    /\ worker[w].pc = "failed"
    /\ \/ CreateEvent(m) /\ Goto(w, "commit") /\ UNCHANGED toConsume
       \/ CreateEventFails(m) /\ HandlerError(w)
    /\ UNCHANGED <<cacheVars, applied, published, cleanup, historyVars>>

\* The offset is committed; when the commit is lost the message comes back.
CommitMessage(w) ==
    /\ worker[w].pc = "commit"
    /\ worker' = [worker EXCEPT ![w] = IdleWorker]
    /\ \/ UNCHANGED toConsume /\ NoFault
       \/ toConsume' = toConsume \cup {worker[w].msg} /\ Fault("redelivery")
    /\ UNCHANGED <<cacheVars, applied, outbox, published, cleanup, historyVars>>

\* The instance dies in the middle of a handler; what it had not written to a
\* store is gone, and its uncommitted message is delivered again.
Crash(w) ==
    /\ Fault("crash")
    /\ worker[w] # IdleWorker
    /\ worker' = [worker EXCEPT ![w] = IdleWorker]
    /\ toConsume' = toConsume \cup {worker[w].msg}
    /\ UNCHANGED <<cacheVars, applied, outbox, published, cleanup, historyVars>>

WorkerStep(w) ==
    \/ \E m \in toConsume : Receive(w, m)
    \/ DeleteData(w)
    \/ CallVessel(w)
    \/ ScheduleRetry(w)
    \/ DeleteID(w)
    \/ PublishReservationConfirmed(w)
    \/ PublishConfirmationFailed(w)
    \/ CommitMessage(w)

-----------------------------------------------------------------------------
(* The cleanup job: GetExpired scans the id keys and then the data keys,   *)
(* and every data entry without an id is reported as expired.              *)

\* A run that finds the id of every data entry reports nothing.
ScanIDs ==
    /\ cleanup.pc = "idle"
    /\ \E r \in Reservations : idKey[r] # "live" /\ dataKey[r] # "gone"
    /\ cleanup' = [cleanup EXCEPT !.pc = "scanData",
                                  !.activeIDs = {r \in Reservations : idKey[r] = "live"}]
    /\ UNCHANGED <<cacheVars, applied, outbox, kafkaVars, worker, faults, historyVars>>

ScanData ==
    LET expired == {r \in Reservations : dataKey[r] = "live"} \ cleanup.activeIDs IN
    /\ cleanup.pc = "scanData"
    /\ cleanup' = [pc |-> IF expired = {} THEN "idle" ELSE "publish",
                   activeIDs |-> {}, expired |-> expired]
    /\ UNCHANGED <<cacheVars, applied, outbox, kafkaVars, worker, faults, historyVars>>

\* An event that cannot be scheduled is only logged: the next run finds it again.
PublishReservationExpired(r) ==
    LET m == Notice(ReservationExpiredTopic, r)
        left == cleanup.expired \ {r} IN
    /\ cleanup.pc = "publish"
    /\ r \in cleanup.expired
    /\ CreateEvent(m) \/ CreateEventFails(m)
    /\ cleanup' = [cleanup EXCEPT !.pc = IF left = {} THEN "idle" ELSE @, !.expired = left]
    /\ UNCHANGED <<cacheVars, applied, kafkaVars, worker, historyVars>>

\* A scan that fails, or a crash, abandons the run.
CleanupFails ==
    /\ Fault("redisDown") \/ Fault("crash")
    /\ cleanup.pc # "idle"
    /\ cleanup' = IdleCleanup
    /\ UNCHANGED <<cacheVars, applied, outbox, kafkaVars, worker, historyVars>>

CleanupStep == ScanIDs \/ ScanData \/ \E r \in Reservations : PublishReservationExpired(r)

-----------------------------------------------------------------------------
Environment(r) ==
    StoreID(r) \/ StoreData(r) \/ ExpireID(r) \/ ExpireData(r) \/ PaymentCaptured(r)

Next ==
    \/ \E w \in Workers : WorkerStep(w) \/ Crash(w)
    \/ \E row \in outbox : PublishOutbox(row)
    \/ CleanupStep \/ CleanupFails
    \/ \E r \in Reservations : Environment(r)

Spec == Init /\ [][Next]_vars

\* The consuming loop, the outbox ticker and the cleanup ticker run for ever;
\* Kafka is reachable again and again, so a pending row is produced in the end.
Fairness ==
    /\ \A w \in Workers : WF_vars(WorkerStep(w))
    /\ WF_vars(\E row \in outbox : PublishOutbox(row))
    /\ WF_vars(CleanupStep)

FairSpec == Spec /\ Fairness

-----------------------------------------------------------------------------
(* Properties *)

Reported(t, r) == Notice(t, r) \in outbox \cup published

\* A reservation is reported confirmed only when the vessel service has moved
\* its capacity from reserved to used (processCapacityEvent publishes after the
\* vessel call), whatever fails, crashes or is delivered twice.
ConfirmedImpliesVesselConfirm ==
    \A r \in Reservations :
        Reported(ReservationConfirmedTopic, r) => <<r, "CONFIRM">> \in applied

\* A reservation is never both confirmed and released on the vessel: each of
\* the two subtracts its weight from reserved_weight.  DeleteData's result is
\* what keeps expiry, confirmation and their duplicates apart.
NoConflictingOps ==
    \A r \in Reservations :
        ~ (<<r, "CONFIRM">> \in applied /\ <<r, "RELEASE">> \in applied)

\* The consignment service is never told both that the capacity is confirmed
\* and that its confirmation failed: the second makes it refund and cancel.
NotBothOutcomes ==
    \A r \in Reservations :
        ~ (/\ Reported(ReservationConfirmedTopic, r)
           /\ Reported(ConsignmentConfirmationFailedTopic, r))

\* Nothing is left that could still move reservation r.
Quiet(r) ==
    /\ \A m \in outbox \cup toConsume : ReservationOf(m) # r
    /\ \A w \in Workers : worker[w] # IdleWorker => ReservationOf(worker[w].msg) # r

\* What answers a captured payment.  The consignment service drops a notice of
\* the lapse once it has captured (handleExpiredReservationEvent looks for
\* pending only), so such a notice is no answer.
AnswerTopics == {ReservationConfirmedTopic, ConsignmentConfirmationFailedTopic}

\* A captured payment is never forgotten: once every event of the reservation
\* has been handled, the consignment service has been told that the capacity is
\* confirmed or that it is to refund.  Two exceptions: a release that followed
\* the lapse has deleted the data key first, which the documentation describes
\* as stuck; or such a release was given up with an alert.  The second is the
\* unique index of the outbox swallowing one exhausted event for the other.
CapturedNeverForgotten ==
    \A r \in Reservations :
        Notice(PaymentCapturedTopic, r) \in published /\ Quiet(r) =>
            \/ \E t \in AnswerTopics : Reported(t, r)
            \/ r \in lapsed \cup alerted

\* What ReservationOutcome promises, read off the vessel's record of applied
\* operations and the notices scheduled for the consignment service.
OutcomeOf(r) ==
    IF <<r, "RELEASE">> \in applied THEN "released"
    ELSE IF <<r, "CONFIRM">> \in applied THEN "confirmed" ELSE "held"

ToldOf(r) ==
    (IF Reported(ReservationConfirmedTopic, r) THEN {"confirmed"} ELSE {})
    \cup (IF Reported(ConsignmentConfirmationFailedTopic, r) THEN {"failed"} ELSE {})

Outcome == INSTANCE ReservationOutcome WITH
    outcome <- [r \in Reservations |-> OutcomeOf(r)],
    told    <- [r \in Reservations |-> ToldOf(r)]

\* The manager implements ReservationOutcome.
ImplementsOutcome == Outcome!Spec

\* Retries, backoffs and the DLQ end: the consignment service hears whether a
\* captured payment is to be kept or refunded, with the same two exceptions.
CapturedIsAnswered ==
    \A r \in Reservations :
        Notice(PaymentCapturedTopic, r) \in published ~>
            \/ \E t \in AnswerTopics : Notice(t, r) \in published
            \/ r \in lapsed \cup alerted

\* A lapsed reservation is taken over in the end: the cleanup job reports it
\* again and again until some handler has deleted its data.
LapsedIsTakenOver ==
    \A r \in Reservations :
        idKey[r] = "gone" /\ dataKey[r] = "live" ~> dataKey[r] = "gone"

-----------------------------------------------------------------------------
(* Inductive invariants, for the proofs *)

\* ConfirmedImpliesVesselConfirm, from the vessel call on.
ConfirmInv ==
    /\ ConfirmedImpliesVesselConfirm
    /\ \A w \in Workers : worker[w].pc \in {"deleteID", "confirmed"} =>
           <<Event(w).reservation, Event(w).action>> \in applied
    /\ \A w \in Workers : worker[w].pc = "confirmed" => Event(w).action = "CONFIRM"

\* No message claims the cache to be cleared already.
Uncleared(m) == m.topic \in CapacityTopics => ~ m.event.cacheCleared

\* The data key is a token: at any time it is in Redis, with the one worker
\* about to call the vessel, or spent on the one operation applied.
TokenInv ==
    /\ \A m \in outbox \cup toConsume : Uncleared(m)
    /\ \A w \in Workers : worker[w].pc # "idle" => Uncleared(worker[w].msg)
    /\ \A w \in Workers : worker[w].pc \in {"deleteData", "retry"} => ~ Event(w).cacheCleared
    /\ \A w \in Workers : worker[w].pc = "vessel" =>
           /\ dataKey[Event(w).reservation] = "gone"
           /\ \A a \in Actions : <<Event(w).reservation, a>> \notin applied
    /\ \A v, w \in Workers :
           /\ v # w
           /\ worker[v].pc = "vessel"
           /\ worker[w].pc = "vessel"
           => Event(v).reservation # Event(w).reservation
    /\ \A r \in Reservations, a \in Actions : <<r, a>> \in applied => dataKey[r] = "gone"
    /\ NoConflictingOps
=============================================================================
