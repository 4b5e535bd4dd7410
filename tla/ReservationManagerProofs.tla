---------------------- MODULE ReservationManagerProofs ----------------------
(***************************************************************************)
(* Proofs about ReservationManager, for any number of reservations,        *)
(* instances, retries and failures: its types, that only confirmed         *)
(* capacity is reported confirmed, that the data key is a token, that one  *)
(* outcome is told (the steps of ReservationOutcome), and that a captured  *)
(* payment is not forgotten.  Which failures each of them admits is its    *)
(* assumption: ConfirmationIsReal admits all.                              *)
(***************************************************************************)
EXTENDS ReservationManager, TLAPS

WorkerTypeOK == worker \in [Workers -> {IdleWorker} \cup BusyWorker]

(* A worker that is inside a handler holds a message and an event. *)
LEMMA BusyType ==
    ASSUME TypeOK, NEW w \in Workers, worker[w].pc # "idle"
    PROVE  /\ worker[w] \in BusyWorker
           /\ worker[w].pc \in BusyPcs
           /\ worker[w].msg \in InboundMessages
           /\ Event(w) \in PendingEvents
<1>1. worker[w] \in {IdleWorker} \cup BusyWorker
  BY DEF TypeOK
<1>2. worker[w] # IdleWorker
  BY DEF IdleWorker
<1>3. worker[w] \in BusyWorker
  BY <1>1, <1>2
<1>4. QED
  BY <1>3 DEF BusyWorker, Event

(* Moving a busy worker to another call keeps it well typed. *)
LEMMA GotoType ==
    ASSUME TypeOK, NEW w \in Workers, worker[w].pc # "idle",
           NEW label \in BusyPcs, Goto(w, label)
    PROVE  WorkerTypeOK'
<1>1. worker[w] \in BusyWorker
  BY BusyType
<1>2. [worker[w] EXCEPT !.pc = label] \in BusyWorker
  BY <1>1 DEF BusyWorker
<1>3. worker' = [worker EXCEPT ![w] = [worker[w] EXCEPT !.pc = label]]
  BY DEF Goto
<1>4. QED
  BY <1>2, <1>3 DEF TypeOK, WorkerTypeOK

LEMMA ReturnType ==
    ASSUME TypeOK, NEW w \in Workers, worker[w].pc # "idle", Return(w)
    PROVE  WorkerTypeOK'
<1>1. PICK label \in BusyPcs : Goto(w, label)
  BY DEF Return, BusyPcs
<1>2. QED
  BY <1>1, GotoType

(* A worker that leaves its handler. *)
LEMMA IdleType ==
    ASSUME TypeOK, NEW w \in Workers, worker' = [worker EXCEPT ![w] = IdleWorker]
    PROVE  WorkerTypeOK'
BY DEF TypeOK, WorkerTypeOK

(* The events handlers start from are well typed and have retries left. *)
LEMMA HandlerEventType ==
    ASSUME NEW m \in InboundMessages
    PROVE  HandlerEvent(m) \in PendingEvents
<1>0. 0 \in 0..(MaxRetries - 1)
  BY RetriesAssumption
<1>1. CASE m \in RetryMessages
  <2>1. m.event \in PendingEvents /\ m.topic \in {ReleaseCapacityTopic, ConfirmCapacityTopic}
    BY <1>1 DEF RetryMessages
  <2>2. HandlerEvent(m) = m.event
    BY <2>1 DEF HandlerEvent, ReleaseCapacityTopic, ConfirmCapacityTopic, CapacityFailedTopic,
                ReservationExpiredTopic, PaymentCapturedTopic
  <2>3. QED
    BY <2>1, <2>2
<1>2. CASE m \in FailedMessages
  <2>1. m.event \in EventsUpTo(MaxRetries) /\ m.topic = CapacityFailedTopic
    BY <1>2 DEF FailedMessages
  <2>2. HandlerEvent(m) = FreshEvent(m.event.reservation, "RELEASE", m.event.cacheCleared)
    BY <2>1 DEF HandlerEvent, CapacityFailedTopic, ReservationExpiredTopic, PaymentCapturedTopic
  <2>3. QED
    BY <1>0, <2>1, <2>2 DEF FreshEvent, EventsUpTo, PendingEvents, Actions
<1>3. CASE m \in Notices
  <2>1. m.reservation \in Reservations /\ m.topic \in NoticeTopics
    BY <1>3 DEF Notices
  <2>2. m.topic \in {PaymentCapturedTopic, ReservationExpiredTopic}
    BY <2>1 DEF InboundMessages, InboundTopics, CapacityTopics, NoticeTopics,
                ReleaseCapacityTopic, ConfirmCapacityTopic, CapacityFailedTopic,
                ConsignmentConfirmationFailedTopic, ReservationConfirmedTopic,
                ReservationExpiredTopic, PaymentCapturedTopic
  <2>3. CASE m.topic = PaymentCapturedTopic
    <3>1. HandlerEvent(m) = FreshEvent(m.reservation, "CONFIRM", FALSE)
      BY <2>3 DEF HandlerEvent, CapacityFailedTopic, ReservationExpiredTopic, PaymentCapturedTopic
    <3>2. QED
      BY <1>0, <2>1, <3>1 DEF FreshEvent, EventsUpTo, PendingEvents, Actions
  <2>4. CASE m.topic = ReservationExpiredTopic
    <3>1. HandlerEvent(m) = FreshEvent(m.reservation, "RELEASE", FALSE)
      BY <2>4 DEF HandlerEvent, CapacityFailedTopic, ReservationExpiredTopic, PaymentCapturedTopic
    <3>2. QED
      BY <1>0, <2>1, <3>1 DEF FreshEvent, EventsUpTo, PendingEvents, Actions
  <2>5. QED
    BY <2>2, <2>3, <2>4
<1>4. QED
  BY <1>1, <1>2, <1>3 DEF InboundMessages, Messages

(* A retry is well typed and is one of the inbound messages. *)
LEMMA RetryMessageType ==
    ASSUME NEW e \in PendingEvents
    PROVE  /\ RetryMessage(e) \in RetryMessages \cup FailedMessages
           /\ RetryMessage(e).topic \in CapacityTopics
           /\ RetryMessage(e).event = [e EXCEPT !.retryCount = @ + 1]
<1> DEFINE n == [e EXCEPT !.retryCount = @ + 1]
<1>1. e.retryCount \in 0..(MaxRetries - 1)
  BY DEF PendingEvents, EventsUpTo
<1>2. n.retryCount = e.retryCount + 1
  BY DEF PendingEvents, EventsUpTo
<1>3. RetryMessage(e) = [topic |-> RetryTopic(n), event |-> n]
  BY DEF RetryMessage
<1>4. CASE n.retryCount >= MaxRetries
  <2>1. n \in EventsUpTo(MaxRetries)
    BY <1>1, RetriesAssumption DEF PendingEvents, EventsUpTo
  <2>2. RetryTopic(n) = CapacityFailedTopic
    BY <1>4 DEF RetryTopic
  <2>3. QED
    BY <1>3, <2>1, <2>2 DEF FailedMessages, CapacityTopics
<1>5. CASE ~ (n.retryCount >= MaxRetries)
  <2>1. n \in PendingEvents
    BY <1>1, <1>2, <1>5, RetriesAssumption DEF PendingEvents, EventsUpTo
  <2>2. RetryTopic(n) \in {ReleaseCapacityTopic, ConfirmCapacityTopic}
    BY <1>5 DEF RetryTopic
  <2>3. QED
    BY <1>3, <2>1, <2>2 DEF RetryMessages, CapacityTopics
<1>6. QED
  BY <1>4, <1>5

LEMMA NoticeType ==
    ASSUME NEW t \in NoticeTopics, NEW r \in Reservations
    PROVE  Notice(t, r) \in Notices /\ Notice(t, r).topic = t
BY DEF Notice, Notices

LEMMA InsertType ==
    ASSUME TypeOK, NEW m \in Messages, Insert(m)
    PROVE  outbox' \subseteq Messages
BY DEF TypeOK, Insert

LEMMA CreateEventType ==
    ASSUME TypeOK, NEW m \in Messages, CreateEvent(m) \/ CreateEventFails(m)
    PROVE  outbox' \subseteq Messages /\ faults' \in 0..MaxFaults
BY InsertType, FaultsAssumption DEF TypeOK, CreateEvent, CreateEventFails, NoFault, Fault

LEMMA FaultType ==
    ASSUME TypeOK, NoFault \/ \E k \in FaultKinds : Fault(k)
    PROVE  faults' \in 0..MaxFaults
BY FaultsAssumption DEF TypeOK, NoFault, Fault

-----------------------------------------------------------------------------
(* One lemma for each call of a handler: it preserves the types. *)

LEMMA ReceiveType ==
    ASSUME TypeOK, NEW w \in Workers, NEW m \in toConsume, Receive(w, m)
    PROVE  TypeOK'
<1>1. m \in InboundMessages /\ HandlerEvent(m) \in PendingEvents
  BY HandlerEventType DEF TypeOK
<1>2. PICK label \in BusyPcs :
          worker' = [worker EXCEPT ![w] =
                        [pc |-> label, msg |-> m, event |-> HandlerEvent(m)]]
  BY DEF Receive, BusyPcs
<1>3. WorkerTypeOK'
  BY <1>1, <1>2 DEF TypeOK, WorkerTypeOK, BusyWorker
<1>4. alerted' \subseteq Reservations
  <2>1. ASSUME AlertOnly(m) PROVE ReservationOf(m) \in Reservations
    <3>1. m.topic = CapacityFailedTopic /\ m \notin Notices /\ m \in Messages
      BY <2>1, <1>1 DEF AlertOnly, InboundMessages, Notices, NoticeTopics, CapacityFailedTopic,
         PaymentCapturedTopic, ReservationExpiredTopic, ConsignmentConfirmationFailedTopic,
         ReservationConfirmedTopic
    <3>2. m.event.reservation \in Reservations
      BY <3>1 DEF Messages, RetryMessages, FailedMessages, PendingEvents, EventsUpTo
    <3>3. QED
      BY <3>1, <3>2 DEF ReservationOf, CapacityTopics
  <2>2. QED
    BY <2>1 DEF Receive, TypeOK
<1>5. QED
  BY <1>3, <1>4 DEF Receive, TypeOK, WorkerTypeOK, cacheVars

LEMMA DeleteDataType ==
    ASSUME TypeOK, NEW w \in Workers, DeleteData(w)
    PROVE  TypeOK'
<1>1. worker[w].pc # "idle"
  BY DEF DeleteData
<1>2. /\ worker[w] \in BusyWorker
      /\ Event(w) \in PendingEvents
  BY <1>1, BusyType
<1>3. dataKey' \in [Reservations -> {"none", "live", "gone"}]
  BY DEF DeleteData, TypeOK
<1>4. faults' \in 0..MaxFaults
  BY FaultType DEF DeleteData, FaultKinds
<1>5. WorkerTypeOK'
  <2>1. CASE worker' = [worker EXCEPT ![w].pc = "vessel", ![w].event.cacheCleared = TRUE]
    <3> DEFINE b == [worker[w] EXCEPT !.pc = "vessel", !.event.cacheCleared = TRUE]
    <3>1. b \in BusyWorker
      BY <1>2 DEF BusyWorker, BusyPcs, PendingEvents, EventsUpTo
    <3>2. worker' = [worker EXCEPT ![w] = b]
      BY <2>1
    <3>3. QED
      BY <3>1, <3>2 DEF TypeOK, WorkerTypeOK
  <2>2. CASE Return(w)
    BY <1>1, <2>2, ReturnType
  <2>3. CASE Goto(w, "retry")
    BY <1>1, <2>3, GotoType DEF BusyPcs
  <2>4. QED
    BY <2>1, <2>2, <2>3 DEF DeleteData
<1>6. lapsed' \subseteq Reservations
  BY <1>2 DEF DeleteData, TypeOK, PendingEvents, EventsUpTo
<1>7. QED
  BY <1>3, <1>4, <1>5, <1>6 DEF DeleteData, TypeOK, WorkerTypeOK, kafkaVars

LEMMA CallVesselType ==
    ASSUME TypeOK, NEW w \in Workers, CallVessel(w)
    PROVE  TypeOK'
<1>1. worker[w].pc # "idle"
  BY DEF CallVessel
<1>2. Event(w).reservation \in Reservations /\ Event(w).action \in Actions
  BY <1>1, BusyType DEF PendingEvents, EventsUpTo
<1>3. applied' \subseteq Reservations \X Actions
  BY <1>2 DEF CallVessel, TypeOK
<1>4. faults' \in 0..MaxFaults
  BY FaultType DEF CallVessel, FaultKinds
<1>5. PICK label \in BusyPcs : Goto(w, label)
  BY DEF CallVessel, BusyPcs
<1>6. WorkerTypeOK'
  BY <1>1, <1>5, GotoType
<1>7. QED
  BY <1>3, <1>4, <1>6 DEF CallVessel, TypeOK, WorkerTypeOK, cacheVars, kafkaVars, historyVars

LEMMA HandlerErrorType ==
    ASSUME TypeOK, NEW w \in Workers, worker[w].pc # "idle", HandlerError(w)
    PROVE  WorkerTypeOK' /\ toConsume' \subseteq InboundMessages
<1>1. WorkerTypeOK'
  BY IdleType DEF HandlerError
<1>2. toConsume' \subseteq InboundMessages
  BY BusyType DEF HandlerError, TypeOK
<1>3. QED
  BY <1>1, <1>2

LEMMA ScheduleRetryType ==
    ASSUME TypeOK, NEW w \in Workers, ScheduleRetry(w)
    PROVE  TypeOK'
<1> DEFINE m == RetryMessage(Event(w))
<1>1. worker[w].pc # "idle"
  BY DEF ScheduleRetry
<1>2. m \in Messages
  BY <1>1, BusyType, RetryMessageType DEF Messages
<1>3. CreateEvent(m) \/ CreateEventFails(m)
  BY DEF ScheduleRetry
<1>4. outbox' \subseteq Messages /\ faults' \in 0..MaxFaults
  BY <1>2, <1>3, CreateEventType
<1>5. WorkerTypeOK' /\ toConsume' \subseteq InboundMessages
  <2>1. CASE Return(w) /\ UNCHANGED toConsume
    BY <1>1, <2>1, ReturnType DEF TypeOK
  <2>2. CASE Goto(w, "failed") /\ UNCHANGED toConsume
    BY <1>1, <2>2, GotoType DEF TypeOK, BusyPcs
  <2>3. CASE HandlerError(w)
    BY <1>1, <2>3, HandlerErrorType
  <2>4. QED
    BY <2>1, <2>2, <2>3 DEF ScheduleRetry
<1>6. QED
  BY <1>4, <1>5 DEF ScheduleRetry, TypeOK, WorkerTypeOK, cacheVars, historyVars

LEMMA DeleteIDType ==
    ASSUME TypeOK, NEW w \in Workers, DeleteID(w)
    PROVE  TypeOK'
<1>1. worker[w].pc # "idle"
  BY DEF DeleteID
<1>2. idKey' \in [Reservations -> {"none", "live", "gone"}]
  BY DEF DeleteID, TypeOK
<1>3. faults' \in 0..MaxFaults
  BY FaultType DEF DeleteID, FaultKinds
<1>4. PICK label \in BusyPcs : Goto(w, label)
  BY DEF DeleteID, Return, BusyPcs
<1>5. WorkerTypeOK'
  BY <1>1, <1>4, GotoType
<1>6. QED
  BY <1>2, <1>3, <1>5 DEF DeleteID, TypeOK, WorkerTypeOK, kafkaVars, historyVars

LEMMA PublishReservationConfirmedType ==
    ASSUME TypeOK, NEW w \in Workers, PublishReservationConfirmed(w)
    PROVE  TypeOK'
<1> DEFINE m == Notice(ReservationConfirmedTopic, Event(w).reservation)
<1>1. worker[w].pc # "idle"
  BY DEF PublishReservationConfirmed
<1>2. m \in Messages
  BY <1>1, BusyType, NoticeType DEF Messages, NoticeTopics, PendingEvents, EventsUpTo
<1>3. outbox' \subseteq Messages /\ faults' \in 0..MaxFaults
  BY <1>2, CreateEventType DEF PublishReservationConfirmed
<1>4. WorkerTypeOK'
  BY <1>1, ReturnType DEF PublishReservationConfirmed
<1>5. QED
  BY <1>3, <1>4 DEF PublishReservationConfirmed, TypeOK, WorkerTypeOK, cacheVars, kafkaVars, historyVars

LEMMA PublishConfirmationFailedType ==
    ASSUME TypeOK, NEW w \in Workers, PublishConfirmationFailed(w)
    PROVE  TypeOK'
<1> DEFINE m == Notice(ConsignmentConfirmationFailedTopic, Event(w).reservation)
<1>1. worker[w].pc # "idle"
  BY DEF PublishConfirmationFailed
<1>2. m \in Messages
  BY <1>1, BusyType, NoticeType DEF Messages, NoticeTopics, PendingEvents, EventsUpTo
<1>3. outbox' \subseteq Messages /\ faults' \in 0..MaxFaults
  BY <1>2, CreateEventType DEF PublishConfirmationFailed
<1>4. WorkerTypeOK' /\ toConsume' \subseteq InboundMessages
  <2>1. CASE Goto(w, "commit") /\ UNCHANGED toConsume
    BY <1>1, <2>1, GotoType DEF TypeOK, BusyPcs
  <2>2. CASE HandlerError(w)
    BY <1>1, <2>2, HandlerErrorType
  <2>3. QED
    BY <2>1, <2>2 DEF PublishConfirmationFailed
<1>5. QED
  BY <1>3, <1>4 DEF PublishConfirmationFailed, TypeOK, WorkerTypeOK, cacheVars, historyVars

LEMMA CommitMessageType ==
    ASSUME TypeOK, NEW w \in Workers, CommitMessage(w)
    PROVE  TypeOK'
<1>1. worker[w].pc # "idle"
  BY DEF CommitMessage
<1>2. WorkerTypeOK'
  BY IdleType DEF CommitMessage
<1>3. toConsume' \subseteq InboundMessages
  BY <1>1, BusyType DEF CommitMessage, TypeOK
<1>4. faults' \in 0..MaxFaults
  BY FaultType DEF CommitMessage, FaultKinds
<1>5. QED
  BY <1>2, <1>3, <1>4 DEF CommitMessage, TypeOK, WorkerTypeOK, cacheVars, historyVars

LEMMA CrashType ==
    ASSUME TypeOK, NEW w \in Workers, Crash(w)
    PROVE  TypeOK'
<1>1. worker[w] \in BusyWorker
  BY DEF Crash, TypeOK
<1>2. toConsume' \subseteq InboundMessages
  BY <1>1 DEF Crash, TypeOK, BusyWorker
<1>3. WorkerTypeOK'
  BY IdleType DEF Crash
<1>4. faults' \in 0..MaxFaults
  BY FaultType DEF Crash, FaultKinds
<1>5. QED
  BY <1>2, <1>3, <1>4 DEF Crash, TypeOK, WorkerTypeOK, cacheVars, historyVars

-----------------------------------------------------------------------------
(* The outbox publisher, the cleanup job and the environment. *)

LEMMA PublishOutboxType ==
    ASSUME TypeOK, NEW row \in outbox, PublishOutbox(row)
    PROVE  TypeOK'
<1>1. row \in Messages
  BY DEF TypeOK
<1>2. published' \subseteq Notices
  BY DEF PublishOutbox, TypeOK
<1>3. toConsume' \subseteq InboundMessages
  BY <1>1 DEF PublishOutbox, TypeOK, InboundMessages
<1>4. outbox' \subseteq Messages
  BY DEF PublishOutbox, TypeOK
<1>5. faults' \in 0..MaxFaults
  BY FaultType DEF PublishOutbox, FaultKinds
<1>6. QED
  BY <1>2, <1>3, <1>4, <1>5 DEF PublishOutbox, TypeOK, cacheVars, historyVars

LEMMA CleanupType ==
    ASSUME TypeOK, CleanupStep \/ CleanupFails
    PROVE  TypeOK'
<1>1. CASE ScanIDs
  BY <1>1 DEF ScanIDs, TypeOK, cacheVars, kafkaVars, historyVars
<1>2. CASE ScanData
  BY <1>2 DEF ScanData, TypeOK, cacheVars, kafkaVars, historyVars
<1>3. CASE \E r \in Reservations : PublishReservationExpired(r)
  <2>1. PICK r \in Reservations : PublishReservationExpired(r)
    BY <1>3
  <2>2. Notice(ReservationExpiredTopic, r) \in Messages
    BY NoticeType DEF Messages, NoticeTopics
  <2>3. outbox' \subseteq Messages /\ faults' \in 0..MaxFaults
    BY <2>1, <2>2, CreateEventType DEF PublishReservationExpired
  <2>4. cleanup' \in [pc : {"idle", "scanData", "publish"},
                      activeIDs : SUBSET Reservations, expired : SUBSET Reservations]
    BY <2>1 DEF PublishReservationExpired, TypeOK
  <2>5. QED
    BY <2>1, <2>3, <2>4 DEF PublishReservationExpired, TypeOK, cacheVars, kafkaVars, historyVars
<1>4. CASE CleanupFails
  <2>1. faults' \in 0..MaxFaults
    BY <1>4, FaultType DEF CleanupFails, FaultKinds
  <2>2. QED
    BY <1>4, <2>1 DEF CleanupFails, TypeOK, IdleCleanup, cacheVars, kafkaVars, historyVars
<1>5. QED
  BY <1>1, <1>2, <1>3, <1>4 DEF CleanupStep

LEMMA EnvironmentType ==
    ASSUME TypeOK, NEW r \in Reservations, Environment(r)
    PROVE  TypeOK'
<1>1. CASE StoreID(r)
  BY <1>1 DEF StoreID, TypeOK, kafkaVars, historyVars
<1>2. CASE StoreData(r)
  BY <1>2 DEF StoreData, TypeOK, kafkaVars, historyVars
<1>3. CASE ExpireID(r)
  BY <1>3 DEF ExpireID, TypeOK, kafkaVars, historyVars
<1>4. CASE ExpireData(r)
  <2>1. faults' \in 0..MaxFaults
    BY <1>4, FaultType DEF ExpireData, FaultKinds
  <2>2. QED
    BY <1>4, <2>1 DEF ExpireData, TypeOK, kafkaVars, historyVars
<1>5. CASE PaymentCaptured(r)
  <2> DEFINE m == Notice(PaymentCapturedTopic, r)
  <2>1. m \in Notices /\ m.topic = PaymentCapturedTopic
    BY NoticeType DEF NoticeTopics
  <2>2. m \in InboundMessages
    BY <2>1 DEF InboundMessages, Messages, InboundTopics
  <2>3. faults' \in 0..MaxFaults
    BY <1>5, FaultType DEF PaymentCaptured, FaultKinds
  <2>4. QED
    BY <1>5, <2>1, <2>2, <2>3 DEF PaymentCaptured, TypeOK, cacheVars, historyVars
<1>6. QED
  BY <1>1, <1>2, <1>3, <1>4, <1>5 DEF Environment

LEMMA TypeInit == Init => TypeOK
BY FaultsAssumption DEF Init, TypeOK, IdleWorker, IdleCleanup

LEMMA TypeStep == TypeOK /\ [Next]_vars => TypeOK'
<1> SUFFICES ASSUME TypeOK, [Next]_vars PROVE TypeOK'
  OBVIOUS
<1>1. ASSUME NEW w \in Workers, WorkerStep(w) PROVE TypeOK'
  BY <1>1, ReceiveType, DeleteDataType, CallVesselType, ScheduleRetryType, DeleteIDType,
     PublishReservationConfirmedType, PublishConfirmationFailedType, CommitMessageType
     DEF WorkerStep
<1>2. ASSUME NEW w \in Workers, Crash(w) PROVE TypeOK'
  BY <1>2, CrashType
<1>3. ASSUME NEW row \in outbox, PublishOutbox(row) PROVE TypeOK'
  BY <1>3, PublishOutboxType
<1>4. CASE CleanupStep \/ CleanupFails
  BY <1>4, CleanupType
<1>5. ASSUME NEW r \in Reservations, Environment(r) PROVE TypeOK'
  BY <1>5, EnvironmentType
<1>6. CASE UNCHANGED vars
  BY <1>6 DEF vars, TypeOK
<1>7. QED
  BY <1>1, <1>2, <1>3, <1>4, <1>5, <1>6 DEF Next

(* Every variable keeps its type: in particular no event runs past its     *)
(* retries outside the DLQ, and only messages with a handler are consumed. *)
THEOREM TypeCorrect == Spec => []TypeOK
<1>1. QED
  BY TypeInit, TypeStep, PTL DEF Spec

-----------------------------------------------------------------------------
(* A reported confirmation was carried out on the vessel. *)

(* What CreateEvent may add to the outbox. *)
LEMMA InsertAdds ==
    ASSUME NEW m, CreateEvent(m) \/ CreateEventFails(m)
    PROVE  outbox' \subseteq outbox \cup {m}
BY DEF CreateEvent, CreateEventFails, Insert

(* Nothing but publishReservationConfirmed reports a confirmation. *)
LEMMA OtherMessage ==
    ASSUME ConfirmedImpliesVesselConfirm,
           NEW m, m.topic # ReservationConfirmedTopic,
           outbox' \subseteq outbox \cup {m},
           published' \subseteq published \cup outbox \cup {m},
           applied \subseteq applied'
    PROVE  ConfirmedImpliesVesselConfirm'
<1> SUFFICES ASSUME NEW r \in Reservations, Reported(ReservationConfirmedTopic, r)'
             PROVE  <<r, "CONFIRM">> \in applied'
  BY DEF ConfirmedImpliesVesselConfirm
<1>1. Notice(ReservationConfirmedTopic, r) # m
  BY DEF Notice
<1>2. Reported(ReservationConfirmedTopic, r)
  BY <1>1 DEF Reported
<1>3. QED
  BY <1>2 DEF ConfirmedImpliesVesselConfirm

(* A step that reports nothing. *)
LEMMA NoMessage ==
    ASSUME ConfirmedImpliesVesselConfirm,
           outbox' \subseteq outbox,
           published' \subseteq published \cup outbox,
           applied \subseteq applied'
    PROVE  ConfirmedImpliesVesselConfirm'
BY DEF ConfirmedImpliesVesselConfirm, Reported, Notice

(* The part of ConfirmInv about a worker that is past its vessel call. *)
PastVessel(w) ==
    /\ worker[w].pc \in {"deleteID", "confirmed"} =>
           <<Event(w).reservation, Event(w).action>> \in applied
    /\ worker[w].pc = "confirmed" => Event(w).action = "CONFIRM"

LEMMA OthersPast ==
    ASSUME TypeOK, ConfirmInv, NEW w \in Workers, NEW b,
           worker' = [worker EXCEPT ![w] = b],
           b.pc \notin {"deleteID", "confirmed"},
           applied \subseteq applied'
    PROVE  \A v \in Workers : PastVessel(v)'
<1> SUFFICES ASSUME NEW v \in Workers PROVE PastVessel(v)'
  OBVIOUS
<1>1. CASE v = w
  BY <1>1 DEF PastVessel, TypeOK
<1>2. CASE v # w
  BY <1>2 DEF PastVessel, ConfirmInv, TypeOK, Event
<1>3. QED
  BY <1>1, <1>2

LEMMA GotoPast ==
    ASSUME TypeOK, ConfirmInv, NEW w \in Workers, NEW label,
           label \notin {"deleteID", "confirmed"}, Goto(w, label),
           applied \subseteq applied'
    PROVE  \A v \in Workers : PastVessel(v)'
<1> DEFINE b == [worker[w] EXCEPT !.pc = label]
<1>1. worker' = [worker EXCEPT ![w] = b]
  BY DEF Goto
<1>2. b.pc = label \/ b.pc = worker[w].pc
  OBVIOUS
<1>3. worker[w] \in {IdleWorker} \cup BusyWorker
  BY DEF TypeOK
<1>4. b.pc = label
  BY <1>3 DEF IdleWorker, BusyWorker
<1>5. QED
  BY <1>1, <1>4, OthersPast

LEMMA ConfirmInit == Init => ConfirmInv
BY DEF Init, ConfirmInv, ConfirmedImpliesVesselConfirm, Reported, IdleWorker

LEMMA ConfirmWorkerStep ==
    ASSUME TypeOK, ConfirmInv, NEW w \in Workers, WorkerStep(w) \/ Crash(w)
    PROVE  ConfirmInv'
<1>0. ConfirmedImpliesVesselConfirm
  BY DEF ConfirmInv
<1> SUFFICES ConfirmedImpliesVesselConfirm' /\ \A v \in Workers : PastVessel(v)'
  BY DEF ConfirmInv, PastVessel
<1>1. ASSUME NEW m \in toConsume, Receive(w, m)
      PROVE  ConfirmedImpliesVesselConfirm' /\ \A v \in Workers : PastVessel(v)'
  <2>1. PICK label \in {"commit", "vessel", "deleteData"} :
            worker' = [worker EXCEPT ![w] =
                          [pc |-> label, msg |-> m, event |-> HandlerEvent(m)]]
    BY <1>1 DEF Receive
  <2>2. QED
    BY <1>0, <1>1, <2>1, OthersPast, NoMessage DEF Receive
<1>2. CASE DeleteData(w)
  <2>1. ConfirmedImpliesVesselConfirm'
    BY <1>0, <1>2, NoMessage DEF DeleteData, kafkaVars
  <2>2. CASE worker' = [worker EXCEPT ![w].pc = "vessel", ![w].event.cacheCleared = TRUE]
    <3> DEFINE b == [worker[w] EXCEPT !.pc = "vessel", !.event.cacheCleared = TRUE]
    <3>1. worker' = [worker EXCEPT ![w] = b]
      BY <2>2
    <3>2. worker[w] \in BusyWorker
      BY <1>2, BusyType DEF DeleteData
    <3>3. b.pc = "vessel"
      BY <3>2 DEF BusyWorker
    <3>4. QED
      BY <1>2, <2>1, <3>1, <3>3, OthersPast DEF DeleteData
  <2>3. CASE Return(w) \/ Goto(w, "retry")
    BY <1>2, <2>1, <2>3, GotoPast DEF DeleteData, Return
  <2>4. QED
    BY <1>2, <2>2, <2>3 DEF DeleteData
<1>3. CASE CallVessel(w)
  <2>1. applied \subseteq applied'
    BY <1>3 DEF CallVessel
  <2>2. ConfirmedImpliesVesselConfirm'
    BY <1>0, <1>3, <2>1, NoMessage DEF CallVessel, kafkaVars
  <2>3. CASE Goto(w, "retry")
    BY <2>1, <2>2, <2>3, GotoPast
  <2>4. CASE /\ applied' = applied \cup {<<Event(w).reservation, Event(w).action>>}
             /\ Goto(w, "deleteID")
    <3> SUFFICES ASSUME NEW v \in Workers PROVE PastVessel(v)'
      BY <2>2
    <3>1. worker[w] \in BusyWorker
      BY <1>3, BusyType DEF CallVessel
    <3>2. CASE v = w
      <4>1. worker'[w].pc = "deleteID" /\ worker'[w].event = worker[w].event
        BY <2>4, <3>1 DEF Goto, TypeOK, BusyWorker
      <4>2. QED
        BY <2>4, <3>2, <4>1 DEF PastVessel, Event
    <3>3. CASE v # w
      BY <2>1, <2>4, <3>3 DEF PastVessel, ConfirmInv, Goto, TypeOK, Event
    <3>4. QED
      BY <3>2, <3>3
  <2>5. QED
    BY <1>3, <2>3, <2>4 DEF CallVessel
<1>4. CASE ScheduleRetry(w)
  <2> DEFINE m == RetryMessage(Event(w))
  <2>1. m.topic # ReservationConfirmedTopic
    BY <1>4, BusyType, RetryMessageType DEF ScheduleRetry, CapacityTopics, ReleaseCapacityTopic,
       ConfirmCapacityTopic, CapacityFailedTopic, ReservationConfirmedTopic
  <2>2. outbox' \subseteq outbox \cup {m}
    BY <1>4, InsertAdds DEF ScheduleRetry
  <2>3. ConfirmedImpliesVesselConfirm'
    BY <1>0, <1>4, <2>1, <2>2, OtherMessage DEF ScheduleRetry
  <2>4. PICK label \in {"failed", "commit"} :
            Goto(w, label) \/ worker' = [worker EXCEPT ![w] = IdleWorker]
    BY <1>4 DEF ScheduleRetry, Return, HandlerError
  <2>5. QED
    BY <1>4, <2>3, <2>4, GotoPast, OthersPast DEF ScheduleRetry, IdleWorker
<1>5. CASE DeleteID(w)
  <2>1. ConfirmedImpliesVesselConfirm'
    BY <1>0, <1>5, NoMessage DEF DeleteID, kafkaVars
  <2>2. CASE Event(w).action = "CONFIRM"
    <3> SUFFICES ASSUME NEW v \in Workers PROVE PastVessel(v)'
      BY <2>1
    <3>1. worker[w] \in BusyWorker /\ Goto(w, "confirmed")
      BY <1>5, <2>2, BusyType DEF DeleteID
    <3>2. <<Event(w).reservation, Event(w).action>> \in applied /\ applied' = applied
      BY <1>5 DEF DeleteID, ConfirmInv
    <3>3. CASE v = w
      <4>1. worker'[w].pc = "confirmed" /\ worker'[w].event = worker[w].event
        BY <3>1 DEF Goto, TypeOK, BusyWorker
      <4>2. QED
        BY <2>2, <3>2, <3>3, <4>1 DEF PastVessel, Event
    <3>4. CASE v # w
      BY <3>1, <3>2, <3>4 DEF PastVessel, ConfirmInv, Goto, TypeOK, Event
    <3>5. QED
      BY <3>3, <3>4
  <2>3. CASE Event(w).action # "CONFIRM"
    BY <1>5, <2>1, <2>3, GotoPast DEF DeleteID, Return
  <2>4. QED
    BY <2>2, <2>3
<1>6. CASE PublishReservationConfirmed(w)
  <2> DEFINE m == Notice(ReservationConfirmedTopic, Event(w).reservation)
  <2>1. <<Event(w).reservation, "CONFIRM">> \in applied
    BY <1>6 DEF PublishReservationConfirmed, ConfirmInv
  <2>2. outbox' \subseteq outbox \cup {m} /\ published' = published /\ applied' = applied
    BY <1>6, InsertAdds DEF PublishReservationConfirmed, kafkaVars
  <2>3. ConfirmedImpliesVesselConfirm'
    <3> SUFFICES ASSUME NEW r \in Reservations, Reported(ReservationConfirmedTopic, r)'
                 PROVE  <<r, "CONFIRM">> \in applied
      BY <2>2 DEF ConfirmedImpliesVesselConfirm
    <3>1. CASE Notice(ReservationConfirmedTopic, r) = m
      BY <2>1, <3>1 DEF Notice
    <3>2. CASE Notice(ReservationConfirmedTopic, r) # m
      BY <1>0, <2>2, <3>2 DEF ConfirmedImpliesVesselConfirm, Reported
    <3>3. QED
      BY <3>1, <3>2
  <2>4. QED
    BY <1>6, <2>2, <2>3, GotoPast DEF PublishReservationConfirmed, Return
<1>7. CASE PublishConfirmationFailed(w)
  <2> DEFINE m == Notice(ConsignmentConfirmationFailedTopic, Event(w).reservation)
  <2>1. m.topic # ReservationConfirmedTopic
    BY DEF Notice, ConsignmentConfirmationFailedTopic, ReservationConfirmedTopic
  <2>2. outbox' \subseteq outbox \cup {m}
    BY <1>7, InsertAdds DEF PublishConfirmationFailed
  <2>3. ConfirmedImpliesVesselConfirm'
    BY <1>0, <1>7, <2>1, <2>2, OtherMessage DEF PublishConfirmationFailed
  <2>4. Goto(w, "commit") \/ worker' = [worker EXCEPT ![w] = IdleWorker]
    BY <1>7 DEF PublishConfirmationFailed, HandlerError
  <2>5. QED
    BY <1>7, <2>3, <2>4, GotoPast, OthersPast DEF PublishConfirmationFailed, IdleWorker
<1>8. CASE CommitMessage(w) \/ Crash(w)
  BY <1>0, <1>8, NoMessage, OthersPast DEF CommitMessage, Crash, IdleWorker
<1>9. QED
  BY <1>1, <1>2, <1>3, <1>4, <1>5, <1>6, <1>7, <1>8 DEF WorkerStep

LEMMA ConfirmStep == TypeOK /\ ConfirmInv /\ [Next]_vars => ConfirmInv'
<1> SUFFICES ASSUME TypeOK, ConfirmInv, [Next]_vars PROVE ConfirmInv'
  OBVIOUS
<1>0. ConfirmedImpliesVesselConfirm
  BY DEF ConfirmInv
<1>1. ASSUME NEW w \in Workers, WorkerStep(w) \/ Crash(w) PROVE ConfirmInv'
  BY <1>1, ConfirmWorkerStep
<1>2. ASSUME NEW row \in outbox, PublishOutbox(row) PROVE ConfirmInv'
  <2>1. ConfirmedImpliesVesselConfirm'
    BY <1>0, <1>2, NoMessage DEF PublishOutbox
  <2>2. QED
    BY <1>2, <2>1 DEF PublishOutbox, ConfirmInv, Event
<1>3. ASSUME NEW r \in Reservations, PublishReservationExpired(r) PROVE ConfirmInv'
  <2> DEFINE m == Notice(ReservationExpiredTopic, r)
  <2>1. m.topic # ReservationConfirmedTopic
    BY DEF Notice, ReservationExpiredTopic, ReservationConfirmedTopic
  <2>2. outbox' \subseteq outbox \cup {m}
    BY <1>3, InsertAdds DEF PublishReservationExpired
  <2>3. ConfirmedImpliesVesselConfirm'
    BY <1>0, <1>3, <2>1, <2>2, OtherMessage DEF PublishReservationExpired, kafkaVars
  <2>4. QED
    BY <1>3, <2>3 DEF PublishReservationExpired, ConfirmInv, Event
<1>4. CASE ScanIDs \/ ScanData \/ CleanupFails
  <2>1. ConfirmedImpliesVesselConfirm'
    BY <1>0, <1>4, NoMessage DEF ScanIDs, ScanData, CleanupFails, kafkaVars
  <2>2. QED
    BY <1>4, <2>1 DEF ScanIDs, ScanData, CleanupFails, ConfirmInv, Event
<1>5. ASSUME NEW r \in Reservations,
             StoreID(r) \/ StoreData(r) \/ ExpireID(r) \/ ExpireData(r)
      PROVE  ConfirmInv'
  <2>1. ConfirmedImpliesVesselConfirm'
    BY <1>0, <1>5, NoMessage DEF StoreID, StoreData, ExpireID, ExpireData, kafkaVars
  <2>2. QED
    BY <1>5, <2>1 DEF StoreID, StoreData, ExpireID, ExpireData, ConfirmInv, Event
<1>6. ASSUME NEW r \in Reservations, PaymentCaptured(r) PROVE ConfirmInv'
  <2> DEFINE m == Notice(PaymentCapturedTopic, r)
  <2>1. m.topic # ReservationConfirmedTopic
    BY DEF Notice, PaymentCapturedTopic, ReservationConfirmedTopic
  <2>2. ConfirmedImpliesVesselConfirm'
    BY <1>0, <1>6, <2>1, OtherMessage DEF PaymentCaptured
  <2>3. QED
    BY <1>6, <2>2 DEF PaymentCaptured, ConfirmInv, Event
<1>7. CASE UNCHANGED vars
  BY <1>7 DEF vars, ConfirmInv, ConfirmedImpliesVesselConfirm, Reported, Event
<1>8. QED
  BY <1>1, <1>2, <1>3, <1>4, <1>5, <1>6, <1>7 DEF Next, CleanupStep, Environment

(* However calls fail and messages repeat, the consignment service is told *)
(* that capacity is confirmed only after the vessel service confirmed it.  *)
THEOREM ConfirmationIsReal == Spec => []ConfirmedImpliesVesselConfirm
<1>1. ConfirmInv => ConfirmedImpliesVesselConfirm
  BY DEF ConfirmInv
<1>2. QED
  BY TypeInit, TypeStep, ConfirmInit, ConfirmStep, <1>1, PTL DEF Spec

-----------------------------------------------------------------------------
(* Without failed vessel calls, the data key is a token that is spent on   *)
(* one operation of the vessel.                                            *)

NoVesselFaults == {"vesselDown", "vesselReplyLost"} \cap Faults = {}

\* The part of TokenInv about worker w alone.
Holder(w) ==
    /\ worker[w].pc # "idle" => Uncleared(worker[w].msg)
    /\ worker[w].pc \in {"deleteData", "retry"} => ~ Event(w).cacheCleared
    /\ worker[w].pc = "vessel" =>
           /\ dataKey[Event(w).reservation] = "gone"
           /\ \A a \in Actions : <<Event(w).reservation, a>> \notin applied

\* The part of TokenInv about workers v and w.
Exclusive(v, w) ==
    /\ v # w
    /\ worker[v].pc = "vessel"
    /\ worker[w].pc = "vessel"
    => Event(v).reservation # Event(w).reservation

\* The part of TokenInv about the operations applied.
Spent == \A r \in Reservations, a \in Actions : <<r, a>> \in applied => dataKey[r] = "gone"

LEMMA TokenParts ==
    TokenInv <=> /\ \A m \in outbox \cup toConsume : Uncleared(m)
                 /\ \A w \in Workers : Holder(w)
                 /\ \A v, w \in Workers : Exclusive(v, w)
                 /\ Spent
                 /\ NoConflictingOps
BY DEF TokenInv, Holder, Exclusive, Spent

(* The messages a step of worker w may leave behind, w being elsewhere than *)
(* at its vessel call and every data key that was gone being gone still.    *)
LEMMA TokenFrame ==
    ASSUME TypeOK, TokenInv, NEW w \in Workers, NEW b,
           worker' = [worker EXCEPT ![w] = b],
           b.pc # "idle" => Uncleared(b.msg),
           b.pc \in {"deleteData", "retry"} => ~ b.event.cacheCleared,
           b.pc # "vessel",
           \A m \in outbox' \cup toConsume' : Uncleared(m),
           \A r \in Reservations : dataKey[r] = "gone" => dataKey'[r] = "gone",
           applied' = applied
    PROVE  TokenInv'
<1>1. ASSUME NEW v \in Workers PROVE Holder(v)'
  <2>1. CASE v = w
    BY <2>1 DEF Holder, TypeOK, Event
  <2>2. CASE v # w
    <3>1. worker'[v] = worker[v]
      BY <2>2 DEF TypeOK
    <3>2. Holder(v)
      BY TokenParts
    <3>3. worker[v].pc = "vessel" => Event(v).reservation \in Reservations
      BY BusyType DEF PendingEvents, EventsUpTo
    <3>4. QED
      BY <3>1, <3>2, <3>3 DEF Holder, Event
  <2>3. QED
    BY <2>1, <2>2
<1>2. ASSUME NEW u \in Workers, NEW v \in Workers PROVE Exclusive(u, v)'
  BY TokenParts DEF Exclusive, TypeOK, Event
<1>3. Spent' /\ NoConflictingOps'
  BY TokenParts DEF Spent, NoConflictingOps
<1>4. QED
  BY <1>1, <1>2, <1>3 DEF TokenInv, Holder, Exclusive, Spent

(* The same for a step that leaves every worker alone. *)
LEMMA TokenEnvironment ==
    ASSUME TypeOK, TokenInv,
           worker' = worker,
           \A m \in outbox' \cup toConsume' : Uncleared(m),
           \A r \in Reservations : dataKey[r] = "gone" => dataKey'[r] = "gone",
           applied' = applied
    PROVE  TokenInv'
<1>1. ASSUME NEW v \in Workers PROVE Holder(v)'
  <2>1. Holder(v)
    BY TokenParts
  <2>2. worker[v].pc = "vessel" => Event(v).reservation \in Reservations
    BY BusyType DEF PendingEvents, EventsUpTo
  <2>3. QED
    BY <2>1, <2>2 DEF Holder, Event
<1>2. \A u, v \in Workers : Exclusive(u, v)'
  BY TokenParts DEF Exclusive, Event
<1>3. Spent' /\ NoConflictingOps'
  BY TokenParts DEF Spent, NoConflictingOps
<1>4. QED
  BY <1>1, <1>2, <1>3 DEF TokenInv, Holder, Exclusive, Spent

LEMMA NoticeUncleared ==
    ASSUME NEW t \in NoticeTopics, NEW r
    PROVE  Uncleared(Notice(t, r))
BY DEF Uncleared, Notice, NoticeTopics, CapacityTopics, ReleaseCapacityTopic,
       ConfirmCapacityTopic, CapacityFailedTopic, PaymentCapturedTopic,
       ReservationExpiredTopic, ConsignmentConfirmationFailedTopic, ReservationConfirmedTopic

LEMMA TokenInit == Init => TokenInv
BY DEF Init, TokenInv, NoConflictingOps, IdleWorker, Actions

LEMMA RetryUncleared ==
    ASSUME NEW e \in PendingEvents, ~ e.cacheCleared
    PROVE  Uncleared(RetryMessage(e))
<1>1. RetryMessage(e).event = [e EXCEPT !.retryCount = @ + 1]
  BY RetryMessageType
<1>2. ~ RetryMessage(e).event.cacheCleared
  BY <1>1 DEF PendingEvents, EventsUpTo
<1>3. QED
  BY <1>2 DEF Uncleared

LEMMA TokenWorkerStep ==
    ASSUME NoVesselFaults, TypeOK, TokenInv, NEW w \in Workers, WorkerStep(w) \/ Crash(w)
    PROVE  TokenInv'
<1>0. /\ \A m \in outbox \cup toConsume : Uncleared(m)
      /\ Holder(w)
  BY TokenParts
<1> DEFINE Moved(label) == [worker[w] EXCEPT !.pc = label]
<1>a. ASSUME worker[w].pc # "idle", NEW label
      PROVE  /\ Moved(label).pc = label
             /\ Moved(label).msg = worker[w].msg
             /\ Moved(label).event = Event(w)
             /\ Goto(w, label) => worker' = [worker EXCEPT ![w] = Moved(label)]
  BY <1>a, BusyType DEF BusyWorker, Goto, Event
<1>1. ASSUME NEW m \in toConsume, Receive(w, m) PROVE TokenInv'
  <2>1. Uncleared(m)
    BY <1>0
  <2>2. m \in InboundMessages
    BY DEF TypeOK
  <2>3. ~ HandlerEvent(m).cacheCleared
    <3>1. CASE m \in RetryMessages \cup FailedMessages
      <4>1. m.topic \in CapacityTopics /\ ~ m.event.cacheCleared
        BY <2>1, <3>1 DEF Uncleared, RetryMessages, FailedMessages, CapacityTopics
      <4>2. QED
        BY <4>1 DEF HandlerEvent, FreshEvent, CapacityTopics, ReleaseCapacityTopic,
           ConfirmCapacityTopic, CapacityFailedTopic, PaymentCapturedTopic, ReservationExpiredTopic
    <3>2. CASE m \in Notices
      <4>1. m.topic \in {PaymentCapturedTopic, ReservationExpiredTopic}
        BY <2>2, <3>2 DEF InboundMessages, InboundTopics, CapacityTopics, NoticeTopics, Notices,
           ReleaseCapacityTopic, ConfirmCapacityTopic, CapacityFailedTopic,
           ConsignmentConfirmationFailedTopic, ReservationConfirmedTopic,
           ReservationExpiredTopic, PaymentCapturedTopic
      <4>2. QED
        BY <4>1 DEF HandlerEvent, FreshEvent, CapacityFailedTopic, PaymentCapturedTopic,
           ReservationExpiredTopic
    <3>3. QED
      BY <2>2, <3>1, <3>2 DEF InboundMessages, Messages
  <2>4. PICK label \in {"commit", "deleteData"} :
            worker' = [worker EXCEPT ![w] =
                          [pc |-> label, msg |-> m, event |-> HandlerEvent(m)]]
    BY <1>1, <2>3 DEF Receive
  <2> DEFINE b == [pc |-> label, msg |-> m, event |-> HandlerEvent(m)]
  <2>5. /\ worker' = [worker EXCEPT ![w] = b]
        /\ b.pc # "vessel"
        /\ Uncleared(b.msg)
        /\ ~ b.event.cacheCleared
    BY <2>1, <2>3, <2>4
  <2>6. /\ dataKey' = dataKey /\ applied' = applied
        /\ \A x \in outbox' \cup toConsume' : Uncleared(x)
    BY <1>0, <1>1 DEF Receive, cacheVars
  <2>7. QED
    BY <2>5, <2>6, TokenFrame
<1>2. CASE DeleteData(w)
  <2>0. worker[w].pc # "idle" /\ Uncleared(worker[w].msg) /\ ~ Event(w).cacheCleared
    BY <1>0, <1>2 DEF DeleteData, Holder
  <2>1. \A r \in Reservations : dataKey[r] = "gone" => dataKey'[r] = "gone"
    BY <1>2 DEF DeleteData, TypeOK
  <2>2. CASE Return(w) \/ Goto(w, "retry")
    <3>1. PICK label \in {"failed", "commit", "retry"} : Goto(w, label)
      BY <2>2 DEF Return
    <3>2. QED
      BY <1>0, <1>2, <1>a, <2>0, <2>1, <3>1, TokenFrame DEF DeleteData, kafkaVars
  <2>3. CASE /\ dataKey[Event(w).reservation] = "live"
             /\ dataKey' = [dataKey EXCEPT ![Event(w).reservation] =
                                IF @ = "live" THEN "gone" ELSE @]
             /\ worker' = [worker EXCEPT ![w].pc = "vessel", ![w].event.cacheCleared = TRUE]
    <3> DEFINE b == [worker[w] EXCEPT !.pc = "vessel", !.event.cacheCleared = TRUE]
    <3>1. /\ worker[w] \in BusyWorker
          /\ Event(w).reservation \in Reservations
      BY <2>0, BusyType DEF PendingEvents, EventsUpTo
    <3>2. /\ worker' = [worker EXCEPT ![w] = b]
          /\ b.pc = "vessel"
          /\ b.msg = worker[w].msg
          /\ b.event.reservation = Event(w).reservation
      BY <2>3, <3>1 DEF BusyWorker, PendingEvents, EventsUpTo, Event
    <3>3. applied' = applied /\ outbox' = outbox /\ toConsume' = toConsume
      BY <1>2 DEF DeleteData, kafkaVars
    <3>4. dataKey'[Event(w).reservation] = "gone"
      BY <2>3, <3>1 DEF TypeOK
    <3>5. /\ worker'[w] = b
          /\ \A v \in Workers : v # w => worker'[v] = worker[v]
      BY <3>2 DEF TypeOK
    <3>6. ASSUME NEW v \in Workers PROVE Holder(v)'
      <4>1. CASE v = w
        <5>1. \A a \in Actions : <<Event(w).reservation, a>> \notin applied
          BY <2>3, <3>1, TokenParts DEF Spent
        <5>2. QED
          BY <2>0, <3>2, <3>3, <3>4, <3>5, <4>1, <5>1 DEF Holder, Event
      <4>2. CASE v # w
        <5>1. Holder(v)
          BY TokenParts
        <5>2. worker[v].pc = "vessel" => Event(v).reservation \in Reservations
          BY BusyType DEF PendingEvents, EventsUpTo
        <5>3. QED
          BY <2>1, <3>3, <3>5, <4>2, <5>1, <5>2 DEF Holder, Event
      <4>3. QED
        BY <4>1, <4>2
    <3>7. ASSUME NEW u \in Workers, NEW v \in Workers PROVE Exclusive(u, v)'
      <4>1. ASSUME NEW x \in Workers, x # w, worker[x].pc = "vessel"
            PROVE  Event(x).reservation # Event(w).reservation
        BY <2>3, <4>1, TokenParts DEF Holder
      <4>2. Exclusive(u, v)
        BY TokenParts
      <4>3. QED
        BY <3>2, <3>5, <4>1, <4>2 DEF Exclusive, Event
    <3>8. Spent' /\ NoConflictingOps'
      BY <2>1, <3>3, TokenParts DEF Spent, NoConflictingOps
    <3>9. QED
      BY <1>0, <3>3, <3>6, <3>7, <3>8 DEF TokenInv, Holder, Exclusive, Spent
  <2>4. QED
    BY <1>2, <2>2, <2>3 DEF DeleteData
<1>3. CASE CallVessel(w)
  <2> DEFINE r == Event(w).reservation
             a == Event(w).action
  <2>1. /\ applied' = applied \cup {<<r, a>>}
        /\ Goto(w, "deleteID")
        /\ dataKey' = dataKey /\ outbox' = outbox /\ toConsume' = toConsume
    BY <1>3 DEF CallVessel, NoVesselFaults, Fault, cacheVars, kafkaVars
  <2>2. /\ worker[w].pc = "vessel"
        /\ r \in Reservations /\ a \in Actions
    BY <1>3, BusyType DEF CallVessel, PendingEvents, EventsUpTo
  <2>3. /\ worker'[w] = Moved("deleteID")
        /\ \A v \in Workers : v # w => worker'[v] = worker[v]
    BY <1>a, <2>1, <2>2 DEF TypeOK
  <2>4. /\ dataKey[r] = "gone"
        /\ \A x \in Actions : <<r, x>> \notin applied
    BY <1>0, <2>2 DEF Holder
  <2>5. ASSUME NEW v \in Workers PROVE Holder(v)'
    <3>1. CASE v = w
      <4>1. Moved("deleteID").pc = "deleteID" /\ Moved("deleteID").msg = worker[w].msg
        BY <1>a, <2>2
      <4>2. Uncleared(worker[w].msg)
        BY <1>0, <2>2 DEF Holder
      <4>3. QED
        BY <2>3, <3>1, <4>1, <4>2 DEF Holder
    <3>2. CASE v # w
      <4>1. Holder(v)
        BY TokenParts
      <4>2. worker[v].pc = "vessel" => Event(v).reservation # r
        BY <2>2, <3>2, TokenParts DEF Exclusive
      <4>3. QED
        BY <2>1, <2>3, <3>2, <4>1, <4>2 DEF Holder, Event
    <3>3. QED
      BY <3>1, <3>2
  <2>6. ASSUME NEW u \in Workers, NEW v \in Workers PROVE Exclusive(u, v)'
    <3>1. Exclusive(u, v)
      BY TokenParts
    <3>2. Moved("deleteID").pc # "vessel"
      BY <1>a, <2>2
    <3>3. QED
      BY <2>3, <3>1, <3>2 DEF Exclusive, Event
  <2>7. Spent'
    BY <2>1, <2>4, TokenParts DEF Spent
  <2>8. NoConflictingOps'
    BY <2>1, <2>2, <2>4, TokenParts DEF NoConflictingOps, Actions
  <2>9. QED
    BY <1>0, <2>1, <2>5, <2>6, <2>7, <2>8 DEF TokenInv, Holder, Exclusive, Spent
<1>4. CASE ScheduleRetry(w)
  <2> DEFINE m == RetryMessage(Event(w))
  <2>0. worker[w].pc # "idle" /\ Uncleared(worker[w].msg) /\ ~ Event(w).cacheCleared
    BY <1>0, <1>4 DEF ScheduleRetry, Holder
  <2>1. Uncleared(m)
    BY <2>0, BusyType, RetryUncleared
  <2>2. outbox' \subseteq outbox \cup {m} /\ toConsume' \subseteq toConsume \cup {worker[w].msg}
    BY <1>4, InsertAdds DEF ScheduleRetry, HandlerError
  <2>3. \A x \in outbox' \cup toConsume' : Uncleared(x)
    BY <1>0, <2>0, <2>1, <2>2
  <2>4. PICK label \in {"failed", "commit"} :
            Goto(w, label) \/ worker' = [worker EXCEPT ![w] = IdleWorker]
    BY <1>4 DEF ScheduleRetry, Return, HandlerError
  <2>5. dataKey' = dataKey /\ applied' = applied
    BY <1>4 DEF ScheduleRetry, cacheVars
  <2>6. CASE Goto(w, label)
    <3> DEFINE b == Moved(label)
    <3>1. /\ worker' = [worker EXCEPT ![w] = b]
          /\ b.pc = label
          /\ b.msg = worker[w].msg
      BY <1>a, <2>0, <2>6
    <3>2. Uncleared(b.msg) /\ b.pc \notin {"deleteData", "retry", "vessel"}
      BY <2>0, <2>4, <3>1
    <3> HIDE DEF b
    <3>3. QED
      BY <2>3, <2>5, <3>1, <3>2, TokenFrame
  <2>7. CASE worker' = [worker EXCEPT ![w] = IdleWorker]
    <3>1. IdleWorker.pc = "idle"
      BY DEF IdleWorker
    <3>2. QED
      BY <2>3, <2>5, <2>7, <3>1, TokenFrame
  <2>8. QED
    BY <2>4, <2>6, <2>7
<1>5. CASE DeleteID(w)
  <2>0. worker[w].pc # "idle" /\ Uncleared(worker[w].msg)
    BY <1>0, <1>5 DEF DeleteID, Holder
  <2>1. PICK label \in {"confirmed", "failed", "commit"} : Goto(w, label)
    BY <1>5 DEF DeleteID, Return
  <2>2. QED
    BY <1>0, <1>5, <1>a, <2>0, <2>1, TokenFrame DEF DeleteID, kafkaVars
<1>6. CASE PublishReservationConfirmed(w) \/ PublishConfirmationFailed(w)
  <2>0. worker[w].pc # "idle" /\ Uncleared(worker[w].msg)
    BY <1>0, <1>6 DEF PublishReservationConfirmed, PublishConfirmationFailed, Holder
  <2>1. PICK t \in NoticeTopics : outbox' \subseteq outbox \cup {Notice(t, Event(w).reservation)}
    BY <1>6, InsertAdds DEF PublishReservationConfirmed, PublishConfirmationFailed, NoticeTopics
  <2>2. toConsume' \subseteq toConsume \cup {worker[w].msg}
    BY <1>6 DEF PublishReservationConfirmed, PublishConfirmationFailed, HandlerError, kafkaVars
  <2>3. \A x \in outbox' \cup toConsume' : Uncleared(x)
    BY <1>0, <2>0, <2>1, <2>2, NoticeUncleared
  <2>4. PICK label \in {"failed", "commit"} :
            Goto(w, label) \/ worker' = [worker EXCEPT ![w] = IdleWorker]
    BY <1>6 DEF PublishReservationConfirmed, PublishConfirmationFailed, Return, HandlerError
  <2>5. QED
    BY <1>6, <1>a, <2>0, <2>3, <2>4, TokenFrame
       DEF PublishReservationConfirmed, PublishConfirmationFailed, IdleWorker, cacheVars
<1>7. CASE CommitMessage(w) \/ Crash(w)
  <2>0. worker[w].pc # "idle"
    BY <1>7 DEF CommitMessage, Crash, TypeOK, IdleWorker, BusyWorker, BusyPcs
  <2>1. \A x \in outbox' \cup toConsume' : Uncleared(x)
    BY <1>0, <1>7, <2>0 DEF CommitMessage, Crash, Holder
  <2>2. QED
    BY <1>7, <2>1, TokenFrame DEF CommitMessage, Crash, IdleWorker, cacheVars
<1>8. QED
  BY <1>1, <1>2, <1>3, <1>4, <1>5, <1>6, <1>7 DEF WorkerStep

LEMMA TokenStep ==
    ASSUME NoVesselFaults
    PROVE  TypeOK /\ TokenInv /\ [Next]_vars => TokenInv'
<1> SUFFICES ASSUME TypeOK, TokenInv, [Next]_vars PROVE TokenInv'
  OBVIOUS
<1>0. \A m \in outbox \cup toConsume : Uncleared(m)
  BY TokenParts
<1>1. ASSUME NEW w \in Workers, WorkerStep(w) \/ Crash(w) PROVE TokenInv'
  BY <1>1, TokenWorkerStep
<1>2. ASSUME NEW row \in outbox, PublishOutbox(row) PROVE TokenInv'
  <2>1. \A m \in outbox' \cup toConsume' : Uncleared(m)
    BY <1>0, <1>2 DEF PublishOutbox
  <2>2. QED
    BY <1>2, <2>1, TokenEnvironment DEF PublishOutbox, cacheVars
<1>3. ASSUME NEW r \in Reservations, PublishReservationExpired(r) PROVE TokenInv'
  <2>1. outbox' \subseteq outbox \cup {Notice(ReservationExpiredTopic, r)}
    BY <1>3, InsertAdds DEF PublishReservationExpired
  <2>2. \A m \in outbox' \cup toConsume' : Uncleared(m)
    BY <1>0, <1>3, <2>1, NoticeUncleared DEF PublishReservationExpired, NoticeTopics, kafkaVars
  <2>3. QED
    BY <1>3, <2>2, TokenEnvironment DEF PublishReservationExpired, cacheVars
<1>4. CASE ScanIDs \/ ScanData \/ CleanupFails
  BY <1>0, <1>4, TokenEnvironment DEF ScanIDs, ScanData, CleanupFails, cacheVars, kafkaVars
<1>5. ASSUME NEW r \in Reservations,
             StoreID(r) \/ StoreData(r) \/ ExpireID(r) \/ ExpireData(r)
      PROVE  TokenInv'
  <2>1. \A s \in Reservations : dataKey[s] = "gone" => dataKey'[s] = "gone"
    BY <1>5 DEF StoreID, StoreData, ExpireID, ExpireData, TypeOK
  <2>2. QED
    BY <1>0, <1>5, <2>1, TokenEnvironment
       DEF StoreID, StoreData, ExpireID, ExpireData, kafkaVars
<1>6. ASSUME NEW r \in Reservations, PaymentCaptured(r) PROVE TokenInv'
  <2>1. \A m \in outbox' \cup toConsume' : Uncleared(m)
    BY <1>0, <1>6, NoticeUncleared DEF PaymentCaptured, NoticeTopics
  <2>2. QED
    BY <1>6, <2>1, TokenEnvironment DEF PaymentCaptured, cacheVars
<1>7. CASE UNCHANGED vars
  BY <1>0, <1>7, TokenEnvironment DEF vars
<1>8. QED
  BY <1>1, <1>2, <1>3, <1>4, <1>5, <1>6, <1>7 DEF Next, CleanupStep, Environment

(* As long as calls to the vessel service answer, no reservation is both    *)
(* confirmed and released, whatever Redis, Postgres, crashes, redeliveries, *)
(* expiry and any number of instances do.                                   *)
THEOREM OneOperation == ASSUME NoVesselFaults PROVE Spec => []NoConflictingOps
<1>1. TokenInv => NoConflictingOps
  BY DEF TokenInv
<1>2. TypeOK /\ TokenInv /\ [Next]_vars => TokenInv'
  BY TokenStep
<1>3. QED
  BY TypeInit, TypeStep, TokenInit, <1>1, <1>2, PTL DEF Spec
-----------------------------------------------------------------------------
(* While every message is delivered once, the payment of a reservation     *)
(* starts one chain: the captured payment, its retries and its DLQ event   *)
(* follow one another, and the consignment service hears from one of them. *)

SingleDelivery == {"postgresDown", "crash", "redelivery"} \cap Faults = {}

\* A message of the chain that the captured payment of r starts.
ConfirmMsg(m, r) ==
    \/ m = Notice(PaymentCapturedTopic, r)
    \/ /\ m.topic \in CapacityTopics
       /\ m.event.reservation = r
       /\ m.event.action = "CONFIRM"

\* A message that stands for r's lapse, or for a release of its capacity.
ReleaseMsg(m, r) ==
    \/ m = Notice(ReservationExpiredTopic, r)
    \/ /\ m.topic \in CapacityTopics
       /\ m.event.reservation = r
       /\ m.event.action = "RELEASE"

\* A message that says r's data key was deleted on its behalf.
Cleared(m, r) ==
    m.topic \in CapacityTopics /\ m.event.reservation = r /\ m.event.cacheCleared

\* Worker w is in the handler of a message of the chain, and not yet done.
Carries(w, r) == worker[w].pc \notin {"idle", "commit"} /\ ConfirmMsg(worker[w].msg, r)

\* Worker w has deleted r's data key and may still act on it.
Holds(w, r) ==
    /\ worker[w].pc \in {"vessel", "retry", "deleteID", "confirmed"}
    /\ Event(w).reservation = r
    /\ Event(w).cacheCleared

\* Where the chain of r, and the right to act that its data key gave, are.
Chain(r) ==
    {<<"outbox", m>> : m \in {x \in outbox : ConfirmMsg(x, r)}}
    \cup {<<"topic", m>> : m \in {x \in toConsume : ConfirmMsg(x, r)}}
    \cup {<<"worker", w>> : w \in {v \in Workers : Carries(v, r)}}

Token(r) ==
    {<<"outbox", m>> : m \in {x \in outbox : Cleared(x, r)}}
    \cup {<<"topic", m>> : m \in {x \in toConsume : Cleared(x, r)}}
    \cup {<<"worker", w>> : w \in {v \in Workers : Holds(v, r)}}

\* Whoever may act on r would confirm it.
ConfirmHeld(r) ==
    \/ \E m \in outbox \cup toConsume : Cleared(m, r) /\ m.event.action # "RELEASE"
    \/ \E w \in Workers : Holds(w, r) /\ Event(w).action # "RELEASE"

AtMostOne(S) == \A c, d \in S : c = d

Told(r) == \/ Reported(ReservationConfirmedTopic, r)
           \/ Reported(ConsignmentConfirmationFailedTopic, r)

\* What worker w holds fits the message it is handling.
Handling(w) ==
    worker[w].pc # "idle" =>
        /\ Event(w).reservation = ReservationOf(worker[w].msg)
        /\ HandlingDLQ(w) /\ worker[w].pc # "commit" =>
               Event(w).action = "RELEASE" /\ worker[w].msg.event.action = "CONFIRM"
        /\ ~ HandlingDLQ(w) =>
               (Event(w).action = "CONFIRM" <=> ConfirmMsg(worker[w].msg, Event(w).reservation))
        /\ worker[w].pc = "failed" => HandlingDLQ(w)
        /\ worker[w].pc = "deleteData" => ~ Event(w).cacheCleared
        /\ worker[w].pc \in {"vessel", "deleteID", "confirmed"} => Event(w).cacheCleared
        /\ worker[w].pc = "confirmed" => Event(w).action = "CONFIRM"

\* The chain of r is in one place, and over once its outcome is told.
OneChain(r) ==
    /\ AtMostOne(Chain(r))
    /\ Told(r) => Chain(r) = {}
    /\ Chain(r) # {} \/ Told(r) => Notice(PaymentCapturedTopic, r) \in published
    /\ ~ (/\ Reported(ReservationConfirmedTopic, r)
          /\ Reported(ConsignmentConfirmationFailedTopic, r))

\* Whoever may act on r is one; who released r goes on to release it, and
\* who reported it confirmed is done.
OneToken(r) ==
    /\ AtMostOne(Token(r))
    /\ Token(r) # {} => dataKey[r] = "gone"
    /\ \A a \in Actions : <<r, a>> \in applied => dataKey[r] = "gone"
    /\ <<r, "RELEASE">> \in applied => ~ ConfirmHeld(r)
    /\ Reported(ReservationConfirmedTopic, r) =>
           Token(r) = {} /\ <<r, "RELEASE">> \notin applied

LEMMA TopicFacts ==
    /\ CapacityTopics \cap NoticeTopics = {}
    /\ PaymentCapturedTopic \in NoticeTopics /\ ReservationExpiredTopic \in NoticeTopics
    /\ ConsignmentConfirmationFailedTopic \in NoticeTopics
    /\ ReservationConfirmedTopic \in NoticeTopics
    /\ CapacityFailedTopic \in CapacityTopics
    /\ PaymentCapturedTopic # ReservationExpiredTopic
    /\ ConsignmentConfirmationFailedTopic # ReservationConfirmedTopic
    /\ {ConsignmentConfirmationFailedTopic, ReservationConfirmedTopic}
           \cap {PaymentCapturedTopic, ReservationExpiredTopic} = {}
BY DEF CapacityTopics, NoticeTopics, ReleaseCapacityTopic, ConfirmCapacityTopic,
       CapacityFailedTopic, PaymentCapturedTopic, ReservationExpiredTopic,
       ConsignmentConfirmationFailedTopic, ReservationConfirmedTopic

(* What notices are to the chain and to the token. *)
LEMMA NoticeFacts ==
    ASSUME NEW t \in NoticeTopics, NEW q, NEW r
    PROVE  /\ Notice(t, q).topic = t
           /\ Notice(t, q).reservation = q
           /\ ConfirmMsg(Notice(t, q), r) <=> t = PaymentCapturedTopic /\ q = r
           /\ ReleaseMsg(Notice(t, q), r) <=> t = ReservationExpiredTopic /\ q = r
           /\ ~ Cleared(Notice(t, q), r)
<1>1. Notice(t, q).topic = t /\ Notice(t, q).reservation = q /\ t \notin CapacityTopics
  BY TopicFacts DEF Notice
<1>2. \A u, s : Notice(t, q) = Notice(u, s) <=> t = u /\ q = s
  BY DEF Notice
<1>3. QED
  BY <1>1, <1>2 DEF ConfirmMsg, ReleaseMsg, Cleared

(* The notices of the chain's start and of a lapse, which tell no outcome. *)
LEMMA QuietNotices ==
    ASSUME NEW q, NEW r
    PROVE  /\ Notice(ReservationExpiredTopic, q).topic \notin
                  {ReservationConfirmedTopic, ConsignmentConfirmationFailedTopic}
           /\ ~ ConfirmMsg(Notice(ReservationExpiredTopic, q), r)
           /\ Notice(PaymentCapturedTopic, q).topic \notin
                  {ReservationConfirmedTopic, ConsignmentConfirmationFailedTopic}
           /\ ConfirmMsg(Notice(PaymentCapturedTopic, q), r) <=> q = r
           /\ ~ ConfirmMsg(Notice(ReservationConfirmedTopic, q), r)
           /\ ~ ConfirmMsg(Notice(ConsignmentConfirmationFailedTopic, q), r)
<1>1. /\ ReservationExpiredTopic \notin
             {ReservationConfirmedTopic, ConsignmentConfirmationFailedTopic}
      /\ PaymentCapturedTopic \notin
             {ReservationConfirmedTopic, ConsignmentConfirmationFailedTopic}
      /\ PaymentCapturedTopic # ReservationExpiredTopic
  BY DEF PaymentCapturedTopic, ReservationExpiredTopic,
         ConsignmentConfirmationFailedTopic, ReservationConfirmedTopic
<1>2. /\ PaymentCapturedTopic \in NoticeTopics /\ ReservationExpiredTopic \in NoticeTopics
      /\ ConsignmentConfirmationFailedTopic \in NoticeTopics
      /\ ReservationConfirmedTopic \in NoticeTopics
  BY DEF NoticeTopics
<1>3. /\ Notice(ReservationExpiredTopic, q).topic = ReservationExpiredTopic
      /\ Notice(PaymentCapturedTopic, q).topic = PaymentCapturedTopic
  BY DEF Notice
<1>4. /\ ~ ConfirmMsg(Notice(ReservationExpiredTopic, q), r)
      /\ ConfirmMsg(Notice(PaymentCapturedTopic, q), r) <=> q = r
      /\ ~ ConfirmMsg(Notice(ReservationConfirmedTopic, q), r)
      /\ ~ ConfirmMsg(Notice(ConsignmentConfirmationFailedTopic, q), r)
  BY <1>1, <1>2, NoticeFacts
<1>5. QED
  BY <1>1, <1>3, <1>4

(* What the retry of an event is to them. *)
LEMMA RetryFacts ==
    ASSUME NEW e \in PendingEvents, NEW r
    PROVE  /\ RetryMessage(e).topic \in CapacityTopics
           /\ RetryMessage(e) \in Messages
           /\ RetryMessage(e).event.reservation = e.reservation
           /\ RetryMessage(e).event.action = e.action
           /\ ConfirmMsg(RetryMessage(e), r) <=> e.reservation = r /\ e.action = "CONFIRM"
           /\ ReleaseMsg(RetryMessage(e), r) <=> e.reservation = r /\ e.action = "RELEASE"
           /\ Cleared(RetryMessage(e), r) <=> e.reservation = r /\ e.cacheCleared
<1> DEFINE m == RetryMessage(e)
<1>1. m.topic \in CapacityTopics /\ m \in Messages
  BY RetryMessageType DEF Messages
<1>2. /\ m.event.reservation = e.reservation
      /\ m.event.action = e.action
      /\ m.event.cacheCleared = e.cacheCleared
  BY RetryMessageType DEF PendingEvents, EventsUpTo
<1>3. \A t \in NoticeTopics : m # Notice(t, r)
  BY <1>1, TopicFacts DEF Notice
<1> HIDE DEF m
<1>4. QED
  BY <1>1, <1>2, <1>3, TopicFacts DEF ConfirmMsg, ReleaseMsg, Cleared, m

(* What a message is to them, and the event its handler starts from. *)
LEMMA HandlerFacts ==
    ASSUME NEW m \in InboundMessages
    PROVE  /\ HandlerEvent(m) \in PendingEvents
           /\ HandlerEvent(m).reservation = ReservationOf(m)
           /\ \A r : ConfirmMsg(m, r) \/ ReleaseMsg(m, r) \/ Cleared(m, r) => r = ReservationOf(m)
           /\ ConfirmMsg(m, ReservationOf(m)) <=> ~ ReleaseMsg(m, ReservationOf(m))
           /\ HandlerEvent(m).cacheCleared <=> Cleared(m, ReservationOf(m))
           /\ m.topic = CapacityFailedTopic => HandlerEvent(m).action = "RELEASE"
           /\ m.topic = CapacityFailedTopic /\ ~ AlertOnly(m) => m.event.action = "CONFIRM"
           /\ m.topic # CapacityFailedTopic =>
                  (HandlerEvent(m).action = "CONFIRM" <=> ConfirmMsg(m, ReservationOf(m)))
           /\ Cleared(m, ReservationOf(m)) /\ m.topic # CapacityFailedTopic =>
                  HandlerEvent(m).action = m.event.action
           /\ AlertOnly(m) => ~ ConfirmMsg(m, ReservationOf(m))
<1>0. HandlerEvent(m) \in PendingEvents
  BY HandlerEventType
<1>1. CASE m \in RetryMessages
  <2>1. m.event \in PendingEvents /\ m.topic \in {ReleaseCapacityTopic, ConfirmCapacityTopic}
    BY <1>1 DEF RetryMessages
  <2>2. /\ HandlerEvent(m) = m.event
        /\ m.topic \in CapacityTopics /\ m.topic # CapacityFailedTopic
    BY <2>1 DEF HandlerEvent, CapacityTopics, ReleaseCapacityTopic, ConfirmCapacityTopic,
       CapacityFailedTopic, ReservationExpiredTopic, PaymentCapturedTopic
  <2>3. m.event.action \in Actions
    BY <2>1 DEF PendingEvents, EventsUpTo
  <2>4. \A t \in NoticeTopics : \A r : m # Notice(t, r)
    BY <2>2, TopicFacts DEF Notice
  <2>5. QED
    BY <1>0, <2>2, <2>3, <2>4, TopicFacts
       DEF ConfirmMsg, ReleaseMsg, Cleared, ReservationOf, AlertOnly, Actions
<1>2. CASE m \in FailedMessages
  <2>1. m.event \in EventsUpTo(MaxRetries) /\ m.topic = CapacityFailedTopic
    BY <1>2 DEF FailedMessages
  <2>2. HandlerEvent(m) = FreshEvent(m.event.reservation, "RELEASE", m.event.cacheCleared)
    BY <2>1 DEF HandlerEvent, CapacityFailedTopic, ReservationExpiredTopic, PaymentCapturedTopic
  <2>3. m.event.action \in Actions /\ m.topic \in CapacityTopics
    BY <2>1, TopicFacts DEF EventsUpTo
  <2>4. \A t \in NoticeTopics : \A r : m # Notice(t, r)
    BY <2>3, TopicFacts DEF Notice
  <2>5. QED
    BY <1>0, <2>1, <2>2, <2>3, <2>4, TopicFacts
       DEF ConfirmMsg, ReleaseMsg, Cleared, ReservationOf, AlertOnly, Actions, FreshEvent
<1>3. CASE m \in Notices
  <2>1. PICK t \in NoticeTopics, q \in Reservations : m = Notice(t, q)
    BY <1>3 DEF Notices, Notice
  <2>2. m.topic = t /\ m.reservation = q
    BY <2>1, NoticeFacts
  <2>3. t \in {PaymentCapturedTopic, ReservationExpiredTopic}
    BY <2>2, TopicFacts DEF InboundMessages, InboundTopics, NoticeTopics
  <2>4. /\ t = PaymentCapturedTopic => HandlerEvent(m) = FreshEvent(q, "CONFIRM", FALSE)
        /\ t = ReservationExpiredTopic => HandlerEvent(m) = FreshEvent(q, "RELEASE", FALSE)
        /\ t \notin CapacityTopics
    BY <2>2, <2>3, TopicFacts DEF HandlerEvent
  <2>5. /\ ReservationOf(m) = q
        /\ ~ AlertOnly(m) /\ m.topic # CapacityFailedTopic
    BY <2>2, <2>4, TopicFacts DEF ReservationOf, AlertOnly
  <2>6. \A r : /\ ConfirmMsg(m, r) <=> t = PaymentCapturedTopic /\ q = r
               /\ ReleaseMsg(m, r) <=> t = ReservationExpiredTopic /\ q = r
               /\ ~ Cleared(m, r)
    BY <2>1, NoticeFacts
  <2>7. QED
    BY <1>0, <2>3, <2>4, <2>5, <2>6, TopicFacts DEF FreshEvent
<1>4. QED
  BY <1>1, <1>2, <1>3 DEF InboundMessages, Messages

-----------------------------------------------------------------------------
(* What each call of a handler does to its worker and to the messages, when *)
(* every message is delivered once.                                         *)

\* Worker w goes to another call of its handler.
Advances(w, label) ==
    /\ worker[w].pc # "idle"
    /\ worker'[w].pc = label
    /\ worker'[w].msg = worker[w].msg
    /\ \A v \in Workers : v # w => worker'[v] = worker[v]
    /\ toConsume' = toConsume /\ published' = published

KeepsEvent(w) == Event(w)' = Event(w)

LEMMA GotoAdvances ==
    ASSUME TypeOK, NEW w \in Workers, worker[w].pc # "idle", NEW label,
           Goto(w, label), toConsume' = toConsume, published' = published
    PROVE  Advances(w, label) /\ KeepsEvent(w)
<1>1. worker[w] \in BusyWorker
  BY BusyType
<1> DEFINE b == [worker[w] EXCEPT !.pc = label]
<1>2. b.pc = label /\ b.msg = worker[w].msg /\ b.event = worker[w].event
  BY <1>1 DEF BusyWorker
<1>3. worker' = [worker EXCEPT ![w] = b]
  BY DEF Goto
<1> HIDE DEF b
<1>4. worker'[w] = b /\ \A v \in Workers : v # w => worker'[v] = worker[v]
  BY <1>3 DEF TypeOK
<1>5. QED
  BY <1>2, <1>4 DEF Advances, KeepsEvent, Event

AfterHandler(w) == IF HandlingDLQ(w) THEN "failed" ELSE "commit"

LEMMA ReceiveEffect ==
    ASSUME TypeOK, NEW w \in Workers, NEW m \in toConsume, Receive(w, m)
    PROVE  /\ worker[w].pc = "idle"
           /\ worker'[w].msg = m
           /\ Event(w)' = HandlerEvent(m)
           /\ AlertOnly(m) => worker'[w].pc = "commit" /\ ReservationOf(m) \in alerted'
           /\ ~ AlertOnly(m) => worker'[w].pc =
                  IF HandlerEvent(m).cacheCleared THEN "vessel" ELSE "deleteData"
           /\ \A v \in Workers : v # w => worker'[v] = worker[v]
           /\ toConsume' = toConsume \ {m}
           /\ outbox' = outbox /\ published' = published
           /\ dataKey' = dataKey /\ applied' = applied
<1> DEFINE b == [pc    |-> IF AlertOnly(m) THEN "commit"
                           ELSE IF HandlerEvent(m).cacheCleared THEN "vessel" ELSE "deleteData",
                 msg   |-> m,
                 event |-> HandlerEvent(m)]
<1>1. worker' = [worker EXCEPT ![w] = b]
  BY DEF Receive
<1>2. /\ b.msg = m /\ b.event = HandlerEvent(m)
      /\ AlertOnly(m) => b.pc = "commit"
      /\ ~ AlertOnly(m) => b.pc = IF HandlerEvent(m).cacheCleared THEN "vessel" ELSE "deleteData"
  OBVIOUS
<1> HIDE DEF b
<1>3. worker'[w] = b /\ \A v \in Workers : v # w => worker'[v] = worker[v]
  BY <1>1 DEF TypeOK
<1>4. worker[w].pc = "idle"
  BY DEF Receive, IdleWorker
<1>5. /\ toConsume' = toConsume \ {m}
      /\ outbox' = outbox /\ published' = published
      /\ dataKey' = dataKey /\ applied' = applied
      /\ AlertOnly(m) => ReservationOf(m) \in alerted'
  BY DEF Receive, cacheVars
<1>6. QED
  BY <1>2, <1>3, <1>4, <1>5 DEF Event

LEMMA DeleteDataEffect ==
    ASSUME TypeOK, NEW w \in Workers, DeleteData(w)
    PROVE  LET r == Event(w).reservation
               Deleted == dataKey' = [dataKey EXCEPT ![r] = IF @ = "live" THEN "gone" ELSE @]
           IN  /\ worker[w].pc = "deleteData"
               /\ outbox' = outbox /\ applied' = applied
               /\ \/ /\ Advances(w, "vessel")
                     /\ dataKey[r] = "live"
                     /\ Deleted
                     /\ Event(w)' = [Event(w) EXCEPT !.cacheCleared = TRUE]
                     /\ TakesOverLapsed(w) => r \in lapsed'
                  \/ /\ Advances(w, AfterHandler(w)) /\ KeepsEvent(w)
                     /\ dataKey[r] # "live"
                     /\ dataKey' = dataKey
                  \/ /\ Advances(w, "retry") /\ KeepsEvent(w)
                     /\ dataKey' = dataKey \/ ("redisReplyLost" \in Faults /\ Deleted)
<1> DEFINE r == Event(w).reservation
           Deleted == dataKey' = [dataKey EXCEPT ![r] = IF @ = "live" THEN "gone" ELSE @]
<1>1. /\ worker[w].pc = "deleteData" /\ worker[w].pc # "idle"
      /\ outbox' = outbox /\ applied' = applied
      /\ toConsume' = toConsume /\ published' = published
  BY DEF DeleteData, kafkaVars
<1>2. CASE /\ dataKey[r] = "live"
           /\ Deleted
           /\ worker' = [worker EXCEPT ![w].pc = "vessel", ![w].event.cacheCleared = TRUE]
           /\ lapsed' = IF TakesOverLapsed(w) THEN lapsed \cup {r} ELSE lapsed
  <2> DEFINE b == [worker[w] EXCEPT !.pc = "vessel", !.event.cacheCleared = TRUE]
  <2>1. worker[w] \in BusyWorker /\ Event(w) \in PendingEvents
    BY <1>1, BusyType
  <2>2. /\ b.pc = "vessel" /\ b.msg = worker[w].msg
        /\ b.event = [Event(w) EXCEPT !.cacheCleared = TRUE]
    BY <2>1 DEF BusyWorker, Event
  <2>3. worker' = [worker EXCEPT ![w] = b]
    BY <1>2
  <2> HIDE DEF b
  <2>4. worker'[w] = b /\ \A v \in Workers : v # w => worker'[v] = worker[v]
    BY <2>3 DEF TypeOK
  <2>5. Advances(w, "vessel") /\ Event(w)' = [Event(w) EXCEPT !.cacheCleared = TRUE]
    BY <1>1, <2>2, <2>4 DEF Advances, Event
  <2>6. QED
    BY <1>1, <1>2, <2>5
<1>3. CASE dataKey[r] # "live" /\ dataKey' = dataKey /\ Return(w)
  <2>1. Goto(w, AfterHandler(w))
    BY <1>3 DEF Return, AfterHandler
  <2>2. Advances(w, AfterHandler(w)) /\ KeepsEvent(w)
    BY <1>1, <2>1, GotoAdvances
  <2>3. QED
    BY <1>1, <1>3, <2>2
<1>4. CASE /\ Goto(w, "retry")
           /\ dataKey' = dataKey \/ ("redisReplyLost" \in Faults /\ Deleted)
  <2>1. Advances(w, "retry") /\ KeepsEvent(w)
    BY <1>1, <1>4, GotoAdvances
  <2>2. QED
    BY <1>1, <1>4, <2>1
<1>5. QED
  BY <1>2, <1>3, <1>4 DEF DeleteData, Fault

LEMMA CallVesselEffect ==
    ASSUME TypeOK, NEW w \in Workers, CallVessel(w)
    PROVE  LET op == <<Event(w).reservation, Event(w).action>>
           IN  /\ worker[w].pc = "vessel"
               /\ outbox' = outbox /\ dataKey' = dataKey
               /\ KeepsEvent(w)
               /\ \/ Advances(w, "deleteID") /\ applied' = applied \cup {op}
                  \/ Advances(w, "retry") /\ (applied' = applied \/ applied' = applied \cup {op})
<1>1. /\ worker[w].pc = "vessel" /\ worker[w].pc # "idle"
      /\ outbox' = outbox /\ dataKey' = dataKey
      /\ toConsume' = toConsume /\ published' = published
  BY DEF CallVessel, kafkaVars, cacheVars
<1>2. \A label : Goto(w, label) => Advances(w, label) /\ KeepsEvent(w)
  BY <1>1, GotoAdvances
<1>3. QED
  BY <1>1, <1>2 DEF CallVessel

LEMMA ScheduleRetryEffect ==
    ASSUME SingleDelivery, TypeOK, NEW w \in Workers, ScheduleRetry(w)
    PROVE  /\ worker[w].pc = "retry"
           /\ Event(w) \in PendingEvents
           /\ Advances(w, AfterHandler(w)) /\ KeepsEvent(w)
           /\ outbox' = IF Scheduled(RetryMessage(Event(w))) THEN outbox
                        ELSE outbox \cup {RetryMessage(Event(w))}
           /\ dataKey' = dataKey /\ applied' = applied
<1>1. worker[w].pc = "retry" /\ worker[w].pc # "idle" /\ dataKey' = dataKey /\ applied' = applied
      /\ published' = published
  BY DEF ScheduleRetry, cacheVars
<1>2. ~ CreateEventFails(RetryMessage(Event(w)))
  BY DEF CreateEventFails, Fault, SingleDelivery
<1>3. CreateEvent(RetryMessage(Event(w))) /\ Return(w) /\ toConsume' = toConsume
  BY <1>2 DEF ScheduleRetry
<1>4. Goto(w, AfterHandler(w))
  BY <1>3 DEF Return, AfterHandler
<1>5. Advances(w, AfterHandler(w)) /\ KeepsEvent(w)
  BY <1>1, <1>3, <1>4, GotoAdvances
<1>6. Event(w) \in PendingEvents
  BY <1>1, BusyType
<1>7. QED
  BY <1>1, <1>3, <1>5, <1>6 DEF CreateEvent, Insert

LEMMA DeleteIDEffect ==
    ASSUME TypeOK, NEW w \in Workers, DeleteID(w)
    PROVE  /\ worker[w].pc = "deleteID"
           /\ Advances(w, IF Event(w).action = "CONFIRM" THEN "confirmed" ELSE AfterHandler(w))
           /\ KeepsEvent(w)
           /\ outbox' = outbox /\ dataKey' = dataKey /\ applied' = applied
<1>1. /\ worker[w].pc = "deleteID" /\ worker[w].pc # "idle"
      /\ outbox' = outbox /\ dataKey' = dataKey /\ applied' = applied
      /\ toConsume' = toConsume /\ published' = published
  BY DEF DeleteID, kafkaVars
<1>2. Goto(w, IF Event(w).action = "CONFIRM" THEN "confirmed" ELSE AfterHandler(w))
  BY DEF DeleteID, Return, AfterHandler
<1>3. QED
  BY <1>1, <1>2, GotoAdvances

(* A notice is in the outbox already when a row has its topic and its key. *)
LEMMA NoticeInserted ==
    ASSUME TypeOK, NEW t \in NoticeTopics, NEW q, Insert(Notice(t, q))
    PROVE  outbox' = outbox \cup {Notice(t, q)}
<1>1. CASE Scheduled(Notice(t, q))
  <2>1. PICK row \in outbox : row.topic = t /\ Key(row) = Key(Notice(t, q))
    BY <1>1, NoticeFacts DEF Scheduled
  <2>2. row \in Messages /\ row.topic \notin CapacityTopics /\ t \notin CapacityTopics
    BY <2>1, TopicFacts DEF TypeOK
  <2>3. row \in Notices
    BY <2>2 DEF Messages, RetryMessages, FailedMessages, CapacityTopics
  <2>4. row.reservation = q
    BY <2>1, <2>2, NoticeFacts DEF Key
  <2>5. row = Notice(t, q)
    BY <2>1, <2>3, <2>4 DEF Notices, Notice
  <2>6. QED
    BY <1>1, <2>5 DEF Insert
<1>2. QED
  BY <1>1 DEF Insert

LEMMA ConfirmedEffect ==
    ASSUME SingleDelivery, TypeOK, NEW w \in Workers, PublishReservationConfirmed(w)
    PROVE  /\ worker[w].pc = "confirmed"
           /\ Advances(w, AfterHandler(w)) /\ KeepsEvent(w)
           /\ outbox' = outbox \cup {Notice(ReservationConfirmedTopic, Event(w).reservation)}
           /\ dataKey' = dataKey /\ applied' = applied
<1> DEFINE m == Notice(ReservationConfirmedTopic, Event(w).reservation)
<1>1. /\ worker[w].pc = "confirmed" /\ worker[w].pc # "idle"
      /\ dataKey' = dataKey /\ applied' = applied
      /\ toConsume' = toConsume /\ published' = published
  BY DEF PublishReservationConfirmed, cacheVars, kafkaVars
<1>2. ~ CreateEventFails(m)
  BY DEF CreateEventFails, Fault, SingleDelivery
<1>3. Insert(m)
  BY <1>2 DEF PublishReservationConfirmed, CreateEvent
<1>4. Goto(w, AfterHandler(w))
  BY DEF PublishReservationConfirmed, Return, AfterHandler
<1>5. QED
  BY <1>1, <1>3, <1>4, NoticeInserted, GotoAdvances, TopicFacts

LEMMA FailedEffect ==
    ASSUME SingleDelivery, TypeOK, NEW w \in Workers, PublishConfirmationFailed(w)
    PROVE  /\ worker[w].pc = "failed"
           /\ Advances(w, "commit") /\ KeepsEvent(w)
           /\ outbox' = outbox \cup
                  {Notice(ConsignmentConfirmationFailedTopic, Event(w).reservation)}
           /\ dataKey' = dataKey /\ applied' = applied
<1> DEFINE m == Notice(ConsignmentConfirmationFailedTopic, Event(w).reservation)
<1>1. /\ worker[w].pc = "failed" /\ worker[w].pc # "idle"
      /\ dataKey' = dataKey /\ applied' = applied /\ published' = published
  BY DEF PublishConfirmationFailed, cacheVars
<1>2. ~ CreateEventFails(m)
  BY DEF CreateEventFails, Fault, SingleDelivery
<1>3. CreateEvent(m) /\ Goto(w, "commit") /\ toConsume' = toConsume
  BY <1>2 DEF PublishConfirmationFailed
<1>4. QED
  BY <1>1, <1>3, NoticeInserted, GotoAdvances, TopicFacts DEF CreateEvent

LEMMA CommitEffect ==
    ASSUME SingleDelivery, TypeOK, NEW w \in Workers, CommitMessage(w)
    PROVE  /\ worker[w].pc = "commit" /\ worker'[w].pc = "idle"
           /\ \A v \in Workers : v # w => worker'[v] = worker[v]
           /\ UNCHANGED <<outbox, toConsume, published, dataKey, applied>>
<1>1. UNCHANGED toConsume
  BY DEF CommitMessage, Fault, SingleDelivery
<1>2. worker'[w] = IdleWorker /\ \A v \in Workers : v # w => worker'[v] = worker[v]
  BY DEF CommitMessage, TypeOK
<1>3. QED
  BY <1>1, <1>2 DEF CommitMessage, IdleWorker, cacheVars

LEMMA PublishEffect ==
    ASSUME SingleDelivery, NEW row \in outbox, PublishOutbox(row)
    PROVE  /\ outbox' = outbox \ {row}
           /\ published' = published \cup ({row} \cap Notices)
           /\ toConsume' = IF row.topic \in InboundTopics THEN toConsume \cup {row} ELSE toConsume
           /\ worker' = worker /\ dataKey' = dataKey /\ applied' = applied
BY DEF PublishOutbox, Fault, SingleDelivery, cacheVars

LEMMA ExpiredEffect ==
    ASSUME SingleDelivery, TypeOK, NEW r \in Reservations, PublishReservationExpired(r)
    PROVE  /\ outbox' = outbox \cup {Notice(ReservationExpiredTopic, r)}
           /\ toConsume' = toConsume /\ published' = published
           /\ worker' = worker /\ dataKey' = dataKey /\ applied' = applied
<1> DEFINE m == Notice(ReservationExpiredTopic, r)
<1>1. ~ CreateEventFails(m)
  BY DEF CreateEventFails, Fault, SingleDelivery
<1>2. Insert(m)
  BY <1>1 DEF PublishReservationExpired, CreateEvent
<1>3. QED
  BY <1>2, NoticeInserted, TopicFacts DEF PublishReservationExpired, cacheVars, kafkaVars

LEMMA CapturedEffect ==
    ASSUME SingleDelivery, NEW q \in Reservations, PaymentCaptured(q)
    PROVE  /\ dataKey[q] # "none"
           /\ Notice(PaymentCapturedTopic, q) \notin published
           /\ published' = published \cup {Notice(PaymentCapturedTopic, q)}
           /\ toConsume' = toConsume \cup {Notice(PaymentCapturedTopic, q)}
           /\ outbox' = outbox
           /\ worker' = worker /\ dataKey' = dataKey /\ applied' = applied
BY DEF PaymentCaptured, Fault, SingleDelivery, cacheVars

\* The steps that touch neither messages nor workers: they may store, expire
\* or scan keys.
KeysOnly ==
    /\ UNCHANGED <<outbox, toConsume, published, worker, applied>>
    /\ \A r \in Reservations : dataKey[r] = "gone" => dataKey'[r] = "gone"
    /\ \A r \in Reservations : dataKey[r] # "none" => dataKey'[r] # "none"
    /\ \A r \in Reservations : dataKey'[r] = "gone" =>
           dataKey[r] = "gone" \/ "dataLapse" \in Faults

LEMMA KeysEffect ==
    ASSUME TypeOK,
           \/ ScanIDs \/ ScanData \/ CleanupFails \/ UNCHANGED vars
           \/ \E r \in Reservations :
                  StoreID(r) \/ StoreData(r) \/ ExpireID(r) \/ ExpireData(r)
    PROVE  KeysOnly
<1>1. CASE ScanIDs \/ ScanData \/ CleanupFails \/ UNCHANGED vars
  BY <1>1 DEF ScanIDs, ScanData, CleanupFails, vars, cacheVars, kafkaVars, KeysOnly
<1>2. ASSUME NEW q \in Reservations, StoreID(q) \/ ExpireID(q)
      PROVE  KeysOnly
  BY <1>2 DEF StoreID, ExpireID, kafkaVars, KeysOnly
<1>3. ASSUME NEW q \in Reservations, StoreData(q) \/ ExpireData(q)
      PROVE  KeysOnly
  BY <1>3 DEF StoreData, ExpireData, Fault, TypeOK, kafkaVars, KeysOnly
<1>4. QED
  BY <1>1, <1>2, <1>3

(* One step, as the effects above tell it. *)
LEMMA StepCases ==
    ASSUME SingleDelivery, TypeOK, [Next]_vars
    PROVE  \/ \E w \in Workers :
                  \/ \E m \in toConsume : Receive(w, m)
                  \/ DeleteData(w) \/ CallVessel(w) \/ ScheduleRetry(w) \/ DeleteID(w)
                  \/ PublishReservationConfirmed(w) \/ PublishConfirmationFailed(w)
                  \/ CommitMessage(w)
           \/ \E row \in outbox : PublishOutbox(row)
           \/ \E r \in Reservations : PublishReservationExpired(r) \/ PaymentCaptured(r)
           \/ KeysOnly
<1>1. \A w \in Workers : ~ Crash(w)
  BY DEF Crash, Fault, SingleDelivery
<1>2. QED
  BY <1>1, KeysEffect DEF Next, WorkerStep, CleanupStep, Environment

-----------------------------------------------------------------------------
(* A worker's event fits its message. *)

LEMMA HandlingStays ==
    ASSUME NEW v \in Workers, Handling(v), worker'[v] = worker[v]
    PROVE  Handling(v)'
BY DEF Handling, Event, HandlingDLQ

LEMMA HandlingAdvances ==
    ASSUME NEW w \in Workers, Handling(w), NEW label, Advances(w, label), KeepsEvent(w),
           label \in {"retry", "deleteID", "confirmed", "failed", "commit"},
           label # "commit" => worker[w].pc # "commit",
           label = "failed" => HandlingDLQ(w),
           label = "deleteID" => Event(w).cacheCleared,
           label = "confirmed" => Event(w).cacheCleared /\ Event(w).action = "CONFIRM"
    PROVE  Handling(w)'
BY DEF Handling, Advances, KeepsEvent, Event, HandlingDLQ

LEMMA HandlingStep ==
    ASSUME SingleDelivery, TypeOK, \A w \in Workers : Handling(w), [Next]_vars
    PROVE  \A w \in Workers : Handling(w)'
<1> SUFFICES ASSUME NEW v \in Workers PROVE Handling(v)'
  OBVIOUS
<1>1. ASSUME worker' = worker PROVE Handling(v)'
  BY <1>1, HandlingStays
<1>2. ASSUME NEW w \in Workers, NEW m \in toConsume, Receive(w, m) PROVE Handling(v)'
  <2>1. m \in InboundMessages
    BY DEF TypeOK
  <2>2. CASE v = w
    BY <1>2, <2>1, <2>2, ReceiveEffect, HandlerFacts DEF Handling, HandlingDLQ
  <2>3. CASE v # w
    BY <1>2, <2>3, ReceiveEffect, HandlingStays
  <2>4. QED
    BY <2>2, <2>3
<1>3. ASSUME NEW w \in Workers, DeleteData(w) PROVE Handling(v)'
  <2>0. worker[w].pc = "deleteData" /\ worker[w].pc # "idle" /\ Event(w) \in PendingEvents
    BY <1>3, BusyType, DeleteDataEffect
  <2>1. CASE v # w
    BY <1>3, <2>1, DeleteDataEffect, HandlingStays DEF Advances
  <2>2. CASE v = w /\ Advances(w, "vessel")
    <3>1. Event(w)' = [Event(w) EXCEPT !.cacheCleared = TRUE]
      BY <1>3, <2>2, DeleteDataEffect DEF Advances, AfterHandler
    <3>2. /\ Event(w)'.reservation = Event(w).reservation
          /\ Event(w)'.action = Event(w).action
          /\ Event(w)'.cacheCleared
      BY <2>0, <3>1 DEF PendingEvents, EventsUpTo
    <3>3. QED
      BY <2>0, <2>2, <3>2 DEF Handling, Advances, HandlingDLQ
  <2>3. CASE v = w /\ \E label \in {"retry", AfterHandler(w)} : Advances(w, label) /\ KeepsEvent(w)
    BY <2>0, <2>3, HandlingAdvances DEF AfterHandler
  <2>4. QED
    BY <1>3, <2>1, <2>2, <2>3, DeleteDataEffect
<1>4. ASSUME NEW w \in Workers, CallVessel(w) PROVE Handling(v)'
  <2>1. CASE v # w
    BY <1>4, <2>1, CallVesselEffect, HandlingStays DEF Advances
  <2>2. CASE v = w
    <3>1. Event(w).cacheCleared /\ worker[w].pc = "vessel"
      BY <1>4, CallVesselEffect DEF Handling
    <3>2. QED
      BY <1>4, <2>2, <3>1, CallVesselEffect, HandlingAdvances
  <2>3. QED
    BY <2>1, <2>2
<1>5. ASSUME NEW w \in Workers, ScheduleRetry(w) PROVE Handling(v)'
  <2>1. CASE v # w
    BY <1>5, <2>1, ScheduleRetryEffect, HandlingStays DEF Advances
  <2>2. CASE v = w
    BY <1>5, <2>2, ScheduleRetryEffect, HandlingAdvances DEF AfterHandler
  <2>3. QED
    BY <2>1, <2>2
<1>6. ASSUME NEW w \in Workers, DeleteID(w) PROVE Handling(v)'
  <2>1. CASE v # w
    BY <1>6, <2>1, DeleteIDEffect, HandlingStays DEF Advances
  <2>2. CASE v = w
    <3>1. Event(w).cacheCleared /\ worker[w].pc = "deleteID"
      BY <1>6, DeleteIDEffect DEF Handling
    <3>2. QED
      BY <1>6, <2>2, <3>1, DeleteIDEffect, HandlingAdvances DEF AfterHandler
  <2>3. QED
    BY <2>1, <2>2
<1>7. ASSUME NEW w \in Workers, PublishReservationConfirmed(w) PROVE Handling(v)'
  <2>1. CASE v # w
    BY <1>7, <2>1, ConfirmedEffect, HandlingStays DEF Advances
  <2>2. CASE v = w
    BY <1>7, <2>2, ConfirmedEffect, HandlingAdvances DEF AfterHandler
  <2>3. QED
    BY <2>1, <2>2
<1>8. ASSUME NEW w \in Workers, PublishConfirmationFailed(w) PROVE Handling(v)'
  <2>1. CASE v # w
    BY <1>8, <2>1, FailedEffect, HandlingStays DEF Advances
  <2>2. CASE v = w
    BY <1>8, <2>2, FailedEffect, HandlingAdvances
  <2>3. QED
    BY <2>1, <2>2
<1>9. ASSUME NEW w \in Workers, CommitMessage(w) PROVE Handling(v)'
  <2>1. CASE v # w
    BY <1>9, <2>1, CommitEffect, HandlingStays
  <2>2. CASE v = w
    BY <1>9, <2>2, CommitEffect DEF Handling
  <2>3. QED
    BY <2>1, <2>2
<1>10. QED
  BY StepCases, <1>1, <1>2, <1>3, <1>4, <1>5, <1>6, <1>7, <1>8, <1>9,
     PublishEffect, ExpiredEffect, CapturedEffect DEF KeysOnly

-----------------------------------------------------------------------------
(* The chain of a reservation is in one place. *)

(* A step of worker w that schedules at most m. *)
LEMMA ChainOfStep ==
    ASSUME NEW w \in Workers, NEW r, NEW m,
           \A v \in Workers : v # w => worker'[v] = worker[v],
           outbox' \subseteq outbox \cup {m},
           toConsume' \subseteq toConsume
    PROVE  Chain(r)' \subseteq (Chain(r) \ {<<"worker", w>>})
               \cup (IF Carries(w, r)' THEN {<<"worker", w>>} ELSE {})
               \cup (IF ConfirmMsg(m, r) THEN {<<"outbox", m>>} ELSE {})
<1>1. \A v \in Workers : v # w => (Carries(v, r)' <=> Carries(v, r))
  BY DEF Carries
<1>2. QED
  BY <1>1 DEF Chain

(* A step of w within its handler that schedules nothing of the chain. *)
LEMMA ChainAdvances ==
    ASSUME NEW w \in Workers, NEW r, NEW label, NEW m,
           Advances(w, label),
           worker[w].pc # "commit" \/ label = "commit",
           outbox' \subseteq outbox \cup {m},
           ~ ConfirmMsg(m, r)
    PROVE  /\ Chain(r)' \subseteq Chain(r)
           /\ label = "commit" => <<"worker", w>> \notin Chain(r)'
<1>1. Carries(w, r)' => Carries(w, r) /\ label # "commit"
  BY DEF Carries, Advances
<1>2. Carries(w, r) => <<"worker", w>> \in Chain(r)
  BY DEF Chain
<1>3. Chain(r)' \subseteq (Chain(r) \ {<<"worker", w>>})
          \cup (IF Carries(w, r)' THEN {<<"worker", w>>} ELSE {})
  BY ChainOfStep DEF Advances
<1>4. QED
  BY <1>1, <1>2, <1>3

(* A notice is reported by the step that schedules it, and stays reported. *)
LEMMA ReportedOnlyIf ==
    ASSUME NEW t, NEW r, NEW m,
           outbox' \subseteq outbox \cup {m},
           published' \subseteq published \cup outbox \cup {m},
           m # Notice(t, r)
    PROVE  Reported(t, r)' => Reported(t, r)
BY DEF Reported

LEMMA ReportedStays ==
    ASSUME SingleDelivery, TypeOK, [Next]_vars, NEW t \in NoticeTopics, NEW r \in Reservations,
           Reported(t, r)
    PROVE  Reported(t, r)'
<1>1. CASE outbox \subseteq outbox' /\ published \subseteq published'
  BY <1>1 DEF Reported
<1>2. ASSUME NEW row \in outbox, PublishOutbox(row) PROVE Reported(t, r)'
  <2>1. Notice(t, r) \in Notices
    BY NoticeType
  <2>2. QED
    BY <1>2, <2>1, PublishEffect DEF Reported
<1>3. QED
  BY StepCases, <1>1, <1>2, ReceiveEffect, DeleteDataEffect, CallVesselEffect,
     ScheduleRetryEffect, DeleteIDEffect, ConfirmedEffect, FailedEffect, CommitEffect,
     ExpiredEffect, CapturedEffect DEF Advances, KeysOnly

(* What a step that tells no outcome of r keeps of OneChain(r). *)
LEMMA OneChainMoves ==
    ASSUME NEW r, OneChain(r),
           \/ Chain(r)' \subseteq Chain(r)
           \/ \E c \in Chain(r) : \E d : Chain(r)' \subseteq (Chain(r) \ {c}) \cup {d},
           Reported(ReservationConfirmedTopic, r)' => Reported(ReservationConfirmedTopic, r),
           Reported(ConsignmentConfirmationFailedTopic, r)' =>
               Reported(ConsignmentConfirmationFailedTopic, r),
           published \subseteq published'
    PROVE  OneChain(r)'
<1>1. AtMostOne(Chain(r)')
  BY DEF OneChain, AtMostOne
<1>2. Chain(r)' # {} => Chain(r) # {}
  OBVIOUS
<1>3. Told(r)' => Told(r)
  BY DEF Told
<1>4. Told(r)' => Chain(r)' = {}
  BY <1>2, <1>3 DEF OneChain
<1>5. Notice(PaymentCapturedTopic, r) \in published => Notice(PaymentCapturedTopic, r) \in published'
  OBVIOUS
<1>6. Chain(r)' # {} \/ Told(r)' => Notice(PaymentCapturedTopic, r) \in published'
  BY <1>2, <1>3, <1>5 DEF OneChain
<1>7. ~ (/\ Reported(ReservationConfirmedTopic, r)'
         /\ Reported(ConsignmentConfirmationFailedTopic, r)')
  BY DEF OneChain
<1>8. QED
  BY <1>1, <1>4, <1>6, <1>7 DEF OneChain, AtMostOne

(* The end of the chain: the worker that carries it tells the outcome. *)
LEMMA OneChainEnds ==
    ASSUME NEW r, OneChain(r), Chain(r) # {}, Chain(r)' = {},
           NEW t \in {ReservationConfirmedTopic, ConsignmentConfirmationFailedTopic},
           \A u \in NoticeTopics : u # t => (Reported(u, r)' => Reported(u, r)),
           published' = published
    PROVE  OneChain(r)'
<1>1. ~ Told(r) /\ Notice(PaymentCapturedTopic, r) \in published
  BY DEF OneChain
<1>2. ~ (/\ Reported(ReservationConfirmedTopic, r)'
         /\ Reported(ConsignmentConfirmationFailedTopic, r)')
  BY <1>1, TopicFacts DEF Told
<1>3. QED
  BY <1>1, <1>2 DEF OneChain, AtMostOne

LEMMA OneChainStep ==
    ASSUME SingleDelivery, TypeOK, \A w \in Workers : Handling(w), [Next]_vars,
           NEW r \in Reservations, OneChain(r)
    PROVE  OneChain(r)'
<1>t. /\ ReservationConfirmedTopic \in NoticeTopics
      /\ ConsignmentConfirmationFailedTopic \in NoticeTopics
  BY TopicFacts
<1>n. ASSUME NEW m, m.topic \notin {ReservationConfirmedTopic, ConsignmentConfirmationFailedTopic},
             outbox' \subseteq outbox \cup {m}, published' \subseteq published \cup outbox \cup {m}
      PROVE  /\ Reported(ReservationConfirmedTopic, r)' => Reported(ReservationConfirmedTopic, r)
             /\ Reported(ConsignmentConfirmationFailedTopic, r)' =>
                    Reported(ConsignmentConfirmationFailedTopic, r)
  <2>1. /\ m # Notice(ReservationConfirmedTopic, r)
        /\ m # Notice(ConsignmentConfirmationFailedTopic, r)
    BY <1>n DEF Notice
  <2>2. QED
    BY <1>n, <2>1, ReportedOnlyIf
<1> DEFINE none == Notice(ReservationExpiredTopic, r)
<1>e. /\ none.topic \notin {ReservationConfirmedTopic, ConsignmentConfirmationFailedTopic}
      /\ ~ ConfirmMsg(none, r)
  BY QuietNotices
<1> HIDE DEF none
<1>0. ASSUME NEW w \in Workers, NEW label, Advances(w, label), outbox' = outbox,
             worker[w].pc # "commit"
      PROVE  OneChain(r)'
  <2>1. Chain(r)' \subseteq Chain(r)
    BY <1>0, <1>e, ChainAdvances
  <2>2. QED
    BY <1>0, <1>n, <1>e, <2>1, OneChainMoves DEF Advances
<1>1. ASSUME NEW w \in Workers, NEW m \in toConsume, Receive(w, m) PROVE OneChain(r)'
  <2>1. m \in InboundMessages
    BY DEF TypeOK
  <2>2. /\ ~ Carries(w, r)
        /\ Carries(w, r)' => ConfirmMsg(m, r)
        /\ <<"topic", m>> \notin Chain(r)'
        /\ ConfirmMsg(m, r) => <<"topic", m>> \in Chain(r)
    BY <1>1, ReceiveEffect DEF Carries, Chain
  <2>3. Chain(r)' \subseteq Chain(r) \cup (IF Carries(w, r)' THEN {<<"worker", w>>} ELSE {})
    BY <1>1, <1>e, ReceiveEffect, ChainOfStep
  <2>4. \/ Chain(r)' \subseteq Chain(r)
        \/ \E c \in Chain(r) : \E d : Chain(r)' \subseteq (Chain(r) \ {c}) \cup {d}
    <3>1. CASE ConfirmMsg(m, r)
      <4>1. Chain(r)' \subseteq (Chain(r) \ {<<"topic", m>>}) \cup {<<"worker", w>>}
        BY <2>2, <2>3
      <4>2. QED
        BY <2>2, <3>1, <4>1
    <3>2. CASE ~ ConfirmMsg(m, r)
      BY <2>2, <2>3, <3>2
    <3>3. QED
      BY <3>1, <3>2
  <2>5. QED
    BY <1>1, <1>n, <1>e, <2>4, ReceiveEffect, OneChainMoves
<1>2. ASSUME NEW w \in Workers, DeleteData(w) \/ CallVessel(w) \/ DeleteID(w) PROVE OneChain(r)'
  BY <1>0, <1>2, DeleteDataEffect, CallVesselEffect, DeleteIDEffect
<1>3. ASSUME NEW w \in Workers, ScheduleRetry(w) PROVE OneChain(r)'
  <2> DEFINE m == RetryMessage(Event(w))
  <2>1. /\ worker[w].pc = "retry" /\ worker[w].pc # "idle" /\ Event(w) \in PendingEvents
        /\ Advances(w, AfterHandler(w))
        /\ outbox' = outbox \/ outbox' = outbox \cup {m}
    BY <1>3, ScheduleRetryEffect
  <2>2. /\ m.topic \in CapacityTopics
        /\ ConfirmMsg(m, r) => Event(w).reservation = r /\ Event(w).action = "CONFIRM"
    BY <2>1, RetryFacts
  <2>3. m.topic \notin {ReservationConfirmedTopic, ConsignmentConfirmationFailedTopic}
    BY <2>2, TopicFacts
  <2>4. published' = published
    BY <2>1 DEF Advances
  <2> HIDE DEF m
  <2>5. \/ Chain(r)' \subseteq Chain(r)
        \/ \E c \in Chain(r) : \E d : Chain(r)' \subseteq (Chain(r) \ {c}) \cup {d}
    <3>1. CASE ConfirmMsg(m, r)
      <4>1. ~ HandlingDLQ(w)
        BY <2>1, <2>2, <3>1 DEF Handling
      <4>2. ConfirmMsg(worker[w].msg, r) /\ AfterHandler(w) = "commit"
        BY <2>1, <2>2, <3>1, <4>1 DEF Handling, AfterHandler
      <4>3. <<"worker", w>> \in Chain(r) /\ ~ Carries(w, r)'
        BY <2>1, <4>2 DEF Chain, Carries, Advances
      <4>4. Chain(r)' \subseteq (Chain(r) \ {<<"worker", w>>}) \cup {<<"outbox", m>>}
        BY <2>1, <4>3, ChainOfStep DEF Advances
      <4>5. QED
        BY <4>3, <4>4
    <3>2. CASE ~ ConfirmMsg(m, r)
      BY <2>1, <3>2, ChainAdvances
    <3>3. QED
      BY <3>1, <3>2
  <2>6. QED
    BY <1>n, <2>1, <2>3, <2>4, <2>5, OneChainMoves
<1>4. ASSUME NEW w \in Workers, NEW t \in {ReservationConfirmedTopic, ConsignmentConfirmationFailedTopic},
             Advances(w, "commit"), worker[w].pc # "commit",
             outbox' = outbox \cup {Notice(t, Event(w).reservation)},
             ConfirmMsg(worker[w].msg, Event(w).reservation)
      PROVE  OneChain(r)'
  <2> DEFINE m == Notice(t, Event(w).reservation)
  <2>1. /\ t \in NoticeTopics /\ ~ ConfirmMsg(m, r)
        /\ \A u : u # t => m # Notice(u, r)
        /\ Event(w).reservation # r => m # Notice(t, r)
    BY TopicFacts, QuietNotices DEF Notice
  <2>2. /\ Chain(r)' \subseteq Chain(r) /\ <<"worker", w>> \notin Chain(r)'
        /\ published' = published
    BY <1>4, <2>1, ChainAdvances DEF Advances
  <2>3. \A u : u # t => (Reported(u, r)' => Reported(u, r))
    BY <1>4, <2>1, <2>2, ReportedOnlyIf
  <2>4. CASE Event(w).reservation = r
    <3>1. <<"worker", w>> \in Chain(r)
      BY <1>4, <2>4 DEF Chain, Carries, Advances
    <3>2. Chain(r)' = {}
      BY <2>2, <3>1 DEF OneChain, AtMostOne
    <3>3. QED
      BY <2>2, <2>3, <3>1, <3>2, OneChainEnds
  <2>5. CASE Event(w).reservation # r
    <3>1. Reported(t, r)' => Reported(t, r)
      BY <1>4, <2>1, <2>2, <2>5, ReportedOnlyIf
    <3>2. QED
      BY <2>2, <2>3, <3>1, OneChainMoves
  <2>6. QED
    BY <2>4, <2>5
<1>5. ASSUME NEW w \in Workers, PublishReservationConfirmed(w) PROVE OneChain(r)'
  <2>1. /\ worker[w].pc = "confirmed" /\ Advances(w, AfterHandler(w))
        /\ outbox' = outbox \cup {Notice(ReservationConfirmedTopic, Event(w).reservation)}
    BY <1>5, ConfirmedEffect
  <2>2. Event(w).action = "CONFIRM" /\ ~ HandlingDLQ(w)
    BY <2>1 DEF Handling
  <2>3. AfterHandler(w) = "commit" /\ ConfirmMsg(worker[w].msg, Event(w).reservation)
    BY <2>1, <2>2 DEF Handling, AfterHandler
  <2>4. QED
    BY <1>4, <2>1, <2>3
<1>6. ASSUME NEW w \in Workers, PublishConfirmationFailed(w) PROVE OneChain(r)'
  <2>1. /\ worker[w].pc = "failed" /\ Advances(w, "commit")
        /\ outbox' = outbox \cup
               {Notice(ConsignmentConfirmationFailedTopic, Event(w).reservation)}
    BY <1>6, FailedEffect
  <2>2. /\ worker[w].msg.topic = CapacityFailedTopic
        /\ worker[w].msg.event.action = "CONFIRM"
        /\ Event(w).reservation = ReservationOf(worker[w].msg)
    BY <2>1 DEF Handling, HandlingDLQ
  <2>3. ConfirmMsg(worker[w].msg, Event(w).reservation)
    BY <2>2, TopicFacts DEF ConfirmMsg, ReservationOf
  <2>4. QED
    BY <1>4, <2>1, <2>3
<1>7. ASSUME NEW w \in Workers, CommitMessage(w) PROVE OneChain(r)'
  <2>1. ~ Carries(w, r)' /\ worker[w].pc = "commit"
    BY <1>7, CommitEffect DEF Carries
  <2>2. Chain(r)' \subseteq Chain(r)
    BY <1>7, <1>e, <2>1, CommitEffect, ChainOfStep
  <2>3. QED
    BY <1>7, <1>n, <1>e, <2>2, CommitEffect, OneChainMoves
<1>8. ASSUME NEW row \in outbox, PublishOutbox(row) PROVE OneChain(r)'
  <2>1. /\ outbox' \subseteq outbox /\ published \subseteq published'
        /\ published' \subseteq published \cup outbox
    BY <1>8, PublishEffect
  <2>2. Chain(r)' \subseteq (Chain(r) \ {<<"outbox", row>>})
            \cup (IF ConfirmMsg(row, r) THEN {<<"topic", row>>} ELSE {})
    BY <1>8, PublishEffect DEF Chain, Carries
  <2>3. ConfirmMsg(row, r) => <<"outbox", row>> \in Chain(r)
    BY DEF Chain
  <2>4. \/ Chain(r)' \subseteq Chain(r)
        \/ \E c \in Chain(r) : \E d : Chain(r)' \subseteq (Chain(r) \ {c}) \cup {d}
    BY <2>2, <2>3
  <2>5. QED
    BY <1>n, <1>e, <2>1, <2>4, OneChainMoves
<1>9. ASSUME NEW q \in Reservations, PublishReservationExpired(q) PROVE OneChain(r)'
  <2> DEFINE m == Notice(ReservationExpiredTopic, q)
  <2>1. /\ m.topic \notin {ReservationConfirmedTopic, ConsignmentConfirmationFailedTopic}
        /\ ~ ConfirmMsg(m, r)
    BY QuietNotices
  <2>2. /\ outbox' = outbox \cup {m} /\ published' = published
        /\ toConsume' = toConsume /\ worker' = worker
    BY <1>9, ExpiredEffect
  <2>3. Chain(r)' \subseteq Chain(r)
    BY <2>1, <2>2 DEF Chain, Carries
  <2>4. QED
    BY <1>n, <2>1, <2>2, <2>3, OneChainMoves
<1>10. ASSUME NEW q \in Reservations, PaymentCaptured(q) PROVE OneChain(r)'
  <2> DEFINE m == Notice(PaymentCapturedTopic, q)
  <2>1. /\ m.topic \notin {ReservationConfirmedTopic, ConsignmentConfirmationFailedTopic}
        /\ ConfirmMsg(m, r) <=> q = r
    BY QuietNotices
  <2>2. /\ m \notin published /\ published' = published \cup {m}
        /\ toConsume' = toConsume \cup {m}
        /\ outbox' = outbox /\ worker' = worker
    BY <1>10, CapturedEffect
  <2>3. Chain(r)' \subseteq Chain(r) \cup (IF q = r THEN {<<"topic", m>>} ELSE {})
    BY <2>1, <2>2 DEF Chain, Carries
  <2>4. CASE q # r
    BY <1>n, <2>1, <2>2, <2>3, <2>4, OneChainMoves
  <2>5. CASE q = r
    <3>1. Chain(r) = {} /\ ~ Told(r)
      BY <2>2, <2>5 DEF OneChain
    <3>2. /\ ~ Reported(ReservationConfirmedTopic, r)'
          /\ ~ Reported(ConsignmentConfirmationFailedTopic, r)'
      BY <1>n, <2>1, <2>2, <3>1 DEF Told
    <3>3. m \in published' /\ AtMostOne(Chain(r)')
      BY <2>2, <2>3, <3>1 DEF AtMostOne
    <3>4. Notice(PaymentCapturedTopic, r) \in published'
      BY <2>5, <3>3
    <3>5. QED
      BY <3>2, <3>3, <3>4 DEF OneChain, Told, AtMostOne
  <2>6. QED
    BY <2>4, <2>5
<1>11. CASE KeysOnly
  <2>1. Chain(r)' = Chain(r)
    BY <1>11 DEF KeysOnly, Chain, Carries
  <2>2. QED
    BY <1>n, <1>e, <1>11, <2>1, OneChainMoves DEF KeysOnly
<1>12. QED
  BY StepCases, <1>1, <1>2, <1>3, <1>5, <1>6, <1>7, <1>8, <1>9, <1>10, <1>11

OutcomeInv ==
    /\ \A w \in Workers : Handling(w)
    /\ \A r \in Reservations : OneChain(r) /\ OneToken(r)

LEMMA OutcomeInit == Init => OutcomeInv
<1> SUFFICES ASSUME Init PROVE OutcomeInv
  OBVIOUS
<1>1. /\ outbox = {} /\ toConsume = {} /\ published = {} /\ applied = {}
      /\ \A w \in Workers : worker[w].pc = "idle"
  BY DEF Init, IdleWorker
<1>2. ASSUME NEW r \in Reservations
      PROVE  Chain(r) = {} /\ Token(r) = {} /\ \A t : ~ Reported(t, r)
  BY <1>1 DEF Chain, Token, Carries, Holds, Reported
<1>3. QED
  BY <1>1, <1>2 DEF OutcomeInv, Handling, OneChain, OneToken, AtMostOne, Told

-----------------------------------------------------------------------------
(* The token of a reservation is in one place. *)

LEMMA TokenOfStep ==
    ASSUME NEW w \in Workers, NEW r, NEW m,
           \A v \in Workers : v # w => worker'[v] = worker[v],
           outbox' \subseteq outbox \cup {m},
           toConsume' \subseteq toConsume
    PROVE  /\ Token(r)' \subseteq (Token(r) \ {<<"worker", w>>})
                  \cup (IF Holds(w, r)' THEN {<<"worker", w>>} ELSE {})
                  \cup (IF Cleared(m, r) THEN {<<"outbox", m>>} ELSE {})
           /\ ConfirmHeld(r)' =>
                  \/ ConfirmHeld(r)
                  \/ Holds(w, r)' /\ Event(w)'.action # "RELEASE"
                  \/ Cleared(m, r) /\ m.event.action # "RELEASE"
<1>1. \A v \in Workers : v # w => (Holds(v, r)' <=> Holds(v, r)) /\ Event(v)' = Event(v)
  BY DEF Holds, Event
<1>2. Token(r)' \subseteq (Token(r) \ {<<"worker", w>>})
                  \cup (IF Holds(w, r)' THEN {<<"worker", w>>} ELSE {})
                  \cup (IF Cleared(m, r) THEN {<<"outbox", m>>} ELSE {})
  BY <1>1 DEF Token
<1>3. ASSUME ConfirmHeld(r)', ~ ConfirmHeld(r)
      PROVE  \/ Holds(w, r)' /\ Event(w)'.action # "RELEASE"
             \/ Cleared(m, r) /\ m.event.action # "RELEASE"
  BY <1>1, <1>3 DEF ConfirmHeld
<1>4. QED
  BY <1>2, <1>3

(* What a step that adds no operation and confirms nothing keeps. *)
LEMMA OneTokenMoves ==
    ASSUME NEW r, OneToken(r),
           \/ Token(r)' \subseteq Token(r)
           \/ \E c \in Token(r) : \E d : Token(r)' \subseteq (Token(r) \ {c}) \cup {d},
           ConfirmHeld(r)' => ConfirmHeld(r),
           dataKey[r] = "gone" => dataKey'[r] = "gone",
           \A a : <<r, a>> \in applied' => <<r, a>> \in applied,
           Reported(ReservationConfirmedTopic, r)' => Reported(ReservationConfirmedTopic, r)
    PROVE  OneToken(r)'
<1>1. AtMostOne(Token(r)')
  BY DEF OneToken, AtMostOne
<1>2. Token(r)' # {} => Token(r) # {}
  OBVIOUS
<1>3. Token(r)' # {} => dataKey'[r] = "gone"
  BY <1>2 DEF OneToken
<1>4. \A a \in Actions : <<r, a>> \in applied' => dataKey'[r] = "gone"
  BY DEF OneToken
<1>5. <<r, "RELEASE">> \in applied' => ~ ConfirmHeld(r)'
  BY DEF OneToken
<1>6. Reported(ReservationConfirmedTopic, r)' =>
          Token(r)' = {} /\ <<r, "RELEASE">> \notin applied'
  BY <1>2 DEF OneToken
<1>7. QED
  BY <1>1, <1>3, <1>4, <1>5, <1>6 DEF OneToken, AtMostOne

(* A step of w within its handler that gives it no token it had not. *)
LEMMA TokenAdvances ==
    ASSUME NEW w \in Workers, NEW r, NEW label, NEW m,
           Advances(w, label), KeepsEvent(w),
           label \in {"retry", "deleteID", "confirmed", "failed", "commit"},
           label \in {"retry", "deleteID", "confirmed"} =>
               (worker[w].pc \in {"vessel", "retry", "deleteID", "confirmed"}
                \/ ~ Event(w).cacheCleared),
           outbox' \subseteq outbox \cup {m},
           ~ Cleared(m, r)
    PROVE  /\ Token(r)' \subseteq Token(r) /\ (ConfirmHeld(r)' => ConfirmHeld(r))
           /\ label \in {"failed", "commit"} => <<"worker", w>> \notin Token(r)'
<1>1. Holds(w, r)' => Holds(w, r) /\ label \notin {"failed", "commit"}
  BY DEF Holds, Advances, KeepsEvent
<1>2. Holds(w, r) => <<"worker", w>> \in Token(r)
  BY DEF Token
<1>3. Token(r)' \subseteq (Token(r) \ {<<"worker", w>>})
          \cup (IF Holds(w, r)' THEN {<<"worker", w>>} ELSE {})
  BY TokenOfStep DEF Advances
<1>4. ConfirmHeld(r)' => ConfirmHeld(r) \/ (Holds(w, r)' /\ Event(w)'.action # "RELEASE")
  BY TokenOfStep DEF Advances
<1>5. ConfirmHeld(r)' => ConfirmHeld(r)
  BY <1>1, <1>4 DEF ConfirmHeld, KeepsEvent
<1>6. QED
  BY <1>1, <1>2, <1>3, <1>5

(* Where the only token of r is with w, it is w that would confirm. *)
LEMMA TokenIsWith ==
    ASSUME NEW w \in Workers, NEW r, AtMostOne(Token(r)), Holds(w, r)
    PROVE  /\ Token(r) = {<<"worker", w>>}
           /\ ConfirmHeld(r) <=> Event(w).action # "RELEASE"
<1>1. <<"worker", w>> \in Token(r)
  BY DEF Token
<1>2. Token(r) = {<<"worker", w>>}
  BY <1>1 DEF AtMostOne
<1>3. ASSUME NEW m \in outbox \cup toConsume, Cleared(m, r) PROVE FALSE
  <2>1. <<"outbox", m>> \in Token(r) \/ <<"topic", m>> \in Token(r)
    BY <1>3 DEF Token
  <2>2. <<"outbox", m>> = <<"worker", w>> \/ <<"topic", m>> = <<"worker", w>>
    BY <1>2, <2>1
  <2>3. QED
    BY <2>2
<1>4. ASSUME NEW v \in Workers, Holds(v, r) PROVE v = w
  <2>1. <<"worker", v>> \in Token(r)
    BY <1>4 DEF Token
  <2>2. <<"worker", v>> = <<"worker", w>>
    BY <1>2, <2>1
  <2>3. QED
    BY <2>2
<1>5. QED
  BY <1>2, <1>3, <1>4 DEF ConfirmHeld

LEMMA OneTokenStep ==
    ASSUME SingleDelivery, TypeOK, ConfirmInv, \A w \in Workers : Handling(w), [Next]_vars,
           NEW r \in Reservations, OneToken(r)
    PROVE  OneToken(r)'
<1>n. ASSUME NEW t \in NoticeTopics, NEW q
      PROVE  ~ Cleared(Notice(t, q), r)
  BY NoticeFacts
<1> DEFINE none == Notice(ReservationExpiredTopic, r)
<1>e. /\ ~ Cleared(none, r)
      /\ none # Notice(ReservationConfirmedTopic, r)
  BY <1>n, TopicFacts, QuietNotices DEF Notice
<1> HIDE DEF none
<1>r. ASSUME NEW m, m # Notice(ReservationConfirmedTopic, r),
             outbox' \subseteq outbox \cup {m}, published' \subseteq published \cup outbox \cup {m}
      PROVE  Reported(ReservationConfirmedTopic, r)' => Reported(ReservationConfirmedTopic, r)
  BY <1>r, ReportedOnlyIf
<1>0. ASSUME NEW w \in Workers, NEW label,
             Advances(w, label), KeepsEvent(w),
             label \in {"retry", "deleteID", "confirmed", "failed", "commit"},
             label \in {"retry", "deleteID", "confirmed"} =>
                 (worker[w].pc \in {"vessel", "retry", "deleteID", "confirmed"}
                  \/ ~ Event(w).cacheCleared),
             outbox' = outbox,
             dataKey[r] = "gone" => dataKey'[r] = "gone",
             applied' = applied
      PROVE  OneToken(r)'
  <2>1. Token(r)' \subseteq Token(r) /\ (ConfirmHeld(r)' => ConfirmHeld(r))
    BY <1>0, <1>e, TokenAdvances
  <2>2. Reported(ReservationConfirmedTopic, r)' => Reported(ReservationConfirmedTopic, r)
    BY <1>0, <1>e, <1>r DEF Advances
  <2>3. QED
    BY <1>0, <2>1, <2>2, OneTokenMoves
<1>1. ASSUME NEW w \in Workers, NEW m \in toConsume, Receive(w, m) PROVE OneToken(r)'
  <2>1. m \in InboundMessages
    BY DEF TypeOK
  <2>2. /\ ~ Holds(w, r)
        /\ Holds(w, r)' => Cleared(m, r)
        /\ Holds(w, r)' => (Event(w)'.action # "RELEASE" => m.event.action # "RELEASE")
    BY <1>1, <2>1, ReceiveEffect, HandlerFacts DEF Holds
  <2>3. /\ Token(r)' \subseteq Token(r) \cup (IF Holds(w, r)' THEN {<<"worker", w>>} ELSE {})
        /\ ConfirmHeld(r)' =>
               ConfirmHeld(r) \/ (Holds(w, r)' /\ Event(w)'.action # "RELEASE")
    BY <1>1, <1>e, ReceiveEffect, TokenOfStep
  <2>4. ConfirmHeld(r)' => ConfirmHeld(r)
    BY <2>2, <2>3 DEF ConfirmHeld
  <2>5. \/ Token(r)' \subseteq Token(r)
        \/ \E c \in Token(r) : \E d : Token(r)' \subseteq (Token(r) \ {c}) \cup {d}
    <3>1. CASE Holds(w, r)'
      <4>1. <<"topic", m>> \in Token(r) /\ <<"topic", m>> \notin Token(r)'
        BY <1>1, <2>2, <3>1, ReceiveEffect DEF Token
      <4>2. Token(r)' \subseteq (Token(r) \ {<<"topic", m>>}) \cup {<<"worker", w>>}
        BY <2>3, <4>1
      <4>3. QED
        BY <4>1, <4>2
    <3>2. CASE ~ Holds(w, r)'
      BY <2>3, <3>2
    <3>3. QED
      BY <3>1, <3>2
  <2>6. Reported(ReservationConfirmedTopic, r)' => Reported(ReservationConfirmedTopic, r)
    BY <1>1, <1>e, <1>r, ReceiveEffect
  <2>7. QED
    BY <1>1, <2>4, <2>5, <2>6, ReceiveEffect, OneTokenMoves
<1>2. ASSUME NEW w \in Workers, DeleteData(w) PROVE OneToken(r)'
  <2> DEFINE q == Event(w).reservation
             Deleted == dataKey' = [dataKey EXCEPT ![q] = IF @ = "live" THEN "gone" ELSE @]
  <2>0. /\ worker[w].pc = "deleteData" /\ worker[w].pc # "idle"
        /\ outbox' = outbox /\ applied' = applied
    BY <1>2, DeleteDataEffect
  <2>1. ~ Event(w).cacheCleared /\ q \in Reservations /\ Event(w) \in PendingEvents
    BY <2>0, BusyType DEF Handling, PendingEvents, EventsUpTo
  <2>2. dataKey[r] = "gone" => dataKey'[r] = "gone"
    BY <1>2, DeleteDataEffect DEF TypeOK
  <2>3. CASE \E label \in {"failed", "commit", "retry"} : Advances(w, label) /\ KeepsEvent(w)
    BY <1>0, <2>0, <2>1, <2>2, <2>3
  <2>4. CASE /\ Advances(w, "vessel") /\ dataKey[q] = "live" /\ Deleted
             /\ Event(w)' = [Event(w) EXCEPT !.cacheCleared = TRUE]
    <3>1. Event(w)'.reservation = q
      BY <2>1, <2>4 DEF PendingEvents, EventsUpTo
    <3>2. /\ Token(r)' \subseteq Token(r) \cup (IF Holds(w, r)' THEN {<<"worker", w>>} ELSE {})
          /\ ConfirmHeld(r)' =>
                 ConfirmHeld(r) \/ (Holds(w, r)' /\ Event(w)'.action # "RELEASE")
      BY <1>e, <2>0, <2>4, TokenOfStep DEF Advances
    <3>3. Reported(ReservationConfirmedTopic, r)' => Reported(ReservationConfirmedTopic, r)
      BY <1>e, <1>r, <2>0, <2>4 DEF Advances
    <3>4. CASE q # r
      <4>1. ~ Holds(w, r)'
        BY <3>1, <3>4 DEF Holds
      <4>2. QED
        BY <2>0, <2>2, <3>2, <3>3, <4>1, OneTokenMoves
    <3>5. CASE q = r
      <4>1. Token(r) = {} /\ \A a \in Actions : <<r, a>> \notin applied
        BY <2>4, <3>5 DEF OneToken
      <4>2. ~ Reported(ReservationConfirmedTopic, r)
        BY <4>1 DEF ConfirmInv, ConfirmedImpliesVesselConfirm, Actions
      <4>3. AtMostOne(Token(r)')
        BY <3>2, <4>1 DEF AtMostOne
      <4>4. dataKey'[r] = "gone"
        BY <2>1, <2>4, <3>5 DEF TypeOK
      <4>5. <<r, "RELEASE">> \notin applied'
        BY <2>0, <4>1 DEF Actions
      <4>6. QED
        BY <3>3, <4>2, <4>3, <4>4, <4>5 DEF OneToken, AtMostOne
    <3>6. QED
      BY <3>4, <3>5
  <2>5. AfterHandler(w) \in {"failed", "commit"}
    BY DEF AfterHandler
  <2>6. QED
    BY <1>2, <2>3, <2>4, <2>5, DeleteDataEffect
<1>3. ASSUME NEW w \in Workers, CallVessel(w) PROVE OneToken(r)'
  <2> DEFINE q == Event(w).reservation
             a == Event(w).action
  <2>0. /\ worker[w].pc = "vessel" /\ worker[w].pc # "idle"
        /\ outbox' = outbox /\ dataKey' = dataKey /\ KeepsEvent(w)
        /\ applied' = applied \/ applied' = applied \cup {<<q, a>>}
    BY <1>3, CallVesselEffect
  <2>1. PICK label \in {"deleteID", "retry"} : Advances(w, label)
    BY <1>3, CallVesselEffect
  <2>2. CASE applied' = applied
    BY <1>0, <2>0, <2>1, <2>2
  <2>3. CASE applied' = applied \cup {<<q, a>>}
    <3>1. Token(r)' \subseteq Token(r) /\ (ConfirmHeld(r)' => ConfirmHeld(r))
      BY <1>e, <2>0, <2>1, TokenAdvances
    <3>2. Reported(ReservationConfirmedTopic, r)' => Reported(ReservationConfirmedTopic, r)
      BY <1>e, <1>r, <2>0, <2>1 DEF Advances
    <3>3. CASE q # r
      <4>1. \A x : <<r, x>> \in applied' => <<r, x>> \in applied
        BY <2>3, <3>3
      <4>2. QED
        BY <2>0, <3>1, <3>2, <4>1, OneTokenMoves
    <3>4. CASE q = r
      <4>1. Holds(w, r)
        BY <2>0, <3>4 DEF Holds, Handling
      <4>2. /\ Token(r) = {<<"worker", w>>}
            /\ ConfirmHeld(r) <=> a # "RELEASE"
        BY <4>1, TokenIsWith DEF OneToken
      <4>3. /\ AtMostOne(Token(r)') /\ dataKey'[r] = "gone"
            /\ ~ Reported(ReservationConfirmedTopic, r)'
        BY <2>0, <3>1, <3>2, <4>2 DEF OneToken, AtMostOne
      <4>4. <<r, "RELEASE">> \in applied' => ~ ConfirmHeld(r)'
        BY <2>3, <3>1, <3>4, <4>2 DEF OneToken
      <4>5. QED
        BY <4>3, <4>4 DEF OneToken, AtMostOne
    <3>5. QED
      BY <3>3, <3>4
  <2>4. QED
    BY <2>0, <2>2, <2>3
<1>4. ASSUME NEW w \in Workers, ScheduleRetry(w) PROVE OneToken(r)'
  <2> DEFINE m == RetryMessage(Event(w))
  <2>1. /\ worker[w].pc = "retry" /\ Event(w) \in PendingEvents
        /\ Advances(w, AfterHandler(w)) /\ KeepsEvent(w)
        /\ AfterHandler(w) \in {"failed", "commit"}
        /\ outbox' = outbox \/ outbox' = outbox \cup {m}
        /\ dataKey' = dataKey /\ applied' = applied
    BY <1>4, ScheduleRetryEffect DEF AfterHandler
  <2>2. /\ m.topic \in CapacityTopics
        /\ m.event.action = Event(w).action
        /\ Cleared(m, r) <=> Holds(w, r)
    BY <2>1, RetryFacts DEF Holds
  <2>3. m # Notice(ReservationConfirmedTopic, r)
    BY <2>2, TopicFacts DEF Notice
  <2> HIDE DEF m
  <2>4. Reported(ReservationConfirmedTopic, r)' => Reported(ReservationConfirmedTopic, r)
    BY <1>r, <2>1, <2>3 DEF Advances
  <2>5. CASE Cleared(m, r)
    <3>1. ~ Holds(w, r)'
      BY <2>1 DEF Holds, Advances
    <3>2. <<"worker", w>> \in Token(r)
      BY <2>2, <2>5 DEF Token
    <3>3. /\ Token(r)' \subseteq (Token(r) \ {<<"worker", w>>}) \cup {<<"outbox", m>>}
          /\ ConfirmHeld(r)' => ConfirmHeld(r) \/ m.event.action # "RELEASE"
      BY <2>1, <2>5, <3>1, TokenOfStep DEF Advances
    <3>4. ConfirmHeld(r)' => ConfirmHeld(r)
      BY <2>2, <2>5, <3>3 DEF ConfirmHeld
    <3>5. QED
      BY <2>1, <2>4, <3>2, <3>3, <3>4, OneTokenMoves
  <2>6. CASE ~ Cleared(m, r)
    <3>1. Token(r)' \subseteq Token(r) /\ (ConfirmHeld(r)' => ConfirmHeld(r))
      BY <2>1, <2>6, TokenAdvances
    <3>2. QED
      BY <2>1, <2>4, <3>1, OneTokenMoves
  <2>7. QED
    BY <2>5, <2>6
<1>5. ASSUME NEW w \in Workers, DeleteID(w) PROVE OneToken(r)'
  BY <1>0, <1>5, DeleteIDEffect DEF AfterHandler
<1>6. ASSUME NEW w \in Workers, PublishReservationConfirmed(w) PROVE OneToken(r)'
  <2> DEFINE q == Event(w).reservation
             m == Notice(ReservationConfirmedTopic, q)
  <2>1. /\ worker[w].pc = "confirmed"
        /\ Advances(w, AfterHandler(w)) /\ KeepsEvent(w)
        /\ AfterHandler(w) \in {"failed", "commit"}
        /\ outbox' = outbox \cup {m}
        /\ dataKey' = dataKey /\ applied' = applied
    BY <1>6, ConfirmedEffect DEF AfterHandler
  <2>2. ~ Cleared(m, r)
    BY <1>n, TopicFacts
  <2>3. /\ Token(r)' \subseteq Token(r) /\ <<"worker", w>> \notin Token(r)'
        /\ ConfirmHeld(r)' => ConfirmHeld(r)
    BY <2>1, <2>2, TokenAdvances
  <2>4. CASE q # r
    <3>1. m # Notice(ReservationConfirmedTopic, r)
      BY <2>4 DEF Notice
    <3>2. QED
      BY <1>r, <2>1, <2>3, <3>1, OneTokenMoves DEF Advances
  <2>5. CASE q = r
    <3>1. Holds(w, r) /\ Event(w).action = "CONFIRM"
      BY <2>1, <2>5 DEF Holds, Handling
    <3>2. Token(r) = {<<"worker", w>>} /\ ConfirmHeld(r)
      BY <3>1, TokenIsWith DEF OneToken
    <3>3. Token(r)' = {}
      BY <2>3, <3>2
    <3>4. <<r, "RELEASE">> \notin applied'
      BY <2>1, <3>2 DEF OneToken
    <3>5. \A x \in Actions : <<r, x>> \in applied' => dataKey'[r] = "gone"
      BY <2>1 DEF OneToken
    <3>6. QED
      BY <3>3, <3>4, <3>5 DEF OneToken, AtMostOne
  <2>6. QED
    BY <2>4, <2>5
<1>7. ASSUME NEW w \in Workers, PublishConfirmationFailed(w) PROVE OneToken(r)'
  <2> DEFINE m == Notice(ConsignmentConfirmationFailedTopic, Event(w).reservation)
  <2>1. ~ Cleared(m, r) /\ m # Notice(ReservationConfirmedTopic, r)
    BY <1>n, TopicFacts DEF Notice
  <2>2. /\ Advances(w, "commit") /\ KeepsEvent(w)
        /\ outbox' = outbox \cup {m}
        /\ dataKey' = dataKey /\ applied' = applied
    BY <1>7, FailedEffect
  <2> HIDE DEF m
  <2>3. Token(r)' \subseteq Token(r) /\ (ConfirmHeld(r)' => ConfirmHeld(r))
    BY <2>1, <2>2, TokenAdvances
  <2>4. QED
    BY <1>r, <2>1, <2>2, <2>3, OneTokenMoves DEF Advances
<1>8. ASSUME NEW w \in Workers, CommitMessage(w) PROVE OneToken(r)'
  <2>1. ~ Holds(w, r)'
    BY <1>8, CommitEffect DEF Holds
  <2>2. Token(r)' \subseteq Token(r) /\ (ConfirmHeld(r)' => ConfirmHeld(r))
    BY <1>8, <1>e, <2>1, CommitEffect, TokenOfStep
  <2>3. QED
    BY <1>8, <1>r, <1>e, <2>2, CommitEffect, OneTokenMoves
<1>9. ASSUME NEW row \in outbox, PublishOutbox(row) PROVE OneToken(r)'
  <2>1. /\ outbox' \subseteq outbox /\ published' \subseteq published \cup outbox
        /\ worker' = worker /\ dataKey' = dataKey /\ applied' = applied
    BY <1>9, PublishEffect
  <2>2. Token(r)' \subseteq (Token(r) \ {<<"outbox", row>>})
            \cup (IF Cleared(row, r) THEN {<<"topic", row>>} ELSE {})
    BY <1>9, PublishEffect DEF Token, Holds, Event
  <2>3. Cleared(row, r) => <<"outbox", row>> \in Token(r)
    BY DEF Token
  <2>4. \/ Token(r)' \subseteq Token(r)
        \/ \E c \in Token(r) : \E d : Token(r)' \subseteq (Token(r) \ {c}) \cup {d}
    BY <2>2, <2>3
  <2>5. ConfirmHeld(r)' => ConfirmHeld(r)
    BY <1>9, PublishEffect DEF ConfirmHeld, Holds, Event
  <2>6. QED
    BY <1>r, <1>e, <2>1, <2>4, <2>5, OneTokenMoves
<1>10. ASSUME NEW q \in Reservations, NEW t \in {ReservationExpiredTopic, PaymentCapturedTopic},
              outbox' \subseteq outbox \cup {Notice(t, q)},
              toConsume' \subseteq toConsume \cup {Notice(t, q)},
              published' \subseteq published \cup {Notice(t, q)},
              worker' = worker, dataKey' = dataKey, applied' = applied
       PROVE  OneToken(r)'
  <2>1. ~ Cleared(Notice(t, q), r) /\ Notice(t, q) # Notice(ReservationConfirmedTopic, r)
    BY <1>n, TopicFacts, QuietNotices DEF Notice
  <2>2. Token(r)' \subseteq Token(r) /\ (ConfirmHeld(r)' => ConfirmHeld(r))
    BY <1>10, <2>1 DEF Token, ConfirmHeld, Holds, Event
  <2>3. QED
    BY <1>r, <1>10, <2>1, <2>2, OneTokenMoves
<1>11. CASE KeysOnly
  <2>1. Token(r)' = Token(r) /\ (ConfirmHeld(r)' <=> ConfirmHeld(r))
    BY <1>11 DEF KeysOnly, Token, ConfirmHeld, Holds, Event
  <2>2. QED
    BY <1>r, <1>e, <1>11, <2>1, OneTokenMoves DEF KeysOnly
<1>12. ASSUME NEW q \in Reservations, PublishReservationExpired(q) \/ PaymentCaptured(q)
       PROVE  OneToken(r)'
  BY <1>10, <1>12, ExpiredEffect, CapturedEffect
<1>13. QED
  BY StepCases, <1>1, <1>2, <1>3, <1>4, <1>5, <1>6, <1>7, <1>8, <1>9, <1>11, <1>12

LEMMA OutcomeStep ==
    ASSUME SingleDelivery
    PROVE  TypeOK /\ ConfirmInv /\ OutcomeInv /\ [Next]_vars => OutcomeInv'
BY HandlingStep, OneChainStep, OneTokenStep DEF OutcomeInv

(* As long as every message is delivered once and Postgres and the          *)
(* instances stay up, the consignment service is told one outcome, however  *)
(* calls to Redis and to the vessel service fail and keys lapse.            *)
THEOREM OneOutcome == ASSUME SingleDelivery PROVE Spec => []NotBothOutcomes
<1>1. OutcomeInv => NotBothOutcomes
  BY DEF OutcomeInv, OneChain, NotBothOutcomes
<1>2. TypeOK /\ ConfirmInv /\ OutcomeInv /\ [Next]_vars => OutcomeInv'
  BY OutcomeStep
<1>3. QED
  BY TypeInit, TypeStep, ConfirmInit, ConfirmStep, OutcomeInit, <1>1, <1>2, PTL DEF Spec

-----------------------------------------------------------------------------
(* The manager implements ReservationOutcome. *)

LEMMA ToldFacts ==
    ASSUME NEW r
    PROVE  /\ "confirmed" \in ToldOf(r) <=> Reported(ReservationConfirmedTopic, r)
           /\ "failed" \in ToldOf(r) <=> Reported(ConsignmentConfirmationFailedTopic, r)
           /\ ~ Told(r) <=> ToldOf(r) = {}
           /\ ToldOf(r) \subseteq {"confirmed", "failed"}
BY DEF ToldOf, Told

(* A step that leaves every outcome and every notice of one as they are. *)
LEMMA OutcomeUnmoved ==
    ASSUME \A s \in Reservations : OutcomeOf(s)' = OutcomeOf(s) /\ ToldOf(s)' = ToldOf(s)
    PROVE  UNCHANGED Outcome!vars
BY DEF Outcome!vars

(* A step that changes the outcome of r alone, or what is told of it. *)
LEMMA OutcomeOnly ==
    ASSUME NEW r \in Reservations,
           \A s \in Reservations : s # r => OutcomeOf(s)' = OutcomeOf(s),
           \A s \in Reservations : ToldOf(s)' = ToldOf(s),
           \/ OutcomeOf(r) = "held" /\ "failed" \notin ToldOf(r) /\ OutcomeOf(r)' = "confirmed"
           \/ OutcomeOf(r) = "held" /\ OutcomeOf(r)' = "released"
           \/ /\ OutcomeOf(r) = "confirmed" /\ "confirmed" \notin ToldOf(r)
              /\ OutcomeOf(r)' = "released"
    PROVE  Outcome!Next
<1> DEFINE outcome == [s \in Reservations |-> OutcomeOf(s)]
           told    == [s \in Reservations |-> ToldOf(s)]
<1>1. /\ outcome' = [outcome EXCEPT ![r] = OutcomeOf(r)']
      /\ told' = told
  OBVIOUS
<1>2. outcome[r] = OutcomeOf(r) /\ told[r] = ToldOf(r)
  OBVIOUS
<1>3. Outcome!Confirm(r) \/ Outcome!Release(r) \/ Outcome!Undo(r)
  BY <1>1, <1>2 DEF Outcome!Confirm, Outcome!Release, Outcome!Undo
<1>4. QED
  BY <1>3 DEF Outcome!Next

LEMMA ToldOnly ==
    ASSUME NEW r \in Reservations,
           \A s \in Reservations : OutcomeOf(s)' = OutcomeOf(s),
           \A s \in Reservations : s # r => ToldOf(s)' = ToldOf(s),
           ToldOf(r) = {},
           \/ ToldOf(r)' = {"confirmed"} /\ OutcomeOf(r) = "confirmed"
           \/ ToldOf(r)' = {"failed"}
    PROVE  Outcome!Next
<1> DEFINE outcome == [s \in Reservations |-> OutcomeOf(s)]
           told    == [s \in Reservations |-> ToldOf(s)]
<1>1. /\ told' = [told EXCEPT ![r] = ToldOf(r)']
      /\ outcome' = outcome
  OBVIOUS
<1>2. outcome[r] = OutcomeOf(r) /\ told[r] = ToldOf(r)
  OBVIOUS
<1>3. Outcome!TellConfirmed(r) \/ Outcome!TellFailed(r)
  BY <1>1, <1>2 DEF Outcome!TellConfirmed, Outcome!TellFailed
<1>4. QED
  BY <1>3 DEF Outcome!Next

LEMMA OutcomeRefinesStep ==
    ASSUME SingleDelivery, TypeOK, ConfirmInv, OutcomeInv, [Next]_vars
    PROVE  [Outcome!Next]_(Outcome!vars)
<1>0. /\ \A w \in Workers : Handling(w)
      /\ \A r \in Reservations : OneChain(r) /\ OneToken(r)
  BY DEF OutcomeInv
<1>a. ASSUME applied' = applied
      PROVE  \A s \in Reservations : OutcomeOf(s)' = OutcomeOf(s)
  BY <1>a DEF OutcomeOf
<1>s. \A t \in NoticeTopics, s \in Reservations : Reported(t, s) => Reported(t, s)'
  BY ReportedStays
<1>t. ASSUME NEW s \in Reservations, NEW m,
             m # Notice(ReservationConfirmedTopic, s),
             m # Notice(ConsignmentConfirmationFailedTopic, s),
             outbox' \subseteq outbox \cup {m}, published' \subseteq published \cup outbox \cup {m}
      PROVE  ToldOf(s)' = ToldOf(s)
  <2>1. /\ Reported(ReservationConfirmedTopic, s)' <=> Reported(ReservationConfirmedTopic, s)
        /\ Reported(ConsignmentConfirmationFailedTopic, s)' <=>
               Reported(ConsignmentConfirmationFailedTopic, s)
    BY <1>s, <1>t, ReportedOnlyIf, TopicFacts
  <2>2. QED
    BY <2>1 DEF ToldOf
<1>u. ASSUME NEW m,
             m.topic \notin {ReservationConfirmedTopic, ConsignmentConfirmationFailedTopic},
             outbox' \subseteq outbox \cup {m}, published' \subseteq published \cup outbox \cup {m},
             applied' = applied
      PROVE  UNCHANGED Outcome!vars
  <2>1. ASSUME NEW s \in Reservations PROVE ToldOf(s)' = ToldOf(s)
    <3>1. /\ m # Notice(ReservationConfirmedTopic, s)
          /\ m # Notice(ConsignmentConfirmationFailedTopic, s)
      BY <1>u DEF Notice
    <3>2. QED
      BY <1>t, <1>u, <3>1
  <2>2. QED
    BY <1>a, <1>u, <2>1, OutcomeUnmoved
<1>e. ASSUME outbox' \subseteq outbox, published' \subseteq published \cup outbox
      PROVE  /\ \A s \in Reservations : ToldOf(s)' = ToldOf(s)
             /\ applied' = applied => UNCHANGED Outcome!vars
  <2>1. ASSUME NEW s \in Reservations PROVE ToldOf(s)' = ToldOf(s)
    <3> DEFINE none == Notice(ReservationExpiredTopic, s)
    <3>1. /\ none # Notice(ReservationConfirmedTopic, s)
          /\ none # Notice(ConsignmentConfirmationFailedTopic, s)
      BY QuietNotices DEF Notice
    <3> HIDE DEF none
    <3>2. QED
      BY <1>t, <1>e, <3>1
  <2>2. QED
    BY <1>a, <2>1, OutcomeUnmoved
<1>1. ASSUME NEW w \in Workers, CallVessel(w) PROVE [Outcome!Next]_(Outcome!vars)
  <2>p. PICK q, a : q = Event(w).reservation /\ a = Event(w).action
    OBVIOUS
  <2>1. /\ worker[w].pc = "vessel" /\ worker[w].pc # "idle"
        /\ outbox' = outbox /\ published' = published
        /\ applied' = applied \/ applied' = applied \cup {<<q, a>>}
    BY <1>1, <2>p, CallVesselEffect DEF Advances
  <2>2. q \in Reservations /\ a \in {"CONFIRM", "RELEASE"}
    BY <2>1, <2>p, BusyType DEF PendingEvents, EventsUpTo, Actions
  <2>3. \A s \in Reservations : ToldOf(s)' = ToldOf(s)
    BY <1>e, <2>1
  <2>4. CASE applied' = applied
    BY <1>e, <2>1, <2>4
  <2>5. CASE applied' = applied \cup {<<q, a>>}
    <3>1. \A s \in Reservations : s # q => OutcomeOf(s)' = OutcomeOf(s)
      BY <2>5 DEF OutcomeOf
    <3>2. CASE OutcomeOf(q)' = OutcomeOf(q)
      BY <2>3, <3>1, <3>2, OutcomeUnmoved
    <3>3. CASE OutcomeOf(q)' # OutcomeOf(q) /\ a = "CONFIRM"
      <4>1. OutcomeOf(q) = "held" /\ OutcomeOf(q)' = "confirmed"
        BY <2>5, <3>3 DEF OutcomeOf
      <4>2. ConfirmMsg(worker[w].msg, q)
        BY <1>0, <2>1, <2>p, <3>3 DEF Handling
      <4>3. <<"worker", w>> \in Chain(q)
        BY <2>1, <4>2 DEF Chain, Carries
      <4>4. ~ Told(q)
        BY <1>0, <2>2, <4>3 DEF OneChain
      <4>5. "failed" \notin ToldOf(q)
        BY <4>4, ToldFacts
      <4>6. QED
        BY <2>2, <2>3, <3>1, <4>1, <4>5, OutcomeOnly
    <3>4. CASE OutcomeOf(q)' # OutcomeOf(q) /\ a = "RELEASE"
      <4>1. OutcomeOf(q) \in {"held", "confirmed"} /\ OutcomeOf(q)' = "released"
        BY <2>5, <3>4 DEF OutcomeOf
      <4>2. Holds(w, q)
        BY <1>0, <2>1, <2>p DEF Handling, Holds
      <4>3. <<"worker", w>> \in Token(q)
        BY <4>2 DEF Token
      <4>4. "confirmed" \notin ToldOf(q)
        BY <1>0, <2>2, <4>3, ToldFacts DEF OneToken
      <4>5. QED
        BY <2>2, <2>3, <3>1, <4>1, <4>4, OutcomeOnly
    <3>5. QED
      BY <2>2, <3>2, <3>3, <3>4
  <2>6. QED
    BY <2>1, <2>4, <2>5
<1>2. ASSUME NEW w \in Workers, PublishReservationConfirmed(w) PROVE Outcome!Next
  <2>p. PICK q : q = Event(w).reservation
    OBVIOUS
  <2> DEFINE m == Notice(ReservationConfirmedTopic, q)
  <2>1. /\ worker[w].pc = "confirmed" /\ worker[w].pc # "idle"
        /\ outbox' = outbox \cup {m} /\ published' = published /\ applied' = applied
    BY <1>2, <2>p, ConfirmedEffect DEF Advances
  <2>2. q \in Reservations
    BY <2>1, <2>p, BusyType DEF PendingEvents, EventsUpTo
  <2>3. /\ Event(w).action = "CONFIRM" /\ ConfirmMsg(worker[w].msg, q)
        /\ Holds(w, q)
    BY <1>0, <2>1, <2>p DEF Handling, Holds
  <2>4. <<"worker", w>> \in Chain(q)
    BY <2>1, <2>3 DEF Chain, Carries
  <2>5. ~ Told(q)
    BY <1>0, <2>2, <2>4 DEF OneChain
  <2>6. ConfirmHeld(q)
    BY <2>p, <2>3 DEF ConfirmHeld
  <2>7. <<q, "RELEASE">> \notin applied /\ <<q, "CONFIRM">> \in applied
    BY <1>0, <2>1, <2>p, <2>2, <2>3, <2>6 DEF OneToken, ConfirmInv
  <2>8. OutcomeOf(q) = "confirmed"
    BY <2>7 DEF OutcomeOf
  <2>9. /\ Reported(ReservationConfirmedTopic, q)'
        /\ ~ Reported(ConsignmentConfirmationFailedTopic, q)'
    <3>1. Notice(ConsignmentConfirmationFailedTopic, q) # m
      BY TopicFacts DEF Notice
    <3>2. QED
      BY <2>1, <2>5, <3>1, ReportedOnlyIf DEF Reported, Told
  <2>10. ToldOf(q)' = {"confirmed"}
    BY <2>9 DEF ToldOf
  <2>11. ASSUME NEW s \in Reservations, s # q PROVE ToldOf(s)' = ToldOf(s)
    <3>1. /\ m # Notice(ReservationConfirmedTopic, s)
          /\ m # Notice(ConsignmentConfirmationFailedTopic, s)
      BY <2>11 DEF Notice
    <3>2. QED
      BY <1>t, <2>1, <3>1
  <2>12. ToldOf(q) = {}
    BY <2>5, ToldFacts
  <2>13. \A s \in Reservations : OutcomeOf(s)' = OutcomeOf(s)
    BY <1>a, <2>1
  <2>14. QED
    BY <2>2, <2>8, <2>10, <2>11, <2>12, <2>13, ToldOnly
<1>3. ASSUME NEW w \in Workers, PublishConfirmationFailed(w) PROVE Outcome!Next
  <2>p. PICK q : q = Event(w).reservation
    OBVIOUS
  <2> DEFINE m == Notice(ConsignmentConfirmationFailedTopic, q)
  <2>1. /\ worker[w].pc = "failed" /\ worker[w].pc # "idle"
        /\ outbox' = outbox \cup {m} /\ published' = published /\ applied' = applied
    BY <1>3, <2>p, FailedEffect DEF Advances
  <2>2. q \in Reservations
    BY <2>1, <2>p, BusyType DEF PendingEvents, EventsUpTo
  <2>3. /\ worker[w].msg.topic = CapacityFailedTopic
        /\ worker[w].msg.event.action = "CONFIRM"
        /\ q = ReservationOf(worker[w].msg)
    BY <1>0, <2>1, <2>p DEF Handling, HandlingDLQ
  <2>4. ConfirmMsg(worker[w].msg, q)
    BY <2>3, TopicFacts DEF ConfirmMsg, ReservationOf
  <2>5. <<"worker", w>> \in Chain(q)
    BY <2>1, <2>4 DEF Chain, Carries
  <2>6. ~ Told(q)
    BY <1>0, <2>2, <2>5 DEF OneChain
  <2>7. /\ Reported(ConsignmentConfirmationFailedTopic, q)'
        /\ ~ Reported(ReservationConfirmedTopic, q)'
    <3>1. Notice(ReservationConfirmedTopic, q) # m
      BY TopicFacts DEF Notice
    <3>2. QED
      BY <2>1, <2>6, <3>1, ReportedOnlyIf DEF Reported, Told
  <2>8. ToldOf(q)' = {"failed"}
    BY <2>7 DEF ToldOf
  <2>9. ASSUME NEW s \in Reservations, s # q PROVE ToldOf(s)' = ToldOf(s)
    <3>1. /\ m # Notice(ReservationConfirmedTopic, s)
          /\ m # Notice(ConsignmentConfirmationFailedTopic, s)
      BY <2>9 DEF Notice
    <3>2. QED
      BY <1>t, <2>1, <3>1
  <2>10. ToldOf(q) = {}
    BY <2>6, ToldFacts
  <2>11. \A s \in Reservations : OutcomeOf(s)' = OutcomeOf(s)
    BY <1>a, <2>1
  <2>12. QED
    BY <2>2, <2>8, <2>9, <2>10, <2>11, ToldOnly
<1>4. ASSUME NEW w \in Workers,
             \/ \E m \in toConsume : Receive(w, m)
             \/ DeleteData(w) \/ DeleteID(w) \/ CommitMessage(w)
      PROVE  UNCHANGED Outcome!vars
  <2>1. outbox' = outbox /\ published' = published /\ applied' = applied
    BY <1>4, ReceiveEffect, DeleteDataEffect, DeleteIDEffect, CommitEffect DEF Advances
  <2>2. QED
    BY <1>e, <2>1
<1>5. ASSUME NEW w \in Workers, ScheduleRetry(w) PROVE UNCHANGED Outcome!vars
  <2> DEFINE m == RetryMessage(Event(w))
  <2>1. /\ Event(w) \in PendingEvents
        /\ outbox' \subseteq outbox \cup {m}
        /\ published' = published /\ applied' = applied
    BY <1>5, ScheduleRetryEffect DEF Advances
  <2>2. m.topic \in CapacityTopics
    BY <2>1, RetryFacts
  <2>3. m.topic \notin {ReservationConfirmedTopic, ConsignmentConfirmationFailedTopic}
    BY <2>2, TopicFacts
  <2> HIDE DEF m
  <2>4. QED
    BY <1>u, <2>1, <2>3
<1>6. ASSUME NEW row \in outbox, PublishOutbox(row) PROVE UNCHANGED Outcome!vars
  <2>1. /\ outbox' \subseteq outbox /\ published' \subseteq published \cup outbox
        /\ applied' = applied
    BY <1>6, PublishEffect
  <2>2. QED
    BY <1>e, <2>1
<1>7. ASSUME NEW r \in Reservations, PublishReservationExpired(r) \/ PaymentCaptured(r)
      PROVE  UNCHANGED Outcome!vars
  <2>1. PICK t \in {ReservationExpiredTopic, PaymentCapturedTopic} :
            /\ outbox' \subseteq outbox \cup {Notice(t, r)}
            /\ published' \subseteq published \cup outbox \cup {Notice(t, r)}
            /\ applied' = applied
    BY <1>7, ExpiredEffect, CapturedEffect
  <2>2. Notice(t, r).topic \notin
            {ReservationConfirmedTopic, ConsignmentConfirmationFailedTopic}
    BY QuietNotices
  <2>3. QED
    BY <1>u, <2>1, <2>2
<1>8. CASE KeysOnly
  BY <1>e, <1>8 DEF KeysOnly
<1>9. QED
  BY StepCases, <1>1, <1>2, <1>3, <1>4, <1>5, <1>6, <1>7, <1>8

LEMMA OutcomeRefinesInit == Init => Outcome!Init
<1> SUFFICES ASSUME Init PROVE Outcome!Init
  OBVIOUS
<1>1. outbox = {} /\ published = {} /\ applied = {}
  BY DEF Init
<1>2. ASSUME NEW r \in Reservations PROVE OutcomeOf(r) = "held" /\ ToldOf(r) = {}
  BY <1>1 DEF OutcomeOf, ToldOf, Reported
<1>3. QED
  BY <1>2 DEF Outcome!Init

(* As long as every message is delivered once, the reservation manager      *)
(* implements ReservationOutcome: each of its steps changes one outcome, or *)
(* tells one, as that module allows, or leaves both alone.                  *)
THEOREM RefinesOutcome == ASSUME SingleDelivery PROVE Spec => ImplementsOutcome
<1>1. TypeOK /\ ConfirmInv /\ OutcomeInv /\ [Next]_vars => OutcomeInv'
  BY OutcomeStep
<1>2. TypeOK /\ ConfirmInv /\ OutcomeInv /\ [Next]_vars => [Outcome!Next]_(Outcome!vars)
  BY OutcomeRefinesStep
<1>3. QED
  BY TypeInit, TypeStep, ConfirmInit, ConfirmStep, OutcomeInit, OutcomeRefinesInit,
     <1>1, <1>2, PTL DEF Spec, ImplementsOutcome, Outcome!Spec

-----------------------------------------------------------------------------
(* When calls to Redis and to the vessel service may fail and nothing else  *)
(* does, a captured payment is answered or something is under way for it.   *)

Outages == Faults \subseteq {"redisDown", "vesselDown", "vesselReplyLost"}

\* The consignment service was told, or one of the two exceptions is met or,
\* with an exhausted release on its way, will be.
AlertPending(r) == \E m \in outbox \cup toConsume : AlertOnly(m) /\ ReservationOf(m) = r

Answered(r) ==
    \/ \E t \in AnswerTopics : Reported(t, r)
    \/ r \in lapsed \cup alerted
    \/ AlertPending(r)

\* A DLQ handler is about to tell that r's confirmation failed.
FailedPending(r) == \E w \in Workers : worker[w].pc = "failed" /\ Event(w).reservation = r

Answering(r) == Answered(r) \/ FailedPending(r)

\* The chain of r has deleted its data key.
ClearedChain(r) ==
    \/ \E m \in outbox \cup toConsume : ConfirmMsg(m, r) /\ Cleared(m, r)
    \/ \E w \in Workers : Carries(w, r) /\ Event(w).cacheCleared

TopicFits(m) ==
    /\ m.topic = ConfirmCapacityTopic => m.event.action = "CONFIRM"
    /\ m.topic = ReleaseCapacityTopic => m.event.action = "RELEASE"

\* Who deleted r's data key is known: it answers, or it is the chain of r.
CapturedAt(r) ==
    /\ Notice(PaymentCapturedTopic, r) \in published =>
           dataKey[r] # "none" /\ (Chain(r) # {} \/ Answered(r))
    /\ dataKey[r] = "gone" => Answering(r) \/ ClearedChain(r)

CapturedInv ==
    /\ \A m \in outbox : TopicFits(m)
    /\ \A r \in Reservations : CapturedAt(r)

LEMMA OutagesDeliverOnce ==
    Outages => SingleDelivery /\ "redisReplyLost" \notin Faults /\ "dataLapse" \notin Faults
BY DEF Outages, SingleDelivery

LEMMA RetryTopicFacts ==
    ASSUME NEW e \in PendingEvents
    PROVE  /\ TopicFits(RetryMessage(e))
           /\ e.action = "CONFIRM" =>
                  RetryMessage(e).topic \in {ConfirmCapacityTopic, CapacityFailedTopic}
<1> DEFINE n == [e EXCEPT !.retryCount = @ + 1]
<1>1. RetryMessage(e).topic = RetryTopic(n) /\ RetryMessage(e).event = n
  BY DEF RetryMessage
<1>2. n.action = e.action /\ e.action \in {"CONFIRM", "RELEASE"}
  BY DEF PendingEvents, EventsUpTo, Actions
<1> HIDE DEF n
<1>3. /\ e.action = "CONFIRM" => RetryTopic(n) \in {ConfirmCapacityTopic, CapacityFailedTopic}
      /\ RetryTopic(n) = ConfirmCapacityTopic => n.action = "CONFIRM"
      /\ RetryTopic(n) = ReleaseCapacityTopic => n.action = "RELEASE"
  BY <1>2 DEF RetryTopic, ConfirmCapacityTopic, ReleaseCapacityTopic, CapacityFailedTopic
<1>4. QED
  BY <1>1, <1>3 DEF TopicFits

(* Where the chain of r is with w, it is nowhere else. *)
LEMMA ChainIsWith ==
    ASSUME NEW w \in Workers, NEW r, AtMostOne(Chain(r)), Carries(w, r)
    PROVE  /\ \A m \in outbox \cup toConsume : ~ ConfirmMsg(m, r)
           /\ \A v \in Workers : Carries(v, r) => v = w
<1>1. <<"worker", w>> \in Chain(r)
  BY DEF Chain
<1>2. Chain(r) = {<<"worker", w>>}
  BY <1>1 DEF AtMostOne
<1>3. ASSUME NEW m \in outbox \cup toConsume, ConfirmMsg(m, r) PROVE FALSE
  <2>1. <<"outbox", m>> \in Chain(r) \/ <<"topic", m>> \in Chain(r)
    BY <1>3 DEF Chain
  <2>2. <<"outbox", m>> = <<"worker", w>> \/ <<"topic", m>> = <<"worker", w>>
    BY <1>2, <2>1
  <2>3. QED
    BY <2>2
<1>4. ASSUME NEW v \in Workers, Carries(v, r) PROVE v = w
  <2>1. <<"worker", v>> \in Chain(r)
    BY <1>4 DEF Chain
  <2>2. <<"worker", v>> = <<"worker", w>>
    BY <1>2, <2>1
  <2>3. QED
    BY <2>2
<1>5. QED
  BY <1>3, <1>4

(* What carries the chain of r is about r, in hand and in its message. *)
LEMMA CarriesFacts ==
    ASSUME TypeOK, NEW w \in Workers, Handling(w), NEW r, Carries(w, r)
    PROVE  /\ Event(w).reservation = r
           /\ HandlingDLQ(w) \/ Event(w).action = "CONFIRM"
<1>1. worker[w].pc # "idle" /\ worker[w].msg \in InboundMessages
  BY BusyType DEF Carries
<1>2. r = ReservationOf(worker[w].msg)
  BY <1>1, HandlerFacts DEF Carries
<1>3. QED
  BY <1>1, <1>2 DEF Handling, Carries

(* The DLQ handler that is about to tell a failure carries the chain. *)
LEMMA FailedCarries ==
    ASSUME NEW w \in Workers, Handling(w), worker[w].pc = "failed"
    PROVE  Carries(w, Event(w).reservation)
<1>1. /\ worker[w].msg.topic = CapacityFailedTopic
      /\ worker[w].msg.event.action = "CONFIRM"
      /\ Event(w).reservation = ReservationOf(worker[w].msg)
  BY DEF Handling, HandlingDLQ
<1>2. QED
  BY <1>1, TopicFacts DEF Carries, ConfirmMsg, ReservationOf

(* The history only grows. *)
LEMMA HistoryStays ==
    ASSUME [Next]_vars
    PROVE  lapsed \subseteq lapsed' /\ alerted \subseteq alerted'
<1>1. CASE UNCHANGED vars
  BY <1>1 DEF vars
<1>2. ASSUME NEW w \in Workers, NEW m \in toConsume, Receive(w, m)
      PROVE  lapsed \subseteq lapsed' /\ alerted \subseteq alerted'
  BY <1>2 DEF Receive
<1>3. ASSUME NEW w \in Workers, DeleteData(w)
      PROVE  lapsed \subseteq lapsed' /\ alerted \subseteq alerted'
  BY <1>3 DEF DeleteData
<1>4. ASSUME NEW w \in Workers,
             \/ CallVessel(w) \/ ScheduleRetry(w) \/ DeleteID(w)
             \/ PublishReservationConfirmed(w) \/ PublishConfirmationFailed(w)
             \/ CommitMessage(w) \/ Crash(w)
      PROVE  UNCHANGED historyVars
  BY <1>4 DEF CallVessel, ScheduleRetry, DeleteID, PublishReservationConfirmed,
     PublishConfirmationFailed, CommitMessage, Crash
<1>5. ASSUME NEW row \in outbox, PublishOutbox(row) PROVE UNCHANGED historyVars
  BY <1>5 DEF PublishOutbox
<1>6. CASE CleanupStep \/ CleanupFails
  BY <1>6 DEF CleanupStep, ScanIDs, ScanData, PublishReservationExpired, CleanupFails, historyVars
<1>7. ASSUME NEW r \in Reservations, Environment(r) PROVE UNCHANGED historyVars
  BY <1>7 DEF Environment, StoreID, StoreData, ExpireID, ExpireData, PaymentCaptured
<1>8. QED
  BY <1>1, <1>2, <1>3, <1>4, <1>5, <1>6, <1>7 DEF Next, WorkerStep, historyVars

(* An exhausted release is on its way until it raises its alert. *)
LEMMA AlertStays ==
    ASSUME SingleDelivery, TypeOK, [Next]_vars, NEW m \in outbox \cup toConsume, AlertOnly(m)
    PROVE  m \in outbox' \cup toConsume' \/ ReservationOf(m) \in alerted'
<1>1. ASSUME NEW w \in Workers, NEW x \in toConsume, Receive(w, x)
      PROVE  m \in outbox' \cup toConsume' \/ ReservationOf(m) \in alerted'
  BY <1>1, ReceiveEffect
<1>2. ASSUME NEW row \in outbox, PublishOutbox(row) PROVE m \in outbox' \cup toConsume'
  <2>1. m.topic \in InboundTopics
    BY TopicFacts DEF AlertOnly, InboundTopics
  <2>2. QED
    BY <1>2, <2>1, PublishEffect
<1>3. CASE outbox \subseteq outbox' /\ toConsume \subseteq toConsume'
  BY <1>3
<1>4. QED
  BY StepCases, <1>1, <1>2, <1>3, DeleteDataEffect, CallVesselEffect, ScheduleRetryEffect,
     DeleteIDEffect, ConfirmedEffect, FailedEffect, CommitEffect, ExpiredEffect,
     CapturedEffect DEF Advances, KeysOnly

(* An answer that is told, or about to be, stays so. *)
LEMMA AnsweringStays ==
    ASSUME SingleDelivery, TypeOK, \A w \in Workers : Handling(w), [Next]_vars,
           NEW r \in Reservations
    PROVE  /\ Answered(r) => Answered(r)'
           /\ Answering(r) => Answering(r)'
<1>1. ASSUME Answered(r) PROVE Answered(r)'
  <2>1. ASSUME NEW t \in AnswerTopics, Reported(t, r) PROVE Answered(r)'
    <3>1. Reported(t, r)'
      BY <2>1, ReportedStays, TopicFacts DEF AnswerTopics
    <3>2. QED
      BY <3>1 DEF Answered
  <2>2. CASE r \in lapsed \cup alerted
    BY <2>2, HistoryStays DEF Answered
  <2>3. ASSUME NEW m \in outbox \cup toConsume, AlertOnly(m), ReservationOf(m) = r
        PROVE  Answered(r)'
    BY <2>3, AlertStays DEF Answered, AlertPending
  <2>4. QED
    BY <1>1, <2>1, <2>2, <2>3 DEF Answered, AlertPending
<1>2. ASSUME NEW v \in Workers, worker[v].pc = "failed", Event(v).reservation = r
      PROVE  Answering(r)'
  <2>1. CASE worker'[v] = worker[v]
    BY <1>2, <2>1 DEF Answering, FailedPending, Event
  <2>2. CASE PublishConfirmationFailed(v)
    <3>1. Reported(ConsignmentConfirmationFailedTopic, r)'
      BY <1>2, <2>2, FailedEffect DEF Reported
    <3>2. QED
      BY <3>1 DEF Answering, Answered, AnswerTopics
  <2>3. ASSUME NEW w \in Workers,
               \/ \E m \in toConsume : Receive(w, m)
               \/ DeleteData(w) \/ CallVessel(w) \/ ScheduleRetry(w) \/ DeleteID(w)
               \/ PublishReservationConfirmed(w) \/ CommitMessage(w)
        PROVE  worker'[v] = worker[v]
    <3>1. worker[w].pc # "failed"
      BY <2>3, ReceiveEffect, DeleteDataEffect, CallVesselEffect, ScheduleRetryEffect,
         DeleteIDEffect, ConfirmedEffect, CommitEffect
    <3>2. v # w
      BY <1>2, <3>1
    <3>3. QED
      BY <2>3, <3>2, ReceiveEffect, DeleteDataEffect, CallVesselEffect, ScheduleRetryEffect,
         DeleteIDEffect, ConfirmedEffect, CommitEffect DEF Advances
  <2>4. ASSUME NEW w \in Workers, PublishConfirmationFailed(w), w # v
        PROVE  worker'[v] = worker[v]
    BY <2>4, FailedEffect DEF Advances
  <2>5. QED
    BY StepCases, <2>1, <2>2, <2>3, <2>4, PublishEffect, ExpiredEffect, CapturedEffect
       DEF KeysOnly
<1>3. QED
  BY <1>1, <1>2 DEF Answering, FailedPending

(* A retry that is swallowed: a row of the same topic and key is pending.   *)
(* For the chain it can only be the exhausted release of the same lapse.    *)
LEMMA RetrySwallowed ==
    ASSUME SingleDelivery, TypeOK, \A w \in Workers : Handling(w), CapturedInv,
           NEW r \in Reservations, OneChain(r),
           NEW w \in Workers, Carries(w, r), worker[w].pc = "retry", ~ HandlingDLQ(w),
           Scheduled(RetryMessage(Event(w)))
    PROVE  Answered(r)
<1> DEFINE m == RetryMessage(Event(w))
<1>1. /\ Event(w).reservation = r /\ Event(w).action = "CONFIRM"
      /\ Event(w) \in PendingEvents
  BY CarriesFacts, BusyType
<1>2. /\ m.topic \in CapacityTopics
      /\ m.topic \in {ConfirmCapacityTopic, CapacityFailedTopic}
      /\ m.event.reservation = r
  BY <1>1, RetryFacts, RetryTopicFacts
<1>3. PICK row \in outbox : row.topic = m.topic /\ Key(row) = Key(m)
  BY DEF Scheduled
<1> HIDE DEF m
<1>4. row.topic \in CapacityTopics /\ row.event.reservation = r
  BY <1>2, <1>3 DEF Key
<1>5. row \in RetryMessages \cup FailedMessages
  BY <1>4, TopicFacts DEF TypeOK, Messages, Notices
<1>6. row.event.action \in {"CONFIRM", "RELEASE"}
  BY <1>5 DEF RetryMessages, FailedMessages, PendingEvents, EventsUpTo, Actions
<1>7. ~ ConfirmMsg(row, r)
  BY ChainIsWith DEF OneChain
<1>8. ReleaseMsg(row, r)
  BY <1>4, <1>6, <1>7 DEF ConfirmMsg, ReleaseMsg
<1>9. TopicFits(row)
  BY DEF CapturedInv
<1>10. row.event.action = "RELEASE" /\ row.topic = CapacityFailedTopic
  BY <1>2, <1>3, <1>4, <1>8, <1>9, TopicFacts DEF ReleaseMsg, TopicFits, Notice
<1>11. AlertOnly(row) /\ ReservationOf(row) = r
  BY <1>4, <1>10 DEF AlertOnly, ReservationOf
<1>12. QED
  BY <1>11 DEF Answered, AlertPending

(* A handler of the chain that finds the data key gone has been answered. *)
LEMMA DuplicateAnswered ==
    ASSUME TypeOK, \A w \in Workers : Handling(w), CapturedInv,
           NEW r \in Reservations, OneChain(r),
           NEW w \in Workers, Carries(w, r), worker[w].pc = "deleteData",
           dataKey[r] # "live"
    PROVE  Answered(r)
<1>1. Chain(r) # {}
  BY DEF Chain
<1>2. dataKey[r] # "none"
  BY <1>1 DEF OneChain, CapturedInv, CapturedAt
<1>3. dataKey[r] = "gone"
  BY <1>2 DEF TypeOK
<1>4. Answering(r) \/ ClearedChain(r)
  BY <1>3 DEF CapturedInv, CapturedAt
<1>5. ~ FailedPending(r)
  BY FailedCarries, ChainIsWith DEF FailedPending, OneChain
<1>6. ~ Event(w).cacheCleared
  BY DEF Handling, Carries
<1>7. ~ ClearedChain(r)
  BY <1>6, ChainIsWith DEF ClearedChain, OneChain
<1>8. QED
  BY <1>4, <1>5, <1>7 DEF Answering

LEMMA TopicsStep ==
    ASSUME SingleDelivery, TypeOK, CapturedInv, [Next]_vars
    PROVE  \A m \in outbox' : TopicFits(m)
<1>0. \A m \in outbox : TopicFits(m)
  BY DEF CapturedInv
<1>1. ASSUME NEW t \in NoticeTopics, NEW q PROVE TopicFits(Notice(t, q))
  BY DEF Notice, TopicFits, NoticeTopics, ConfirmCapacityTopic, ReleaseCapacityTopic,
         PaymentCapturedTopic, ReservationExpiredTopic,
         ConsignmentConfirmationFailedTopic, ReservationConfirmedTopic
<1>2. ASSUME NEW w \in Workers, ScheduleRetry(w) PROVE \A m \in outbox' : TopicFits(m)
  BY <1>0, <1>2, ScheduleRetryEffect, RetryTopicFacts
<1>3. ASSUME NEW w \in Workers, PublishReservationConfirmed(w) \/ PublishConfirmationFailed(w)
      PROVE  \A m \in outbox' : TopicFits(m)
  BY <1>0, <1>1, <1>3, ConfirmedEffect, FailedEffect, TopicFacts
<1>4. ASSUME NEW r \in Reservations, PublishReservationExpired(r)
      PROVE  \A m \in outbox' : TopicFits(m)
  BY <1>0, <1>1, <1>4, ExpiredEffect, TopicFacts
<1>5. CASE outbox' \subseteq outbox
  BY <1>0, <1>5
<1>6. QED
  BY StepCases, <1>2, <1>3, <1>4, <1>5, ReceiveEffect, DeleteDataEffect, CallVesselEffect,
     DeleteIDEffect, CommitEffect, PublishEffect, CapturedEffect DEF KeysOnly

(* The chain goes on until an outcome is told, or a lapse was. *)
LEMMA ChainGoesOn ==
    ASSUME SingleDelivery, TypeOK, \A w \in Workers : Handling(w), CapturedInv, [Next]_vars,
           NEW r \in Reservations, OneChain(r), Chain(r) # {}
    PROVE  Chain(r)' # {} \/ Answered(r)'
<1>a. Answered(r) => Answered(r)'
  BY AnsweringStays
<1>m. ASSUME NEW m \in outbox \cup toConsume, ConfirmMsg(m, r), m \in outbox' \cup toConsume'
      PROVE  Chain(r)' # {}
  <2>1. <<"outbox", m>> \in Chain(r)' \/ <<"topic", m>> \in Chain(r)'
    BY <1>m DEF Chain
  <2>2. QED
    BY <2>1
<1>w. ASSUME NEW w \in Workers, Carries(w, r)' PROVE Chain(r)' # {}
  <2>1. <<"worker", w>> \in Chain(r)'
    BY <1>w DEF Chain
  <2>2. QED
    BY <2>1
<1>c. \/ \E m \in outbox \cup toConsume : ConfirmMsg(m, r)
      \/ \E w \in Workers : Carries(w, r)
  BY DEF Chain
<1>1. ASSUME NEW m \in outbox \cup toConsume, ConfirmMsg(m, r)
      PROVE  Chain(r)' # {} \/ Answered(r)'
  <2>1. CASE m \in outbox' \cup toConsume'
    BY <1>1, <1>m, <2>1
  <2>2. ASSUME NEW w \in Workers, NEW x \in toConsume, Receive(w, x),
               m \notin outbox' \cup toConsume'
        PROVE  Chain(r)' # {}
    <3>1. m = x /\ m \in InboundMessages
      BY <2>2, ReceiveEffect DEF TypeOK
    <3>2. ~ AlertOnly(m)
      BY <1>1, <3>1, HandlerFacts
    <3>3. Carries(w, r)'
      BY <1>1, <2>2, <3>1, <3>2, ReceiveEffect DEF Carries
    <3>4. QED
      BY <1>w, <3>3
  <2>3. ASSUME NEW row \in outbox, PublishOutbox(row) PROVE m \in outbox' \cup toConsume'
    <3>1. CASE m = row
      <4>1. m.topic \in InboundTopics
        BY <1>1, NoticeFacts, TopicFacts DEF ConfirmMsg, InboundTopics
      <4>2. QED
        BY <2>3, <3>1, <4>1, PublishEffect
    <3>2. CASE m # row
      BY <2>3, <3>2, PublishEffect
    <3>3. QED
      BY <3>1, <3>2
  <2>4. CASE outbox \subseteq outbox' /\ toConsume \subseteq toConsume'
    BY <2>1, <2>4
  <2>5. QED
    BY StepCases, <2>1, <2>2, <2>3, <2>4, DeleteDataEffect, CallVesselEffect,
       ScheduleRetryEffect, DeleteIDEffect, ConfirmedEffect, FailedEffect, CommitEffect,
       ExpiredEffect, CapturedEffect DEF Advances, KeysOnly
<1>2. ASSUME NEW w \in Workers, Carries(w, r)
      PROVE  Chain(r)' # {} \/ Answered(r)'
  <2>0. /\ Event(w).reservation = r
        /\ HandlingDLQ(w) \/ Event(w).action = "CONFIRM"
        /\ worker[w].pc # "idle" /\ worker[w].pc # "commit"
    BY <1>2, CarriesFacts DEF Carries
  <2>1. ASSUME NEW label, Advances(w, label), label \notin {"idle", "commit"}
        PROVE  Chain(r)' # {}
    BY <1>2, <1>w, <2>1 DEF Carries, Advances
  <2>2. CASE worker'[w] = worker[w]
    BY <1>2, <1>w, <2>2 DEF Carries
  <2>3. CASE DeleteData(w)
    <3>1. CASE \E label \in {"vessel", "retry"} : Advances(w, label)
      BY <2>1, <3>1
    <3>2. CASE /\ Advances(w, AfterHandler(w))
               /\ worker[w].pc = "deleteData" /\ dataKey[r] # "live"
      <4>1. Answered(r)
        BY <1>2, <3>2, DuplicateAnswered
      <4>2. QED
        BY <1>a, <4>1
    <3>3. QED
      BY <2>0, <2>3, <3>1, <3>2, DeleteDataEffect
  <2>4. CASE CallVessel(w)
    BY <2>1, <2>4, CallVesselEffect
  <2>5. CASE ScheduleRetry(w)
    <3> DEFINE m == RetryMessage(Event(w))
    <3>1. CASE HandlingDLQ(w)
      BY <2>1, <2>5, <3>1, ScheduleRetryEffect DEF AfterHandler
    <3>2. CASE ~ HandlingDLQ(w) /\ Scheduled(m)
      <4>1. Answered(r)
        BY <1>2, <2>5, <3>2, RetrySwallowed, ScheduleRetryEffect
      <4>2. QED
        BY <1>a, <4>1
    <3>3. CASE ~ HandlingDLQ(w) /\ ~ Scheduled(m)
      <4>1. m \in outbox' /\ ConfirmMsg(m, r)
        BY <2>0, <2>5, <3>3, ScheduleRetryEffect, RetryFacts
      <4>2. <<"outbox", m>> \in Chain(r)'
        BY <4>1 DEF Chain
      <4>3. QED
        BY <4>2
    <3>4. QED
      BY <3>1, <3>2, <3>3
  <2>6. CASE DeleteID(w)
    BY <2>0, <2>1, <2>6, DeleteIDEffect DEF AfterHandler
  <2>7. CASE PublishReservationConfirmed(w)
    <3>1. Reported(ReservationConfirmedTopic, r)'
      BY <2>0, <2>7, ConfirmedEffect DEF Reported
    <3>2. QED
      BY <3>1 DEF Answered, AnswerTopics
  <2>8. CASE PublishConfirmationFailed(w)
    <3>1. Reported(ConsignmentConfirmationFailedTopic, r)'
      BY <2>0, <2>8, FailedEffect DEF Reported
    <3>2. QED
      BY <3>1 DEF Answered, AnswerTopics
  <2>9. ~ (CommitMessage(w) \/ \E m \in toConsume : Receive(w, m))
    BY <2>0, CommitEffect, ReceiveEffect
  <2>10. ASSUME NEW v \in Workers, v # w,
                \/ \E m \in toConsume : Receive(v, m)
                \/ DeleteData(v) \/ CallVessel(v) \/ ScheduleRetry(v) \/ DeleteID(v)
                \/ PublishReservationConfirmed(v) \/ PublishConfirmationFailed(v)
                \/ CommitMessage(v)
         PROVE  worker'[w] = worker[w]
    BY <2>10, ReceiveEffect, DeleteDataEffect, CallVesselEffect, ScheduleRetryEffect,
       DeleteIDEffect, ConfirmedEffect, FailedEffect, CommitEffect DEF Advances
  <2>11. QED
    BY StepCases, <2>2, <2>3, <2>4, <2>5, <2>6, <2>7, <2>8, <2>9, <2>10,
       PublishEffect, ExpiredEffect, CapturedEffect DEF KeysOnly
<1>3. QED
  BY <1>c, <1>1, <1>2

(* A cleared chain stays cleared until it answers. *)
LEMMA ClearedGoesOn ==
    ASSUME SingleDelivery, TypeOK, \A w \in Workers : Handling(w), CapturedInv, [Next]_vars,
           NEW r \in Reservations, OneChain(r), ClearedChain(r)
    PROVE  ClearedChain(r)' \/ Answering(r)'
<1>a. Answering(r) => Answering(r)'
  BY AnsweringStays
<1>w. ASSUME NEW w \in Workers, Carries(w, r)', Event(w)'.cacheCleared PROVE ClearedChain(r)'
  BY <1>w DEF ClearedChain
<1>1. ASSUME NEW m \in outbox \cup toConsume, ConfirmMsg(m, r), Cleared(m, r)
      PROVE  ClearedChain(r)' \/ Answering(r)'
  <2>1. CASE m \in outbox' \cup toConsume'
    BY <1>1, <2>1 DEF ClearedChain
  <2>2. ASSUME NEW w \in Workers, NEW x \in toConsume, Receive(w, x),
               m \notin outbox' \cup toConsume'
        PROVE  ClearedChain(r)'
    <3>1. m = x /\ m \in InboundMessages
      BY <2>2, ReceiveEffect DEF TypeOK
    <3>2. ~ AlertOnly(m) /\ HandlerEvent(m).cacheCleared
      BY <1>1, <3>1, HandlerFacts
    <3>3. Carries(w, r)' /\ Event(w)'.cacheCleared
      BY <1>1, <2>2, <3>1, <3>2, ReceiveEffect DEF Carries
    <3>4. QED
      BY <1>w, <3>3
  <2>3. ASSUME NEW row \in outbox, PublishOutbox(row) PROVE m \in outbox' \cup toConsume'
    <3>1. CASE m = row
      <4>1. m.topic \in InboundTopics
        BY <1>1 DEF Cleared, InboundTopics
      <4>2. QED
        BY <2>3, <3>1, <4>1, PublishEffect
    <3>2. CASE m # row
      BY <2>3, <3>2, PublishEffect
    <3>3. QED
      BY <3>1, <3>2
  <2>4. CASE outbox \subseteq outbox' /\ toConsume \subseteq toConsume'
    BY <2>1, <2>4
  <2>5. QED
    BY StepCases, <2>1, <2>2, <2>3, <2>4, DeleteDataEffect, CallVesselEffect,
       ScheduleRetryEffect, DeleteIDEffect, ConfirmedEffect, FailedEffect, CommitEffect,
       ExpiredEffect, CapturedEffect DEF Advances, KeysOnly
<1>2. ASSUME NEW w \in Workers, Carries(w, r), Event(w).cacheCleared
      PROVE  ClearedChain(r)' \/ Answering(r)'
  <2>0. /\ Event(w).reservation = r
        /\ HandlingDLQ(w) \/ Event(w).action = "CONFIRM"
        /\ worker[w].pc # "idle" /\ worker[w].pc # "commit" /\ worker[w].pc # "deleteData"
    BY <1>2, CarriesFacts DEF Carries, Handling
  <2>1. ASSUME NEW label, Advances(w, label), KeepsEvent(w), label \notin {"idle", "commit"}
        PROVE  ClearedChain(r)'
    BY <1>2, <1>w, <2>1 DEF Carries, Advances, KeepsEvent
  <2>2. CASE worker'[w] = worker[w]
    BY <1>2, <1>w, <2>2 DEF Carries, Event
  <2>4. CASE CallVessel(w)
    BY <2>1, <2>4, CallVesselEffect
  <2>5. CASE ScheduleRetry(w)
    <3> DEFINE m == RetryMessage(Event(w))
    <3>1. CASE HandlingDLQ(w)
      BY <2>1, <2>5, <3>1, ScheduleRetryEffect DEF AfterHandler
    <3>2. CASE ~ HandlingDLQ(w) /\ Scheduled(m)
      <4>1. Answered(r)
        BY <1>2, <2>5, <3>2, RetrySwallowed, ScheduleRetryEffect
      <4>2. QED
        BY <1>a, <4>1 DEF Answering
    <3>3. CASE ~ HandlingDLQ(w) /\ ~ Scheduled(m)
      <4>1. m \in outbox' /\ ConfirmMsg(m, r) /\ Cleared(m, r)
        BY <1>2, <2>0, <2>5, <3>3, ScheduleRetryEffect, RetryFacts
      <4>2. QED
        BY <4>1 DEF ClearedChain
    <3>4. QED
      BY <3>1, <3>2, <3>3
  <2>6. CASE DeleteID(w)
    BY <2>0, <2>1, <2>6, DeleteIDEffect DEF AfterHandler
  <2>7. CASE PublishReservationConfirmed(w)
    <3>1. Reported(ReservationConfirmedTopic, r)'
      BY <2>0, <2>7, ConfirmedEffect DEF Reported
    <3>2. QED
      BY <3>1 DEF Answering, Answered, AnswerTopics
  <2>8. CASE PublishConfirmationFailed(w)
    <3>1. Reported(ConsignmentConfirmationFailedTopic, r)'
      BY <2>0, <2>8, FailedEffect DEF Reported
    <3>2. QED
      BY <3>1 DEF Answering, Answered, AnswerTopics
  <2>9. ~ (CommitMessage(w) \/ DeleteData(w) \/ \E m \in toConsume : Receive(w, m))
    BY <2>0, CommitEffect, ReceiveEffect, DeleteDataEffect
  <2>10. ASSUME NEW v \in Workers, v # w,
                \/ \E m \in toConsume : Receive(v, m)
                \/ DeleteData(v) \/ CallVessel(v) \/ ScheduleRetry(v) \/ DeleteID(v)
                \/ PublishReservationConfirmed(v) \/ PublishConfirmationFailed(v)
                \/ CommitMessage(v)
         PROVE  worker'[w] = worker[w]
    BY <2>10, ReceiveEffect, DeleteDataEffect, CallVesselEffect, ScheduleRetryEffect,
       DeleteIDEffect, ConfirmedEffect, FailedEffect, CommitEffect DEF Advances
  <2>11. QED
    BY StepCases, <2>2, <2>4, <2>5, <2>6, <2>7, <2>8, <2>9, <2>10,
       PublishEffect, ExpiredEffect, CapturedEffect DEF KeysOnly
<1>3. QED
  BY <1>1, <1>2 DEF ClearedChain

LEMMA CapturedAtStep ==
    ASSUME Outages, TypeOK, OutcomeInv, CapturedInv, [Next]_vars, NEW r \in Reservations
    PROVE  CapturedAt(r)'
<1>0. /\ SingleDelivery /\ "redisReplyLost" \notin Faults /\ "dataLapse" \notin Faults
      /\ \A w \in Workers : Handling(w)
      /\ OneChain(r)
      /\ CapturedAt(r)
  BY OutagesDeliverOnce DEF OutcomeInv, CapturedInv
<1>a. /\ Answered(r) => Answered(r)'
      /\ Answering(r) => Answering(r)'
  BY <1>0, AnsweringStays
<1>d. dataKey[r] # "none" => dataKey'[r] # "none"
  <2>1. ASSUME NEW w \in Workers, DeleteData(w), dataKey[r] # "none"
        PROVE  dataKey'[r] # "none"
    BY <2>1, DeleteDataEffect DEF TypeOK
  <2>2. CASE dataKey' = dataKey
    BY <2>2
  <2>3. QED
    BY <1>0, StepCases, <2>1, <2>2, ReceiveEffect, CallVesselEffect, ScheduleRetryEffect,
       DeleteIDEffect, ConfirmedEffect, FailedEffect, CommitEffect, PublishEffect,
       ExpiredEffect, CapturedEffect DEF KeysOnly
<1>1. ASSUME Notice(PaymentCapturedTopic, r) \in published'
      PROVE  dataKey'[r] # "none" /\ (Chain(r)' # {} \/ Answered(r)')
  <2>1. CASE Notice(PaymentCapturedTopic, r) \in published
    <3>1. dataKey[r] # "none" /\ (Chain(r) # {} \/ Answered(r))
      BY <1>0, <2>1 DEF CapturedAt
    <3>2. QED
      BY <1>0, <1>a, <1>d, <3>1, ChainGoesOn
  <2>2. CASE PaymentCaptured(r)
    <3>1. /\ dataKey'[r] # "none"
          /\ Notice(PaymentCapturedTopic, r) \in toConsume'
      BY <1>0, <2>2, CapturedEffect
    <3>2. <<"topic", Notice(PaymentCapturedTopic, r)>> \in Chain(r)'
      BY <3>1 DEF Chain, ConfirmMsg
    <3>3. QED
      BY <3>1, <3>2
  <2>3. ASSUME NEW q \in Reservations, PaymentCaptured(q), q # r
        PROVE  Notice(PaymentCapturedTopic, r) \in published
    <3>1. Notice(PaymentCapturedTopic, q) # Notice(PaymentCapturedTopic, r)
      BY <2>3 DEF Notice
    <3>2. QED
      BY <1>0, <1>1, <2>3, <3>1, CapturedEffect
  <2>4. ASSUME NEW row \in outbox, PublishOutbox(row)
        PROVE  Notice(PaymentCapturedTopic, r) \in published
    <3>1. CASE row = Notice(PaymentCapturedTopic, r)
      <4>1. <<"outbox", row>> \in Chain(r)
        BY <3>1 DEF Chain, ConfirmMsg
      <4>2. QED
        BY <1>0, <4>1 DEF OneChain
    <3>2. CASE row # Notice(PaymentCapturedTopic, r)
      BY <1>0, <1>1, <2>4, <3>2, PublishEffect
    <3>3. QED
      BY <3>1, <3>2
  <2>5. CASE published' = published
    BY <1>1, <2>1, <2>5
  <2>6. QED
    BY <1>0, StepCases, <2>1, <2>2, <2>3, <2>4, <2>5, ReceiveEffect, DeleteDataEffect,
       CallVesselEffect, ScheduleRetryEffect, DeleteIDEffect, ConfirmedEffect, FailedEffect,
       CommitEffect, ExpiredEffect DEF Advances, KeysOnly
<1>2. ASSUME dataKey'[r] = "gone"
      PROVE  Answering(r)' \/ ClearedChain(r)'
  <2>1. CASE dataKey[r] = "gone"
    <3>1. Answering(r) \/ ClearedChain(r)
      BY <1>0, <2>1 DEF CapturedAt
    <3>2. QED
      BY <1>0, <1>a, <3>1, ClearedGoesOn
  <2>2. ASSUME NEW w \in Workers, DeleteData(w), dataKey[r] # "gone"
        PROVE  Answering(r)' \/ ClearedChain(r)'
    <3>1. /\ worker[w].pc = "deleteData" /\ worker[w].pc # "idle"
          /\ worker[w].msg \in InboundMessages /\ Event(w) \in PendingEvents
      BY <2>2, BusyType, DeleteDataEffect
    <3>2. dataKey' # dataKey
      BY <1>2, <2>2
    <3>3. /\ Advances(w, "vessel")
          /\ Event(w)' = [Event(w) EXCEPT !.cacheCleared = TRUE]
          /\ Event(w).reservation = r
      BY <1>0, <1>2, <2>2, <3>2, DeleteDataEffect DEF TypeOK
    <3>4. r = ReservationOf(worker[w].msg)
      BY <1>0, <3>1, <3>3 DEF Handling
    <3>5. CASE ConfirmMsg(worker[w].msg, r)
      <4>1. Carries(w, r)' /\ Event(w)'.cacheCleared
        BY <3>1, <3>3, <3>5 DEF Carries, Advances, PendingEvents, EventsUpTo
      <4>2. QED
        BY <4>1 DEF ClearedChain
    <3>6. CASE ~ ConfirmMsg(worker[w].msg, r)
      <4>1. ~ HandlingDLQ(w)
        BY <1>0, <3>1, <3>4, <3>6, TopicFacts
           DEF Handling, HandlingDLQ, ConfirmMsg, ReservationOf
      <4>2. Event(w).action = "RELEASE"
        BY <1>0, <3>1, <3>3, <3>6, <4>1 DEF Handling, PendingEvents, EventsUpTo, Actions
      <4>3. r \in lapsed'
        BY <2>2, <3>2, <3>3, <4>1, <4>2, <1>0, DeleteDataEffect DEF TakesOverLapsed, Advances
      <4>4. QED
        BY <4>3 DEF Answering, Answered
    <3>7. QED
      BY <3>5, <3>6
  <2>3. CASE dataKey' = dataKey
    BY <1>2, <2>1, <2>3
  <2>4. CASE KeysOnly
    BY <1>0, <1>2, <2>1, <2>4 DEF KeysOnly
  <2>5. QED
    BY <1>0, StepCases, <2>1, <2>2, <2>3, <2>4, ReceiveEffect, CallVesselEffect,
       ScheduleRetryEffect, DeleteIDEffect, ConfirmedEffect, FailedEffect, CommitEffect,
       PublishEffect, ExpiredEffect, CapturedEffect
<1>3. QED
  BY <1>1, <1>2 DEF CapturedAt

LEMMA CapturedInit == Init => CapturedInv
<1> SUFFICES ASSUME Init PROVE CapturedInv
  OBVIOUS
<1>1. /\ outbox = {} /\ toConsume = {} /\ published = {}
      /\ \A w \in Workers : worker[w].pc = "idle"
      /\ \A r \in Reservations : dataKey[r] = "none"
  BY DEF Init, IdleWorker
<1>2. QED
  BY <1>1 DEF CapturedInv, CapturedAt

(* Where nothing about r is under way, its chain is over. *)
LEMMA QuietChain ==
    ASSUME TypeOK, NEW r \in Reservations, Quiet(r)
    PROVE  Chain(r) = {}
<1>1. ASSUME NEW m \in outbox \cup toConsume, ConfirmMsg(m, r) PROVE FALSE
  <2>1. ReservationOf(m) = r
    BY <1>1, TopicFacts, NoticeFacts DEF ConfirmMsg, ReservationOf
  <2>2. QED
    BY <1>1, <2>1 DEF Quiet
<1>2. ASSUME NEW w \in Workers, Carries(w, r) PROVE FALSE
  <2>1. worker[w] # IdleWorker
    BY <1>2 DEF Carries, IdleWorker
  <2>2. ReservationOf(worker[w].msg) = r
    BY <1>2, TopicFacts, NoticeFacts DEF Carries, ConfirmMsg, ReservationOf
  <2>3. QED
    BY <2>1, <2>2 DEF Quiet
<1>3. QED
  BY <1>1, <1>2 DEF Chain

(* Through outages of Redis and of the vessel service, a captured payment   *)
(* is never forgotten: nothing about it is under way only when the          *)
(* consignment service was told to keep or to refund it, the lapse had won  *)
(* the reservation, or a release of it was given up with an alert.          *)
THEOREM NeverForgotten == ASSUME Outages PROVE Spec => []CapturedNeverForgotten
<1>1. TypeOK /\ CapturedInv => CapturedNeverForgotten
  <2> SUFFICES ASSUME TypeOK, CapturedInv, NEW r \in Reservations,
                      Notice(PaymentCapturedTopic, r) \in published, Quiet(r)
               PROVE  \/ \E t \in AnswerTopics : Reported(t, r)
                      \/ r \in lapsed \cup alerted
    BY DEF CapturedNeverForgotten
  <2>1. Answered(r)
    BY QuietChain DEF CapturedInv, CapturedAt
  <2>2. ~ AlertPending(r)
    BY DEF AlertPending, Quiet
  <2>3. QED
    BY <2>1, <2>2 DEF Answered
<1>2. TypeOK /\ OutcomeInv /\ CapturedInv /\ [Next]_vars => CapturedInv'
  BY OutagesDeliverOnce, TopicsStep, CapturedAtStep DEF CapturedInv, OutcomeInv
<1>3. TypeOK /\ ConfirmInv /\ OutcomeInv /\ [Next]_vars => OutcomeInv'
  BY OutagesDeliverOnce, OutcomeStep
<1>4. QED
  BY TypeInit, TypeStep, ConfirmInit, ConfirmStep, OutcomeInit, CapturedInit,
     <1>1, <1>2, <1>3, PTL DEF Spec
=============================================================================
