------------------------- MODULE ConsignmentManager -------------------------
(***************************************************************************)
(* The consignment service: ConfirmConsignment, which authorises a payment *)
(* and starts the saga, and the Kafka handlers that capture, refund or     *)
(* void the payment and move the consignment's status.  Mongo keeps the    *)
(* consignments and the outbox; one handler writes both in a transaction.  *)
(*                                                                         *)
(* The payment service is PaymentService.  The reservation service is      *)
(* represented by what it promises, ReservationOutcome, which              *)
(* ReservationManager implements: a consignment stands for its             *)
(* reservation and for the id of its payment.                              *)
(***************************************************************************)
EXTENDS Naturals, PaymentService

CONSTANTS
    Consignments,   \* the consignments made through CreateConsignment
    Workers,        \* the consuming loops, one for each running instance
    MaxRetries,     \* maxRetries
    Faults,         \* which failures the environment may inject
    MaxFaults       \* how many failures one behaviour may contain

FaultKinds ==
    { "paymentDown",      \* every attempt of a payment call fails, unapplied
      "paymentReplyLost", \* a payment call is applied, every reply is an error
      "mongoDown",        \* a Mongo read, write or transaction fails, unapplied
      "mongoReplyLost",   \* a Mongo write is applied and reported as failed
      "crash",            \* an instance dies between two calls of a handler
      "redelivery" }      \* a message is delivered, or an event sent, again

ASSUME RetriesAssumption == MaxRetries \in Nat
ASSUME FaultsAssumption  == Faults \subseteq FaultKinds /\ MaxFaults \in Nat
ASSUME IDsAssumption     == PaymentIDs = Consignments

-----------------------------------------------------------------------------
(* Topics and messages *)

ConsignmentPaymentAuthorisedTopic  == "consignment.payment.authorised"
ConsignmentConfirmationFailedTopic == "consignment.confirmation.failed"
ReservationExpiredTopic            == "reservation.expired"
ReservationConfirmedTopic          == "reservation.confirmed"
PaymentCapturedTopic               == "consignment.payment.captured"

AuthorisedMessages ==
    [topic : {ConsignmentPaymentAuthorisedTopic}, consignment : Consignments,
     auth : Auths, captured : BOOLEAN, retryCount : 0..MaxRetries]

\* A failure reported by the reservation service names no authorisation.
FailedMessages ==
    [topic : {ConsignmentConfirmationFailedTopic}, consignment : Consignments,
     auth : Auths \cup {NoID}, captured : BOOLEAN]

Notices ==
    [topic : {ReservationExpiredTopic, ReservationConfirmedTopic, PaymentCapturedTopic},
     consignment : Consignments]

Messages        == AuthorisedMessages \cup FailedMessages \cup Notices
InboundMessages == {m \in Messages : m.topic # PaymentCapturedTopic}

Notice(t, c) == [topic |-> t, consignment |-> c]

Authorised(c, a, captured, n) ==
    [topic |-> ConsignmentPaymentAuthorisedTopic, consignment |-> c,
     auth |-> a, captured |-> captured, retryCount |-> n]

Failed(c, a, captured) ==
    [topic |-> ConsignmentConfirmationFailedTopic, consignment |-> c,
     auth |-> a, captured |-> captured]

-----------------------------------------------------------------------------
VARIABLES
    status,     \* the status of each consignment in Mongo
    paymentID,  \* whether payment_id is recorded with it
    outbox,     \* documents of the outbox with published_at unset
    published,  \* the notices ever produced for the reservation service
    toConsume,  \* messages this consumer group has yet to get through
    passedOver, \* consignments of which a failed message never came back
    worker,     \* what each consuming loop is doing
    call,       \* the ConfirmConsignment call that authorises each payment
    alerts,     \* consignments an ALERT has been logged for
    lapsed,     \* reservations whose id key is gone from Redis
    outcome,    \* ReservationOutcome: what has become of the reservation
    told,       \* ReservationOutcome: what this service is told of it
    faults,     \* how many failures have been injected
    duplicated  \* whether some write or message may have been handled twice

storeVars  == <<status, paymentID>>
kafkaVars  == <<published, toConsume, passedOver>>
rsVars     == <<lapsed, outcome, told>>
vars       == <<payments, storeVars, outbox, kafkaVars, worker, call, alerts, rsVars,
                faults, duplicated>>

RS == INSTANCE ReservationOutcome WITH Reservations <- Consignments

Statuses == {"pending", "confirmation_pending", "confirmed", "cancelled"}

WorkerPcs == {"capture", "tx", "retry", "undo", "read", "cancel", "confirm", "commit"}
CallPcs   == {"authorise", "publish", "cancel", "void", "cancelAgain", "voidAgain",
              "cancelOnly", "done"}

Idle == [pc |-> "idle"]

TypeOK ==
    /\ PaymentsOK
    /\ status \in [Consignments -> {"none"} \cup Statuses]
    /\ paymentID \in [Consignments -> BOOLEAN]
    /\ outbox \subseteq Messages
    /\ published \subseteq Notices
    /\ toConsume \subseteq InboundMessages
    /\ passedOver \subseteq Consignments
    /\ worker \in [Workers -> {Idle} \cup
                      [pc : WorkerPcs, msg : InboundMessages, captured : BOOLEAN]]
    /\ call \in [Auths -> {Idle} \cup [pc : CallPcs, consignment : Consignments]]
    /\ alerts \subseteq Consignments
    /\ lapsed \subseteq Consignments
    /\ outcome \in [Consignments -> {"held", "confirmed", "released"}]
    /\ told \in [Consignments -> {{}, {"confirmed"}, {"failed"}}]
    /\ faults \in 0..MaxFaults
    /\ duplicated \in BOOLEAN

Init ==
    /\ NoPayments
    /\ status = [c \in Consignments |-> "none"]
    /\ paymentID = [c \in Consignments |-> FALSE]
    /\ outbox = {}
    /\ published = {}
    /\ toConsume = {}
    /\ passedOver = {}
    /\ worker = [w \in Workers |-> Idle]
    /\ call = [a \in Auths |-> Idle]
    /\ alerts = {}
    /\ lapsed = {}
    /\ RS!Init
    /\ faults = 0
    /\ duplicated = FALSE

Fault(kind) ==
    /\ kind \in Faults
    /\ faults < MaxFaults
    /\ faults' = faults + 1
    /\ duplicated' = (duplicated \/ kind \in {"mongoReplyLost", "crash", "redelivery"})
NoFault == UNCHANGED <<faults, duplicated>>

-----------------------------------------------------------------------------
(* The calls the handlers make.  The attempts of backoff.Retry are one      *)
(* step: the payment service applies each operation once.                  *)

\* A call that succeeds, is refused or unreachable, or is applied unnoticed.
PaymentCall(possible, Apply, Succeed, Fail) ==
    \/ possible /\ Apply /\ Succeed /\ NoFault
    \/ ~ possible /\ UNCHANGED payments /\ Fail /\ NoFault
    \/ UNCHANGED payments /\ Fail /\ Fault("paymentDown")
    \/ possible /\ Apply /\ Fail /\ Fault("paymentReplyLost")

\* A write to Mongo that succeeds, fails, or fails only by what it returns.
MongoWrite(Write, Skip, Succeed, Fail) ==
    \/ Write /\ Succeed /\ NoFault
    \/ Skip /\ Fail /\ Fault("mongoDown")
    \/ Write /\ Fail /\ Fault("mongoReplyLost")

UpdateStatus(c, s) == status' = [status EXCEPT ![c] = s] /\ UNCHANGED paymentID
CreateEvent(m)     == outbox' = outbox \cup {m}

Alert(c) == alerts' = alerts \cup {c}
NoAlert  == UNCHANGED alerts

-----------------------------------------------------------------------------
(* The gRPC server *)

\* CreateConsignment, once ReserveCapacity has answered.
CreateConsignment(c) ==
    /\ status[c] = "none"
    /\ UpdateStatus(c, "pending")
    /\ UNCHANGED <<payments, outbox, kafkaVars, worker, call, alerts, rsVars, faults, duplicated>>

CallGoto(a, label) == call' = [call EXCEPT ![a].pc = label]

\* ConfirmConsignment finds the consignment, whatever its status, and
\* refreshes the reservation; a call that does not get that far has no effect.
ConfirmConsignment(a, c) ==
    /\ call[a] = Idle
    /\ status[c] # "none"
    /\ c \notin lapsed
    /\ call' = [call EXCEPT ![a] = [pc |-> "authorise", consignment |-> c]]
    /\ UNCHANGED <<payments, storeVars, outbox, kafkaVars, worker, alerts, rsVars, faults, duplicated>>

AuthorisePayment(a) ==
    /\ call[a].pc = "authorise"
    /\ PaymentCall(TRUE, Authorise(a), CallGoto(a, "publish"), CallGoto(a, "cancelOnly"))
    /\ UNCHANGED <<storeVars, outbox, kafkaVars, worker, alerts, rsVars>>

PublishPaymentAuthorised(a) ==
    /\ call[a].pc = "publish"
    /\ MongoWrite(CreateEvent(Authorised(call[a].consignment, a, FALSE, 0)), UNCHANGED outbox,
                  CallGoto(a, "done"), CallGoto(a, "cancel"))
    /\ UNCHANGED <<payments, storeVars, kafkaVars, worker, alerts, rsVars>>

\* publishPaymentAuthorised cancels and voids before it returns its error, and
\* ConfirmConsignment does so again.
CancelConsignment(a) ==
    LET c == call[a].consignment IN
    /\ call[a].pc \in {"cancel", "cancelAgain", "cancelOnly"}
    /\ MongoWrite(UpdateStatus(c, "cancelled"), UNCHANGED storeVars, NoAlert, Alert(c))
    /\ CallGoto(a, CASE call[a].pc = "cancel"      -> "void"
                     [] call[a].pc = "cancelAgain" -> "voidAgain"
                     [] call[a].pc = "cancelOnly"  -> "done")
    /\ UNCHANGED <<payments, outbox, kafkaVars, worker, rsVars>>

VoidPayment(a) ==
    /\ call[a].pc \in {"void", "voidAgain"}
    /\ PaymentCall(CanVoid(a), Void(a), NoAlert, Alert(call[a].consignment))
    /\ CallGoto(a, IF call[a].pc = "void" THEN "cancelAgain" ELSE "done")
    /\ UNCHANGED <<storeVars, outbox, kafkaVars, worker, rsVars>>

-----------------------------------------------------------------------------
(* The outbox publisher and the reservation service *)

Produce(m) == toConsume' = toConsume \cup {m} /\ UNCHANGED passedOver

PublishOutbox(row) ==
    /\ row \in outbox
    /\ IF row.topic = PaymentCapturedTopic
       THEN published' = published \cup {row} /\ UNCHANGED <<toConsume, passedOver>>
       ELSE Produce(row) /\ UNCHANGED published
    /\ \/ outbox' = outbox \ {row} /\ NoFault
       \/ outbox' = outbox /\ Fault("redelivery")
    /\ UNCHANGED <<payments, storeVars, worker, call, alerts, rsVars>>

ReservationLapses(c) ==
    /\ c \notin lapsed
    /\ lapsed' = lapsed \cup {c}
    /\ UNCHANGED <<payments, storeVars, outbox, kafkaVars, worker, call, alerts, outcome, told,
                   faults, duplicated>>

\* Reported by the cleanup job, to both services, while the data is there.
ReservationExpired(c) ==
    LET m == Notice(ReservationExpiredTopic, c) IN
    /\ c \in lapsed
    /\ outcome[c] = "held"
    /\ IF m \in published THEN Fault("redelivery") ELSE NoFault
    /\ Produce(m)
    /\ published' = published \cup {m}
    /\ UNCHANGED <<payments, storeVars, outbox, worker, call, alerts, rsVars>>

\* payment.captured has the capacity confirmed, or released when that fails, or
\* seems to; reservation.expired has it released.
ReservationSettled(c) ==
    /\ \/ Notice(PaymentCapturedTopic, c) \in published /\ RS!Confirm(c)
       \/ Notice(PaymentCapturedTopic, c) \in published /\ (RS!Release(c) \/ RS!Undo(c))
       \/ Notice(ReservationExpiredTopic, c) \in published /\ RS!Release(c)
    /\ UNCHANGED <<payments, storeVars, outbox, kafkaVars, worker, call, alerts, lapsed,
                   faults, duplicated>>

\* The answer to payment.captured.
ReservationAnswers(c) ==
    /\ Notice(PaymentCapturedTopic, c) \in published
    /\ \/ RS!TellConfirmed(c) /\ Produce(Notice(ReservationConfirmedTopic, c))
       \/ RS!TellFailed(c) /\ Produce(Failed(c, NoID, TRUE))
    /\ IF told[c] = told'[c] THEN Fault("redelivery") ELSE NoFault
    /\ UNCHANGED <<payments, storeVars, outbox, published, worker, call, alerts, lapsed>>

-----------------------------------------------------------------------------
(* The event handlers *)

Msg(w)         == worker[w].msg
Goto(w, label) == worker' = [worker EXCEPT ![w].pc = label]
GotoCommit(w)  == Goto(w, "commit") /\ UNCHANGED <<toConsume, passedOver>>

\* The offset is not committed: the message comes back after a restart or a
\* rebalance.
Redelivered(w) ==
    /\ worker' = [worker EXCEPT ![w] = Idle]
    /\ Produce(Msg(w))

\* The loop goes on to the next message; once that one is committed, the
\* failed one is never delivered again.
PassedOver(w) ==
    /\ worker' = [worker EXCEPT ![w] = Idle]
    /\ passedOver' = passedOver \cup {Msg(w).consignment}
    /\ UNCHANGED toConsume

\* The handler returns an error.
HandlerError(w) == Redelivered(w) \/ PassedOver(w)

AlreadyCaptured(m) == m.topic = ConsignmentPaymentAuthorisedTopic /\ m.captured

FirstStep(m) ==
    CASE m.topic = ConsignmentPaymentAuthorisedTopic  -> IF AlreadyCaptured(m) THEN "tx" ELSE "capture"
      [] m.topic = ConsignmentConfirmationFailedTopic -> "undo"
      [] m.topic = ReservationExpiredTopic            -> "read"
      [] m.topic = ReservationConfirmedTopic          -> "confirm"

Receive(w, m) ==
    /\ worker[w] = Idle
    /\ m \in toConsume
    /\ toConsume' = toConsume \ {m}
    /\ worker' = [worker EXCEPT ![w] =
           [pc |-> FirstStep(m), msg |-> m, captured |-> AlreadyCaptured(m)]]
    /\ UNCHANGED <<payments, storeVars, outbox, published, passedOver, call, alerts, rsVars,
                   faults, duplicated>>

\* handlePaymentAuthorisedEvent: the capture, with the consignment as key.
CapturePayment(w) ==
    LET a == Msg(w).auth IN
    /\ worker[w].pc = "capture"
    /\ PaymentCall(CanCapture(a), Capture(a, Msg(w).consignment),
                   worker' = [worker EXCEPT ![w].pc = "tx", ![w].captured = TRUE],
                   Goto(w, "retry"))
    /\ UNCHANGED <<storeVars, outbox, kafkaVars, call, alerts, rsVars>>

\* Mutant: the error of the transaction is not looked at.
RecordPayment_IgnoresError(w) ==
    LET c == Msg(w).consignment IN
    /\ worker[w].pc = "tx"
    /\ MongoWrite(/\ CreateEvent(Notice(PaymentCapturedTopic, c))
                  /\ status' = [status EXCEPT ![c] = "confirmation_pending"]
                  /\ paymentID' = [paymentID EXCEPT ![c] = TRUE],
                  UNCHANGED <<outbox, storeVars>>,
                  TRUE, TRUE)
    /\ Goto(w, "commit")
    /\ UNCHANGED <<payments, kafkaVars, call, alerts, rsVars>>

\* Mutant: the event is created apart from the update, which may then fail.
RecordPayment_TwoWrites(w) ==
    LET c == Msg(w).consignment IN
    /\ worker[w].pc = "tx"
    /\ CreateEvent(Notice(PaymentCapturedTopic, c))
    /\ MongoWrite(/\ status' = [status EXCEPT ![c] = "confirmation_pending"]
                  /\ paymentID' = [paymentID EXCEPT ![c] = TRUE],
                  UNCHANGED storeVars,
                  Goto(w, "commit"), Goto(w, "retry"))
    /\ UNCHANGED <<payments, kafkaVars, call, alerts, rsVars>>

\* The transaction that records the payment and publishes payment.captured.
RecordPayment(w) ==
    LET c == Msg(w).consignment IN
    /\ worker[w].pc = "tx"
    /\ MongoWrite(/\ CreateEvent(Notice(PaymentCapturedTopic, c))
                  /\ status' = [status EXCEPT ![c] = "confirmation_pending"]
                  /\ paymentID' = [paymentID EXCEPT ![c] = TRUE],
                  UNCHANGED <<outbox, storeVars>>,
                  Goto(w, "commit"), Goto(w, "retry"))
    /\ UNCHANGED <<payments, kafkaVars, call, alerts, rsVars>>

\* Mutant: one retry too many.
Retry_OffByOne(m, captured) ==
    IF m.retryCount > MaxRetries
    THEN Failed(m.consignment, m.auth, captured)
    ELSE Authorised(m.consignment, m.auth, captured, m.retryCount + 1)

\* What publishPaymentAuthorised schedules: the next attempt, or the DLQ.
Retry(m, captured) ==
    IF m.retryCount + 1 > MaxRetries
    THEN Failed(m.consignment, m.auth, captured)
    ELSE Authorised(m.consignment, m.auth, captured, m.retryCount + 1)

\* Mutant: a retry that cannot be scheduled is only logged.
ScheduleRetry_LogsError(w) ==
    /\ worker[w].pc = "retry"
    /\ MongoWrite(CreateEvent(Retry(Msg(w), worker[w].captured)), UNCHANGED outbox, TRUE, TRUE)
    /\ GotoCommit(w)
    /\ UNCHANGED <<payments, storeVars, published, call, alerts, rsVars>>

ScheduleRetry(w) ==
    /\ worker[w].pc = "retry"
    /\ MongoWrite(CreateEvent(Retry(Msg(w), worker[w].captured)), UNCHANGED outbox,
                  GotoCommit(w), HandlerError(w))
    /\ UNCHANGED <<payments, storeVars, published, call, alerts, rsVars>>

\* handleFailedConfirmationEvent voids the authorisation or refunds the
\* payment; handleExpiredReservationEvent refunds the payment it has read.
UndoPayment(w) ==
    LET m == Msg(w)
        void == m.topic = ConsignmentConfirmationFailedTopic /\ ~ m.captured
    IN
    /\ worker[w].pc = "undo"
    /\ IF void THEN PaymentCall(CanVoid(m.auth), Void(m.auth), NoAlert, Alert(m.consignment))
               ELSE PaymentCall(CanRefund(m.consignment), Refund(m.consignment),
                                NoAlert, Alert(m.consignment))
    /\ Goto(w, "cancel")
    /\ UNCHANGED <<storeVars, outbox, kafkaVars, call, rsVars>>

\* Mutant: the status is not looked at.
ReadConsignment_AnyStatus(w) ==
    LET c == Msg(w).consignment IN
    /\ worker[w].pc = "read"
    /\ \/ /\ status[c] # "none"
          /\ Goto(w, IF paymentID[c] THEN "undo" ELSE "cancel")
          /\ UNCHANGED <<toConsume, passedOver>>
          /\ NoFault
       \/ status[c] = "none" /\ HandlerError(w) /\ NoFault
       \/ Fault("mongoDown") /\ HandlerError(w)
    /\ UNCHANGED <<payments, storeVars, outbox, published, call, alerts, rsVars>>

\* handleExpiredReservationEvent acts on pending consignments only.
ReadConsignment(w) ==
    LET c == Msg(w).consignment IN
    /\ worker[w].pc = "read"
    /\ \/ /\ status[c] # "none"
          /\ Goto(w, IF status[c] # "pending" THEN "commit"
                     ELSE IF paymentID[c] THEN "undo" ELSE "cancel")
          /\ UNCHANGED <<toConsume, passedOver>>
          /\ NoFault
       \/ status[c] = "none" /\ HandlerError(w) /\ NoFault
       \/ Fault("mongoDown") /\ HandlerError(w)
    /\ UNCHANGED <<payments, storeVars, outbox, published, call, alerts, rsVars>>

\* Mutant: an update that fails is only logged.
SetStatusTo_LogsError(w, label, s) ==
    /\ worker[w].pc = label
    /\ MongoWrite(UpdateStatus(Msg(w).consignment, s), UNCHANGED storeVars, TRUE, TRUE)
    /\ GotoCommit(w)
    /\ UNCHANGED <<payments, outbox, published, call, alerts, rsVars>>

\* The unconditional update that ends the handlers of a failed confirmation,
\* of an expired and of a confirmed reservation.
SetStatusTo(w, label, s) ==
    /\ worker[w].pc = label
    /\ MongoWrite(UpdateStatus(Msg(w).consignment, s), UNCHANGED storeVars,
                  GotoCommit(w), HandlerError(w))
    /\ UNCHANGED <<payments, outbox, published, call, alerts, rsVars>>

Cancel(w)  == SetStatusTo(w, "cancel", "cancelled")
Confirm(w) == SetStatusTo(w, "confirm", "confirmed")

\* The offset is committed; when the commit is lost the message comes back.
CommitMessage(w) ==
    /\ worker[w].pc = "commit"
    /\ worker' = [worker EXCEPT ![w] = Idle]
    /\ \/ UNCHANGED <<toConsume, passedOver>> /\ NoFault
       \/ Produce(Msg(w)) /\ Fault("redelivery")
    /\ UNCHANGED <<payments, storeVars, outbox, published, call, alerts, rsVars>>

\* The instance dies in the middle of a handler.
Crash(w) ==
    /\ worker[w] # Idle
    /\ Fault("crash")
    /\ Redelivered(w)
    /\ UNCHANGED <<payments, storeVars, outbox, published, call, alerts, rsVars>>

WorkerStep(w) ==
    \/ \E m \in toConsume : Receive(w, m)
    \/ CapturePayment(w)
    \/ RecordPayment(w)
    \/ ScheduleRetry(w)
    \/ UndoPayment(w)
    \/ ReadConsignment(w)
    \/ Cancel(w)
    \/ Confirm(w)
    \/ CommitMessage(w)

CallStep(a) ==
    \/ AuthorisePayment(a)
    \/ PublishPaymentAuthorised(a)
    \/ CancelConsignment(a)
    \/ VoidPayment(a)

Reservation(c) ==
    \/ ReservationLapses(c)
    \/ ReservationExpired(c)
    \/ ReservationSettled(c)
    \/ ReservationAnswers(c)

Next ==
    \/ \E c \in Consignments : CreateConsignment(c) \/ Reservation(c)
    \/ \E a \in Auths, c \in Consignments : ConfirmConsignment(a, c)
    \/ \E a \in Auths : CallStep(a)
    \/ \E row \in outbox : PublishOutbox(row)
    \/ \E w \in Workers : WorkerStep(w) \/ Crash(w)

Spec == Init /\ [][Next]_vars

\* The consuming loop and the outbox ticker run for ever.  Nothing is assumed
\* of clients, and nothing of the reservation service.
Fairness ==
    /\ \A w \in Workers : WF_vars(WorkerStep(w))
    /\ WF_vars(\E row \in outbox : PublishOutbox(row))

FairSpec == Spec /\ Fairness

-----------------------------------------------------------------------------
(* Properties *)

\* Nothing is left in this service that could still move consignment c.
Quiet(c) ==
    /\ \A m \in outbox \cup toConsume : m.consignment # c
    /\ \A w \in Workers : worker[w] # Idle => Msg(w).consignment # c
    /\ \A a \in Auths : call[a].pc \notin {"idle", "done"} => call[a].consignment # c

Captured(c) == \E a \in Anchored(c) : Status(a) = "captured"

\* The client has confirmed consignment c at most once.  Each call authorises a
\* payment of its own, all are captured under the same key, and a refund finds
\* whichever of them comes first: nothing below holds of a second one.
Starts(a, c)     == call[a] # Idle /\ call[a].consignment = c
ConfirmedOnce(c) == \A a, b \in Auths : Starts(a, c) /\ Starts(b, c) => a = b

\* A captured payment is lost by nothing but a message that is passed over:
\* when everything about the consignment has been handled, the reservation
\* service has been sent payment.captured, or somebody an ALERT.
CapturedIsPassedOn ==
    \A c \in Consignments :
        Captured(c) /\ ConfirmedOnce(c) /\ Quiet(c) =>
            \/ Notice(PaymentCapturedTopic, c) \in published
            \/ c \in alerts
            \/ c \in passedOver

\* The customer gets the money back only of a consignment that is cancelled: as
\* long as nothing is handled twice, when everything about it has been handled,
\* a payment that was voided or refunded leaves no consignment that goes on, but
\* for an ALERT or a message that is passed over.
UndoneIsCancelled ==
    \A c \in Consignments :
        /\ \E a \in Auths : Starts(a, c) /\ Status(a) \in {"voided", "refunded"}
        /\ ConfirmedOnce(c) /\ ~ duplicated /\ Quiet(c)
        => \/ status[c] = "cancelled"
           \/ c \in alerts
           \/ c \in passedOver

\* As long as nothing is handled twice, a consignment whose capacity is reported
\* confirmed is paid for: no retry, no exhausted capture, no expiry refunds it.
ConfirmedIsPaid ==
    \A c \in Consignments :
        "confirmed" \in told[c] /\ ConfirmedOnce(c) /\ ~ duplicated => Captured(c)

\* A confirmation the client has started ends: the retries of the capture and
\* of the transaction run out, and the consignment leaves "pending", unless a
\* message of its is passed over.
LeavesPending ==
    \A c \in Consignments :
        (\E m \in outbox \cup toConsume :
             m.topic = ConsignmentPaymentAuthorisedTopic /\ m.consignment = c)
        ~> status[c] # "pending" \/ c \in passedOver

\* docs/saga-overview.md: the state machine of the consignment's status, whose
\* final states are left by no transition.
StatusOrder ==
    {<<"none", "pending">>, <<"pending", "confirmation_pending">>, <<"pending", "cancelled">>,
     <<"confirmation_pending", "confirmed">>, <<"confirmation_pending", "cancelled">>}

FollowsStatusOrder ==
    [][\A c \in Consignments :
          status'[c] # status[c] => <<status[c], status'[c]>> \in StatusOrder]_status
=============================================================================
