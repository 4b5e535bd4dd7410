---------------------- MODULE ConsignmentManagerProofs ----------------------
(***************************************************************************)
(* Proofs about ConsignmentManager, for any number of consignments,        *)
(* authorisations, consuming loops, retries and failures of every kind:    *)
(* its types, that a captured payment is always somebody's business, that  *)
(* a consignment reported confirmed is paid for, and that one whose money  *)
(* is returned is cancelled.                                               *)
(*                                                                         *)
(* Each step has a lemma that says what it changes (...Effect).  SagaInv   *)
(* says what is known of whoever carries a message, CarriedInv who looks   *)
(* after a payment, PaidInv that the confirmation is in one place, and     *)
(* UndoneInv that whoever undoes the payment was that place.               *)
(***************************************************************************)
EXTENDS ConsignmentManager, TLAPS

USE RetriesAssumption, FaultsAssumption, IDsAssumption, NoIDAssumption

-----------------------------------------------------------------------------
(* Type correctness *)

\* What ConsignmentManager and PaymentService write, by what it is.
LEMMA Writes ==
    ASSUME NEW c \in Consignments, NEW a \in Auths, NEW captured \in BOOLEAN
    PROVE  /\ \A n \in 0..MaxRetries :
                  Authorised(c, a, captured, n) \in AuthorisedMessages
           /\ Failed(c, a, captured) \in FailedMessages
           /\ Failed(c, NoID, TRUE) \in FailedMessages
           /\ Notice(ReservationExpiredTopic, c) \in Notices
           /\ Notice(ReservationConfirmedTopic, c) \in Notices
           /\ Notice(PaymentCapturedTopic, c) \in Notices
BY DEF Authorised, Failed, Notice, AuthorisedMessages, FailedMessages, Notices

LEMMA TopicsDiffer ==
    /\ \A m \in AuthorisedMessages : m.topic = ConsignmentPaymentAuthorisedTopic
    /\ \A m \in FailedMessages : m.topic = ConsignmentConfirmationFailedTopic
    /\ \A m \in Notices : m.topic \in {ReservationExpiredTopic, ReservationConfirmedTopic,
                                       PaymentCapturedTopic}
    /\ \A m \in Messages : m.consignment \in Consignments
    /\ \A m \in Messages : m.topic = ConsignmentPaymentAuthorisedTopic => m \in AuthorisedMessages
    /\ \A m \in Messages : m.topic = ConsignmentConfirmationFailedTopic => m \in FailedMessages
    /\ ConsignmentPaymentAuthorisedTopic # ConsignmentConfirmationFailedTopic
BY DEF Messages, AuthorisedMessages, FailedMessages, Notices,
       ConsignmentPaymentAuthorisedTopic, ConsignmentConfirmationFailedTopic,
       ReservationExpiredTopic, ReservationConfirmedTopic, PaymentCapturedTopic

Busy == [pc : WorkerPcs, msg : InboundMessages, captured : BOOLEAN]
Started == [pc : CallPcs, consignment : Consignments]

(* A loop that is in a handler, and a call that has started. *)
LEMMA BusyWorker ==
    ASSUME TypeOK, NEW w \in Workers, worker[w] # Idle \/ worker[w].pc # "idle"
    PROVE  /\ worker[w] \in Busy
           /\ worker[w] # Idle
           /\ worker[w].pc \in WorkerPcs
           /\ worker[w].captured \in BOOLEAN
           /\ Msg(w) \in InboundMessages
           /\ Msg(w) \in Messages
           /\ Msg(w).consignment \in Consignments
<1>1. worker[w] \in {Idle} \cup Busy
  BY DEF TypeOK, Busy
<1>2. worker[w] # Idle
  BY DEF Idle
<1>3. worker[w] \in Busy
  BY <1>1, <1>2
<1>4. worker[w].pc \in WorkerPcs /\ worker[w].captured \in BOOLEAN /\ Msg(w) \in InboundMessages
  BY <1>3 DEF Busy, Msg
<1>5. QED
  BY <1>2, <1>3, <1>4, TopicsDiffer DEF InboundMessages

LEMMA StartedCall ==
    ASSUME TypeOK, NEW a \in Auths, call[a] # Idle \/ call[a].pc # "idle"
    PROVE  /\ call[a] \in Started
           /\ call[a] # Idle
           /\ call[a].pc \in CallPcs
           /\ call[a].consignment \in Consignments
<1>1. call[a] \in {Idle} \cup Started
  BY DEF TypeOK, Started
<1>2. call[a] # Idle
  BY DEF Idle
<1>3. QED
  BY <1>1, <1>2 DEF Started

LEMMA NoneIdle ==
    /\ "idle" \notin WorkerPcs /\ "idle" \notin CallPcs
    /\ Idle.pc = "idle"
    /\ \A b \in Busy : b # Idle
    /\ \A b \in Started : b # Idle
BY DEF Idle, Busy, Started, WorkerPcs, CallPcs

(* Where a loop and a call go next. *)
LEMMA GotoEffect ==
    ASSUME TypeOK, NEW w \in Workers, worker[w] # Idle, NEW label \in WorkerPcs, Goto(w, label)
    PROVE  /\ worker'[w] = [pc |-> label, msg |-> Msg(w), captured |-> worker[w].captured]
           /\ worker'[w] \in Busy
           /\ worker' \in [Workers -> {Idle} \cup Busy]
           /\ \A v \in Workers \ {w} : worker'[v] = worker[v]
<1>1. worker[w] \in Busy
  BY BusyWorker
<1>2. worker' = [worker EXCEPT ![w] = [worker[w] EXCEPT !.pc = label]]
  BY DEF Goto
<1>3. [worker[w] EXCEPT !.pc = label]
          = [pc |-> label, msg |-> Msg(w), captured |-> worker[w].captured]
  BY <1>1 DEF Busy, Msg
<1>4. [worker[w] EXCEPT !.pc = label] \in Busy
  BY <1>1, <1>3, BusyWorker DEF Busy, Msg
<1>5. worker \in [Workers -> {Idle} \cup Busy]
  BY DEF TypeOK, Busy
<1>6. QED
  BY <1>2, <1>3, <1>4, <1>5

LEMMA CallGotoEffect ==
    ASSUME TypeOK, NEW a \in Auths, call[a] # Idle, NEW label \in CallPcs, CallGoto(a, label)
    PROVE  /\ call'[a] = [pc |-> label, consignment |-> call[a].consignment]
           /\ call'[a] \in Started
           /\ call' \in [Auths -> {Idle} \cup Started]
           /\ \A b \in Auths \ {a} : call'[b] = call[b]
<1>1. call[a] \in Started
  BY StartedCall
<1>2. call' = [call EXCEPT ![a] = [call[a] EXCEPT !.pc = label]]
  BY DEF CallGoto
<1>3. [call[a] EXCEPT !.pc = label] = [pc |-> label, consignment |-> call[a].consignment]
  BY <1>1 DEF Started
<1>4. [call[a] EXCEPT !.pc = label] \in Started
  BY <1>1, <1>3 DEF Started
<1>5. call \in [Auths -> {Idle} \cup Started]
  BY DEF TypeOK, Started
<1>6. QED
  BY <1>2, <1>3, <1>4, <1>5

(* A failure is counted, and what was handled twice stays so. *)
LEMMA FaultEffect ==
    ASSUME TypeOK, NEW kind, NoFault \/ Fault(kind)
    PROVE  /\ faults' \in 0..MaxFaults
           /\ duplicated' \in BOOLEAN
           /\ duplicated => duplicated'
           /\ kind \in {"mongoReplyLost", "crash", "redelivery"} /\ Fault(kind) => duplicated'
<1>1. CASE NoFault
  BY <1>1 DEF NoFault, TypeOK, Fault
<1>2. CASE Fault(kind)
  <2>1. faults \in 0..MaxFaults /\ faults < MaxFaults /\ faults' = faults + 1
    BY <1>2 DEF Fault, TypeOK
  <2>2. faults' \in 0..MaxFaults
    BY <2>1
  <2>3. duplicated' = (duplicated \/ kind \in {"mongoReplyLost", "crash", "redelivery"})
    BY <1>2 DEF Fault
  <2>4. QED
    BY <2>2, <2>3
<1>3. QED
  BY <1>1, <1>2

(* A handler that returns an error, and one whose message comes back. *)
LEMMA HandlerErrorEffect ==
    ASSUME TypeOK, NEW w \in Workers, worker[w] # Idle, HandlerError(w)
    PROVE  /\ worker'[w] = Idle
           /\ worker' \in [Workers -> {Idle} \cup Busy]
           /\ \A v \in Workers \ {w} : worker'[v] = worker[v]
           /\ toConsume' \in SUBSET InboundMessages
           /\ passedOver' \in SUBSET Consignments
           /\ toConsume \subseteq toConsume' /\ toConsume' \subseteq toConsume \cup {Msg(w)}
           /\ passedOver \subseteq passedOver'
           /\ Msg(w) \in toConsume' \/ Msg(w).consignment \in passedOver'
<1>1. worker \in [Workers -> {Idle} \cup Busy]
  BY DEF TypeOK, Busy
<1>2. worker' = [worker EXCEPT ![w] = Idle]
  BY DEF HandlerError, Redelivered, PassedOver
<1>3. Msg(w) \in InboundMessages /\ Msg(w).consignment \in Consignments
  BY BusyWorker
<1>4. \/ toConsume' = toConsume \cup {Msg(w)} /\ passedOver' = passedOver
      \/ toConsume' = toConsume /\ passedOver' = passedOver \cup {Msg(w).consignment}
  BY DEF HandlerError, Redelivered, PassedOver, Produce
<1>5. QED
  BY <1>1, <1>2, <1>3, <1>4 DEF TypeOK

(* What the payment service may do to its payments. *)
LEMMA PaymentEffect ==
    ASSUME TypeOK, NEW a \in Auths, NEW c \in Consignments,
           \/ UNCHANGED payments
           \/ Authorise(a) \/ Capture(a, c) \/ Refund(c) \/ Void(a)
    PROVE  PaymentsOK'
<1>1. payments \in [Auths -> [status : PaymentStatuses, captureID : PaymentIDs \cup {NoID}]]
  BY DEF TypeOK, PaymentsOK
<1>2. CASE UNCHANGED payments
  BY <1>2 DEF TypeOK, PaymentsOK
<1>3. ASSUME NEW b \in Auths, NEW s \in PaymentStatuses, SetStatus(b, s)
      PROVE  PaymentsOK'
  <2>1. payments' = [payments EXCEPT ![b] = [payments[b] EXCEPT !.status = s]]
    BY <1>3 DEF SetStatus
  <2>2. payments[b] \in [status : PaymentStatuses, captureID : PaymentIDs \cup {NoID}]
    BY <1>1
  <2>3. [payments[b] EXCEPT !.status = s] \in [status : PaymentStatuses, captureID : PaymentIDs \cup {NoID}]
    BY <2>2
  <2>4. QED
    BY <1>1, <2>1, <2>3 DEF PaymentsOK
<1>4. CASE Capture(a, c)
  <2>1. [status |-> "captured", captureID |-> c]
            \in [status : PaymentStatuses, captureID : PaymentIDs \cup {NoID}]
    BY DEF PaymentStatuses
  <2>2. QED
    BY <1>1, <1>4, <2>1 DEF Capture, PaymentsOK
<1>5. CASE Authorise(a)
  BY <1>3, <1>5 DEF Authorise, PaymentStatuses
<1>6. CASE Void(a)
  BY <1>3, <1>6 DEF Void, PaymentStatuses
<1>7. CASE Refund(c)
  BY <1>3, <1>7 DEF Refund, Anchored, PaymentStatuses
<1>8. QED
  BY <1>2, <1>4, <1>5, <1>6, <1>7

(* The payment a step leaves alone. *)
LEMMA PaymentKept ==
    ASSUME TypeOK, NEW a \in Auths, NEW s, SetStatus(a, s)
    PROVE  /\ payments'[a] = [status |-> s, captureID |-> payments[a].captureID]
           /\ \A b \in Auths \ {a} : payments'[b] = payments[b]
<1>1. payments[a] \in [status : PaymentStatuses, captureID : PaymentIDs \cup {NoID}]
  BY DEF TypeOK, PaymentsOK
<1>2. payments' = [payments EXCEPT ![a] = [payments[a] EXCEPT !.status = s]]
  BY DEF SetStatus
<1>3. [payments[a] EXCEPT !.status = s] = [status |-> s, captureID |-> payments[a].captureID]
  BY <1>1
<1>4. payments \in [Auths -> [status : PaymentStatuses, captureID : PaymentIDs \cup {NoID}]]
  BY DEF TypeOK, PaymentsOK
<1>5. QED
  BY <1>2, <1>3, <1>4

-----------------------------------------------------------------------------
(* What each step does *)

Counted == faults' \in 0..MaxFaults /\ duplicated' \in BOOLEAN /\ (duplicated => duplicated')

\* Loop w, and no other, goes on to label, or to the next message.
Moves(w, label) ==
    /\ worker'[w] = [pc |-> label, msg |-> Msg(w), captured |-> worker[w].captured]
    /\ worker'[w] \in Busy
    /\ \A v \in Workers \ {w} : worker'[v] = worker[v]
    /\ worker' \in [Workers -> {Idle} \cup Busy]

Rests(w) ==
    /\ worker'[w] = Idle
    /\ \A v \in Workers \ {w} : worker'[v] = worker[v]
    /\ worker' \in [Workers -> {Idle} \cup Busy]

\* The message of loop w comes back, or is passed over.
ReturnsOrPassesOver(w) ==
    /\ toConsume' \in SUBSET InboundMessages
    /\ passedOver' \in SUBSET Consignments
    /\ toConsume \subseteq toConsume' /\ toConsume' \subseteq toConsume \cup {Msg(w)}
    /\ passedOver \subseteq passedOver'

CallMoves(a, label) ==
    /\ call'[a] = [pc |-> label, consignment |-> call[a].consignment]
    /\ call'[a] \in Started
    /\ \A b \in Auths \ {a} : call'[b] = call[b]
    /\ call' \in [Auths -> {Idle} \cup Started]

LEMMA CreateEffect ==
    ASSUME TypeOK, NEW c \in Consignments, CreateConsignment(c)
    PROVE  /\ status[c] = "none"
           /\ status' = [status EXCEPT ![c] = "pending"]
           /\ Counted
           /\ UNCHANGED <<payments, paymentID, outbox, kafkaVars, worker, call, alerts, rsVars,
                          duplicated>>
BY DEF TypeOK, CreateConsignment, UpdateStatus, Counted

LEMMA ConfirmEffect ==
    ASSUME TypeOK, NEW a \in Auths, NEW c \in Consignments, ConfirmConsignment(a, c)
    PROVE  /\ call[a] = Idle
           /\ call'[a] = [pc |-> "authorise", consignment |-> c]
           /\ call'[a] \in Started
           /\ \A b \in Auths \ {a} : call'[b] = call[b]
           /\ call' \in [Auths -> {Idle} \cup Started]
           /\ Counted
           /\ UNCHANGED <<payments, storeVars, outbox, kafkaVars, worker, alerts, rsVars,
                          duplicated>>
<1>1. [pc |-> "authorise", consignment |-> c] \in Started
  BY DEF Started, CallPcs
<1>2. call \in [Auths -> {Idle} \cup Started]
  BY DEF TypeOK, Started
<1>3. call' = [call EXCEPT ![a] = [pc |-> "authorise", consignment |-> c]]
  BY DEF ConfirmConsignment
<1>4. QED
  BY <1>1, <1>2, <1>3 DEF ConfirmConsignment, TypeOK, Counted

LEMMA AuthoriseEffect ==
    ASSUME TypeOK, NEW a \in Auths, AuthorisePayment(a)
    PROVE  /\ call[a].pc = "authorise"
           /\ CallMoves(a, "publish") \/ CallMoves(a, "cancelOnly")
           /\ UNCHANGED payments \/ Authorise(a)
           /\ Counted
           /\ UNCHANGED <<storeVars, outbox, kafkaVars, worker, alerts, rsVars, duplicated>>
<1>1. call[a].pc = "authorise" /\ call[a] # Idle
  BY DEF AuthorisePayment, Idle
<1>2. CallGoto(a, "publish") \/ CallGoto(a, "cancelOnly")
  BY DEF AuthorisePayment, PaymentCall
<1>3. CallMoves(a, "publish") \/ CallMoves(a, "cancelOnly")
  BY <1>1, <1>2, CallGotoEffect DEF CallMoves, CallPcs
<1>4. Counted /\ duplicated' = duplicated
  BY FaultEffect DEF AuthorisePayment, PaymentCall, Counted, Fault, NoFault, TypeOK
<1>5. QED
  BY <1>1, <1>3, <1>4 DEF AuthorisePayment, PaymentCall

\* The event is created by the calls that report it, or twice.
LEMMA PublishAuthorisedEffect ==
    ASSUME TypeOK, NEW a \in Auths, PublishPaymentAuthorised(a)
    PROVE  LET m == Authorised(call[a].consignment, a, FALSE, 0) IN
           /\ call[a].pc = "publish"
           /\ m \in AuthorisedMessages
           /\ CallMoves(a, "done") \/ CallMoves(a, "cancel")
           /\ outbox' = outbox \cup {m} \/ outbox' = outbox
           /\ CallMoves(a, "done") \/ outbox' = outbox \/ duplicated'
           /\ Counted
           /\ UNCHANGED <<payments, storeVars, kafkaVars, worker, alerts, rsVars>>
<1> DEFINE m == Authorised(call[a].consignment, a, FALSE, 0)
<1>1. call[a].pc = "publish" /\ call[a] # Idle
  BY DEF PublishPaymentAuthorised, Idle
<1>2. CallGoto(a, "done") \/ CallGoto(a, "cancel")
  BY DEF PublishPaymentAuthorised, MongoWrite
<1>3. CallMoves(a, "done") \/ CallMoves(a, "cancel")
  BY <1>1, <1>2, CallGotoEffect DEF CallMoves, CallPcs
<1>4. call[a].consignment \in Consignments /\ 0 \in 0..MaxRetries
  BY <1>1, StartedCall
<1>5. m \in AuthorisedMessages
  BY <1>4, Writes
<1>6. Counted /\ (Fault("mongoReplyLost") => duplicated')
  BY FaultEffect DEF PublishPaymentAuthorised, MongoWrite, Counted
<1>7. CallGoto(a, "done") => CallMoves(a, "done")
  BY <1>1, CallGotoEffect DEF CallMoves, CallPcs
<1>8. QED
  BY <1>1, <1>3, <1>5, <1>6, <1>7 DEF PublishPaymentAuthorised, MongoWrite, CreateEvent

LEMMA CancelEffect ==
    ASSUME TypeOK, NEW a \in Auths, CancelConsignment(a)
    PROVE  LET c == call[a].consignment IN
           /\ call[a].pc \in {"cancel", "cancelAgain", "cancelOnly"}
           /\ c \in Consignments
           /\ \E label \in {"void", "voidAgain", "done"} :
                  CallMoves(a, label) /\ (call[a].pc = "cancelOnly" => label = "done")
           /\ status' = [status EXCEPT ![c] = "cancelled"] \/ (status' = status /\ c \in alerts')
           /\ alerts' = alerts \/ alerts' = alerts \cup {c}
           /\ Counted
           /\ UNCHANGED <<payments, paymentID, outbox, kafkaVars, worker, rsVars>>
<1>1. call[a].pc \in {"cancel", "cancelAgain", "cancelOnly"} /\ call[a] # Idle
  BY DEF CancelConsignment, Idle
<1>2. PICK label \in {"void", "voidAgain", "done"} :
          CallGoto(a, label) /\ (call[a].pc = "cancelOnly" => label = "done")
  BY <1>1 DEF CancelConsignment
<1>3. CallMoves(a, label)
  BY <1>1, <1>2, CallGotoEffect DEF CallMoves, CallPcs
<1>4. Counted
  BY FaultEffect DEF CancelConsignment, MongoWrite, Counted
<1>5. QED
  BY <1>1, <1>2, <1>3, <1>4, StartedCall
     DEF CancelConsignment, MongoWrite, UpdateStatus, Alert, NoAlert, storeVars

LEMMA VoidEffect ==
    ASSUME TypeOK, NEW a \in Auths, VoidPayment(a)
    PROVE  LET c == call[a].consignment IN
           /\ call[a].pc \in {"void", "voidAgain"}
           /\ c \in Consignments
           /\ \E label \in {"cancelAgain", "done"} : CallMoves(a, label)
           /\ UNCHANGED payments \/ Void(a)
           /\ alerts' = alerts \/ alerts' = alerts \cup {c}
           /\ Counted
           /\ UNCHANGED <<storeVars, outbox, kafkaVars, worker, rsVars, duplicated>>
<1>1. call[a].pc \in {"void", "voidAgain"} /\ call[a] # Idle
  BY DEF VoidPayment, Idle
<1>2. PICK label \in {"cancelAgain", "done"} : CallGoto(a, label)
  BY <1>1 DEF VoidPayment
<1>3. CallMoves(a, label)
  BY <1>1, <1>2, CallGotoEffect DEF CallMoves, CallPcs
<1>4. Counted /\ duplicated' = duplicated
  BY FaultEffect DEF VoidPayment, PaymentCall, Counted, Fault, NoFault, TypeOK
<1>5. QED
  BY <1>1, <1>3, <1>4, StartedCall DEF VoidPayment, PaymentCall, Alert, NoAlert

LEMMA PublishEffect ==
    ASSUME TypeOK, NEW row \in outbox, PublishOutbox(row)
    PROVE  /\ row.topic = PaymentCapturedTopic =>
                  published' = published \cup {row} /\ toConsume' = toConsume
           /\ row.topic # PaymentCapturedTopic =>
                  toConsume' = toConsume \cup {row} /\ published' = published
           /\ published' \subseteq Notices /\ toConsume' \subseteq InboundMessages
           /\ outbox' = outbox \ {row} \/ (outbox' = outbox /\ duplicated')
           /\ Counted
           /\ UNCHANGED <<payments, storeVars, passedOver, worker, call, alerts, rsVars>>
<1>1. row \in Messages
  BY DEF TypeOK
<1>2. CASE row.topic = PaymentCapturedTopic
  <2>1. row \in Notices
    BY <1>1, <1>2, TopicsDiffer DEF Messages, PaymentCapturedTopic,
       ConsignmentPaymentAuthorisedTopic, ConsignmentConfirmationFailedTopic
  <2>2. published' = published \cup {row} /\ UNCHANGED <<toConsume, passedOver>>
    BY <1>2 DEF PublishOutbox
  <2>3. QED
    BY <1>2, <2>1, <2>2, FaultEffect DEF PublishOutbox, TypeOK, Counted
<1>3. CASE row.topic # PaymentCapturedTopic
  <2>1. row \in InboundMessages
    BY <1>1, <1>3 DEF InboundMessages
  <2>2. toConsume' = toConsume \cup {row} /\ UNCHANGED <<published, passedOver>>
    BY <1>3 DEF PublishOutbox, Produce
  <2>3. QED
    BY <1>3, <2>1, <2>2, FaultEffect DEF PublishOutbox, TypeOK, Counted
<1>4. QED
  BY <1>2, <1>3

LEMMA LapseEffect ==
    ASSUME TypeOK, NEW c \in Consignments, ReservationLapses(c)
    PROVE  /\ lapsed' \subseteq Consignments
           /\ Counted
           /\ UNCHANGED <<payments, storeVars, outbox, kafkaVars, worker, call, alerts, outcome,
                          told, duplicated>>
BY DEF TypeOK, ReservationLapses, Counted

LEMMA ExpiredEffect ==
    ASSUME TypeOK, NEW c \in Consignments, ReservationExpired(c)
    PROVE  LET m == Notice(ReservationExpiredTopic, c) IN
           /\ m \in InboundMessages
           /\ toConsume' = toConsume \cup {m}
           /\ published' = published \cup {m}
           /\ published' \subseteq Notices
           /\ Counted
           /\ UNCHANGED <<payments, storeVars, passedOver, outbox, worker, call, alerts, rsVars>>
<1> DEFINE m == Notice(ReservationExpiredTopic, c)
<1>1. m \in Notices /\ m.topic # PaymentCapturedTopic
  BY DEF Notice, Notices, ReservationExpiredTopic, PaymentCapturedTopic
<1>2. m \in InboundMessages
  BY <1>1 DEF InboundMessages, Messages
<1>3. QED
  BY <1>1, <1>2, FaultEffect DEF ReservationExpired, Produce, TypeOK, Counted

LEMMA SettledEffect ==
    ASSUME TypeOK, NEW c \in Consignments, ReservationSettled(c)
    PROVE  /\ outcome' \in [Consignments -> {"held", "confirmed", "released"}]
           /\ Counted
           /\ UNCHANGED <<payments, storeVars, outbox, kafkaVars, worker, call, alerts, lapsed,
                          told, duplicated>>
BY DEF TypeOK, ReservationSettled, RS!Confirm, RS!Release, RS!Undo, Counted

\* The reservation service tells one thing of a consignment, for good.
LEMMA AnswersEffect ==
    ASSUME TypeOK, NEW c \in Consignments, ReservationAnswers(c)
    PROVE  /\ Notice(PaymentCapturedTopic, c) \in published
           /\ \/ /\ told[c] \in {{}, {"confirmed"}} /\ told' = [told EXCEPT ![c] = {"confirmed"}]
                 /\ toConsume' = toConsume \cup {Notice(ReservationConfirmedTopic, c)}
              \/ /\ told[c] \in {{}, {"failed"}} /\ told' = [told EXCEPT ![c] = {"failed"}]
                 /\ toConsume' = toConsume \cup {Failed(c, NoID, TRUE)}
           /\ toConsume' \subseteq InboundMessages
           /\ told' \in [Consignments -> {{}, {"confirmed"}, {"failed"}}]
           /\ Counted
           /\ UNCHANGED <<payments, storeVars, outbox, published, passedOver, worker, call, alerts,
                          lapsed, outcome>>
<1>1. Notice(ReservationConfirmedTopic, c) \in InboundMessages
  BY DEF Notice, Notices, Messages, InboundMessages, ReservationConfirmedTopic, PaymentCapturedTopic
<1>2. Failed(c, NoID, TRUE) \in InboundMessages
  BY DEF Failed, FailedMessages, Messages, InboundMessages, ConsignmentConfirmationFailedTopic,
         PaymentCapturedTopic
<1>3. told[c] \in {{}, {"confirmed"}, {"failed"}}
  BY DEF TypeOK
<1>4. Counted
  BY FaultEffect DEF ReservationAnswers, Counted
<1>5. CASE RS!TellConfirmed(c) /\ Produce(Notice(ReservationConfirmedTopic, c))
  <2>1. told[c] \in {{}, {"confirmed"}}
    BY <1>3, <1>5 DEF RS!TellConfirmed
  <2>2. QED
    BY <1>1, <1>4, <1>5, <2>1 DEF ReservationAnswers, RS!TellConfirmed, Produce, TypeOK
<1>6. CASE RS!TellFailed(c) /\ Produce(Failed(c, NoID, TRUE))
  <2>1. told[c] \in {{}, {"failed"}}
    BY <1>3, <1>6 DEF RS!TellFailed
  <2>2. QED
    BY <1>2, <1>4, <1>6, <2>1 DEF ReservationAnswers, RS!TellFailed, Produce, TypeOK
<1>7. QED
  BY <1>5, <1>6 DEF ReservationAnswers

LEMMA ReceiveEffect ==
    ASSUME TypeOK, NEW w \in Workers, NEW m \in toConsume, Receive(w, m)
    PROVE  /\ m \in InboundMessages
           /\ worker[w] = Idle
           /\ worker'[w] = [pc |-> FirstStep(m), msg |-> m, captured |-> AlreadyCaptured(m)]
           /\ worker'[w] \in Busy
           /\ FirstStep(m) \in WorkerPcs
           /\ m.topic = ConsignmentPaymentAuthorisedTopic =>
                  FirstStep(m) = IF AlreadyCaptured(m) THEN "tx" ELSE "capture"
           /\ m.topic = ConsignmentConfirmationFailedTopic => FirstStep(m) = "undo"
           /\ m.topic = ReservationExpiredTopic => FirstStep(m) = "read"
           /\ m.topic = ReservationConfirmedTopic => FirstStep(m) = "confirm"
           /\ \A v \in Workers \ {w} : worker'[v] = worker[v]
           /\ worker' \in [Workers -> {Idle} \cup Busy]
           /\ toConsume' = toConsume \ {m}
           /\ Counted
           /\ UNCHANGED <<payments, storeVars, outbox, published, passedOver, call, alerts, rsVars,
                          duplicated>>
<1> DEFINE b == [pc |-> FirstStep(m), msg |-> m, captured |-> AlreadyCaptured(m)]
<1>1. m \in InboundMessages
  BY DEF TypeOK
<1>2. m.topic \in {ConsignmentPaymentAuthorisedTopic, ConsignmentConfirmationFailedTopic,
                   ReservationExpiredTopic, ReservationConfirmedTopic}
  BY <1>1 DEF InboundMessages, Messages, AuthorisedMessages, FailedMessages, Notices
<1>3. AlreadyCaptured(m) \in BOOLEAN
  BY DEF AlreadyCaptured
<1>4. /\ m.topic = ConsignmentPaymentAuthorisedTopic =>
             FirstStep(m) = IF AlreadyCaptured(m) THEN "tx" ELSE "capture"
      /\ m.topic = ConsignmentConfirmationFailedTopic => FirstStep(m) = "undo"
      /\ m.topic = ReservationExpiredTopic => FirstStep(m) = "read"
      /\ m.topic = ReservationConfirmedTopic => FirstStep(m) = "confirm"
  BY DEF FirstStep, ConsignmentPaymentAuthorisedTopic, ConsignmentConfirmationFailedTopic,
         ReservationExpiredTopic, ReservationConfirmedTopic
<1>5. FirstStep(m) \in WorkerPcs
  BY <1>2, <1>3, <1>4 DEF WorkerPcs
<1>6. b \in Busy
  BY <1>1, <1>3, <1>5 DEF Busy
<1>7. worker \in [Workers -> {Idle} \cup Busy]
  BY DEF TypeOK, Busy
<1>8. worker' = [worker EXCEPT ![w] = b]
  BY DEF Receive
<1>9. /\ worker'[w] = b
      /\ \A v \in Workers \ {w} : worker'[v] = worker[v]
      /\ worker' \in [Workers -> {Idle} \cup Busy]
  BY <1>6, <1>7, <1>8
<1>10. QED
  BY <1>1, <1>2, <1>4, <1>5, <1>6, <1>9 DEF Receive, TypeOK, Counted

LEMMA CaptureEffect ==
    ASSUME TypeOK, NEW w \in Workers, CapturePayment(w)
    PROVE  LET m == Msg(w)
               paid == CanCapture(m.auth) /\ Capture(m.auth, m.consignment) IN
           /\ worker[w].pc = "capture"
           /\ \/ paid \/ UNCHANGED payments
           /\ \/ /\ worker'[w] = [pc |-> "tx", msg |-> m, captured |-> TRUE]
                 /\ paid
              \/ worker'[w] = [pc |-> "retry", msg |-> m, captured |-> worker[w].captured]
           /\ worker'[w] \in Busy
           /\ \A v \in Workers \ {w} : worker'[v] = worker[v]
           /\ worker' \in [Workers -> {Idle} \cup Busy]
           /\ Counted
           /\ UNCHANGED <<storeVars, outbox, kafkaVars, call, alerts, rsVars, duplicated>>
<1> DEFINE m == Msg(w)
<1> DEFINE paid == CanCapture(m.auth) /\ Capture(m.auth, m.consignment)
<1>1. worker[w].pc = "capture" /\ worker[w] # Idle
  BY DEF CapturePayment, Idle
<1>2. worker[w] \in Busy
  BY <1>1, BusyWorker
<1>3. \/ paid /\ worker' = [worker EXCEPT ![w].pc = "tx", ![w].captured = TRUE]
      \/ Goto(w, "retry") /\ (paid \/ UNCHANGED payments)
  BY DEF CapturePayment, PaymentCall
<1>4. CASE paid /\ worker' = [worker EXCEPT ![w].pc = "tx", ![w].captured = TRUE]
  <2> DEFINE b == [pc |-> "tx", msg |-> m, captured |-> TRUE]
  <2>0. worker \in [Workers -> {Idle} \cup Busy]
    BY DEF TypeOK, Busy
  <2> DEFINE first == [worker EXCEPT ![w].pc = "tx"]
  <2>1. worker' = [first EXCEPT ![w].captured = TRUE]
    BY <1>4
  <2>2. first[w] = [pc |-> "tx", msg |-> m, captured |-> worker[w].captured]
    BY <1>2, <2>0 DEF Busy, Msg
  <2>3. b \in Busy
    BY <1>1, BusyWorker DEF Busy, WorkerPcs
  <2>5. worker'[w] = b /\ worker' \in [Workers -> {Idle} \cup Busy]
        /\ \A v \in Workers \ {w} : worker'[v] = worker[v]
    BY <2>1, <2>2, <2>3, <2>0
  <2>6. Counted /\ duplicated' = duplicated
    BY FaultEffect DEF CapturePayment, PaymentCall, Counted, Fault, NoFault, TypeOK
  <2>7. QED
    BY <1>1, <1>4, <2>3, <2>5, <2>6 DEF CapturePayment
<1>5. CASE Goto(w, "retry") /\ (paid \/ UNCHANGED payments)
  <2>1. "retry" \in WorkerPcs
    BY DEF WorkerPcs
  <2>2. Counted /\ duplicated' = duplicated
    BY FaultEffect DEF CapturePayment, PaymentCall, Counted, Fault, NoFault, TypeOK
  <2>3. QED
    BY <1>1, <1>5, <2>1, <2>2, GotoEffect DEF CapturePayment
<1>6. QED
  BY <1>3, <1>4, <1>5

LEMMA RecordEffect ==
    ASSUME TypeOK, NEW w \in Workers, RecordPayment(w)
    PROVE  LET c == Msg(w).consignment
               written == /\ outbox' = outbox \cup {Notice(PaymentCapturedTopic, c)}
                          /\ status' = [status EXCEPT ![c] = "confirmation_pending"]
                          /\ paymentID' = [paymentID EXCEPT ![c] = TRUE]
               skipped == UNCHANGED <<outbox, status, paymentID>> IN
           /\ worker[w].pc = "tx"
           /\ \/ Moves(w, "commit") /\ written
              \/ Moves(w, "retry") /\ skipped
              \/ Moves(w, "retry") /\ written /\ duplicated'
           /\ Counted
           /\ UNCHANGED <<payments, kafkaVars, call, alerts, rsVars>>
<1>1. worker[w].pc = "tx" /\ worker[w] # Idle
  BY DEF RecordPayment, Idle
<1>2. /\ Goto(w, "commit") => Moves(w, "commit")
      /\ Goto(w, "retry") => Moves(w, "retry")
  BY <1>1, GotoEffect DEF Moves, WorkerPcs
<1>3. Counted /\ (Fault("mongoReplyLost") => duplicated')
  BY FaultEffect DEF RecordPayment, MongoWrite, Counted
<1>4. QED
  BY <1>1, <1>2, <1>3 DEF RecordPayment, MongoWrite, CreateEvent, storeVars

LEMMA RetryEffect ==
    ASSUME NEW m \in AuthorisedMessages, NEW captured \in BOOLEAN
    PROVE  /\ Retry(m, captured) \in InboundMessages
           /\ Retry(m, captured).topic \in {ConsignmentPaymentAuthorisedTopic,
                                            ConsignmentConfirmationFailedTopic}
           /\ Retry(m, captured).consignment = m.consignment
           /\ Retry(m, captured).auth = m.auth
           /\ Retry(m, captured).captured = captured
           /\ m.auth \in Auths
<1>1. m.consignment \in Consignments /\ m.auth \in Auths /\ m.retryCount \in 0..MaxRetries
  BY DEF AuthorisedMessages
<1>2. CASE m.retryCount + 1 > MaxRetries
  <2>1. Retry(m, captured) = Failed(m.consignment, m.auth, captured)
    BY <1>2 DEF Retry
  <2>2. QED
    BY <1>1, <2>1 DEF Failed, FailedMessages, Messages, InboundMessages,
       ConsignmentConfirmationFailedTopic, PaymentCapturedTopic
<1>3. CASE ~ (m.retryCount + 1 > MaxRetries)
  <2>1. Retry(m, captured) = Authorised(m.consignment, m.auth, captured, m.retryCount + 1)
    BY <1>3 DEF Retry
  <2>2. m.retryCount + 1 \in 0..MaxRetries
    BY <1>1, <1>3
  <2>3. QED
    BY <1>1, <2>1, <2>2 DEF Authorised, AuthorisedMessages, Messages, InboundMessages,
       ConsignmentPaymentAuthorisedTopic, PaymentCapturedTopic
<1>4. QED
  BY <1>2, <1>3

LEMMA ScheduleEffect ==
    ASSUME TypeOK, NEW w \in Workers, ScheduleRetry(w)
    PROVE  LET m == Retry(Msg(w), worker[w].captured) IN
           /\ worker[w].pc = "retry"
           /\ \/ /\ Moves(w, "commit")
                 /\ outbox' = outbox \cup {m}
                 /\ UNCHANGED <<toConsume, passedOver>>
              \/ /\ Rests(w)
                 /\ ReturnsOrPassesOver(w)
                 /\ Msg(w) \in toConsume' \/ Msg(w).consignment \in passedOver'
                 /\ outbox' = outbox \/ (outbox' = outbox \cup {m} /\ duplicated')
           /\ Counted
           /\ UNCHANGED <<payments, storeVars, published, call, alerts, rsVars>>
<1>1. worker[w].pc = "retry" /\ worker[w] # Idle
  BY DEF ScheduleRetry, Idle
<1>2. Goto(w, "commit") => Moves(w, "commit")
  BY <1>1, GotoEffect DEF Moves, WorkerPcs
<1>3. Counted /\ (Fault("mongoReplyLost") => duplicated')
  BY FaultEffect DEF ScheduleRetry, MongoWrite, Counted
<1>4. HandlerError(w) => /\ Rests(w)
                         /\ ReturnsOrPassesOver(w)
                         /\ Msg(w) \in toConsume' \/ Msg(w).consignment \in passedOver'
  BY <1>1, HandlerErrorEffect DEF Rests, ReturnsOrPassesOver
<1>5. QED
  BY <1>1, <1>2, <1>3, <1>4 DEF ScheduleRetry, MongoWrite, CreateEvent, GotoCommit

\* What the loop undoes: the authorisation of its message, or the payment of
\* its consignment.
Voids(m) == m.topic = ConsignmentConfirmationFailedTopic /\ ~ m.captured

LEMMA UndoEffect ==
    ASSUME TypeOK, NEW w \in Workers, UndoPayment(w)
    PROVE  LET m == Msg(w) IN
           /\ worker[w].pc = "undo"
           /\ Moves(w, "cancel")
           /\ \/ Voids(m) /\ CanVoid(m.auth) /\ Void(m.auth)
              \/ ~ Voids(m) /\ CanRefund(m.consignment) /\ Refund(m.consignment)
              \/ UNCHANGED payments /\ alerts' = alerts \cup {m.consignment}
           /\ alerts' = alerts \/ alerts' = alerts \cup {m.consignment}
           /\ Counted
           /\ UNCHANGED <<storeVars, outbox, kafkaVars, call, rsVars, duplicated>>
<1>1. worker[w].pc = "undo" /\ worker[w] # Idle
  BY DEF UndoPayment, Idle
<1>2. Moves(w, "cancel")
  BY <1>1, GotoEffect DEF UndoPayment, Moves, WorkerPcs
<1>3. Counted /\ duplicated' = duplicated
  BY FaultEffect DEF UndoPayment, PaymentCall, Counted, Fault, NoFault, TypeOK
<1>4. QED
  BY <1>1, <1>2, <1>3 DEF UndoPayment, PaymentCall, Voids, Alert, NoAlert

LEMMA ReadEffect ==
    ASSUME TypeOK, NEW w \in Workers, ReadConsignment(w)
    PROVE  LET c == Msg(w).consignment IN
           /\ worker[w].pc = "read"
           /\ \/ /\ \/ Moves(w, "commit")
                    \/ Moves(w, "cancel")
                    \/ Moves(w, "undo") /\ status[c] = "pending" /\ paymentID[c]
                 /\ UNCHANGED <<toConsume, passedOver>>
              \/ Rests(w) /\ ReturnsOrPassesOver(w)
           /\ Counted
           /\ UNCHANGED <<payments, storeVars, outbox, published, call, alerts, rsVars, duplicated>>
<1>1. worker[w].pc = "read" /\ worker[w] # Idle
  BY DEF ReadConsignment, Idle
<1>2. \A label \in WorkerPcs : Goto(w, label) => Moves(w, label)
  BY <1>1, GotoEffect DEF Moves
<1>3. Counted /\ duplicated' = duplicated
  BY FaultEffect DEF ReadConsignment, Counted, Fault, NoFault, TypeOK
<1>4. HandlerError(w) => Rests(w) /\ ReturnsOrPassesOver(w)
  BY <1>1, HandlerErrorEffect DEF Rests, ReturnsOrPassesOver
<1>5. {"commit", "cancel", "undo"} \subseteq WorkerPcs
  BY DEF WorkerPcs
<1>6. QED
  BY <1>1, <1>2, <1>3, <1>4, <1>5 DEF ReadConsignment

LEMMA SetStatusEffect ==
    ASSUME TypeOK, NEW w \in Workers, NEW label \in {"cancel", "confirm"},
           NEW s \in {"cancelled", "confirmed"}, SetStatusTo(w, label, s)
    PROVE  LET c == Msg(w).consignment IN
           /\ worker[w].pc = label
           /\ status' = [status EXCEPT ![c] = s] \/ status' = status
           /\ \/ Moves(w, "commit") /\ UNCHANGED <<toConsume, passedOver>>
              \/ Rests(w) /\ ReturnsOrPassesOver(w)
           /\ \/ status' = [status EXCEPT ![c] = s]
              \/ Rests(w) /\ (Msg(w) \in toConsume' \/ c \in passedOver')
           /\ Counted
           /\ UNCHANGED <<payments, paymentID, outbox, published, call, alerts, rsVars>>
<1>1. worker[w].pc = label /\ worker[w] # Idle
  BY DEF SetStatusTo, Idle
<1>2. Goto(w, "commit") => Moves(w, "commit")
  BY <1>1, GotoEffect DEF Moves, WorkerPcs
<1>3. Counted
  BY FaultEffect DEF SetStatusTo, MongoWrite, Counted
<1>4. HandlerError(w) => /\ Rests(w)
                         /\ ReturnsOrPassesOver(w)
                         /\ Msg(w) \in toConsume' \/ Msg(w).consignment \in passedOver'
  BY <1>1, HandlerErrorEffect DEF Rests, ReturnsOrPassesOver
<1>5. QED
  BY <1>1, <1>2, <1>3, <1>4 DEF SetStatusTo, MongoWrite, UpdateStatus, GotoCommit, storeVars

LEMMA CommitEffect ==
    ASSUME TypeOK, NEW w \in Workers, CommitMessage(w)
    PROVE  /\ worker[w].pc = "commit"
           /\ Rests(w)
           /\ \/ UNCHANGED <<toConsume, passedOver>>
              \/ ReturnsOrPassesOver(w) /\ duplicated'
           /\ Counted
           /\ UNCHANGED <<payments, storeVars, outbox, published, call, alerts, rsVars>>
<1>1. worker[w].pc = "commit" /\ worker[w] # Idle
  BY DEF CommitMessage, Idle
<1>2. Rests(w)
  BY DEF CommitMessage, Rests, TypeOK, Busy
<1>3. Msg(w) \in InboundMessages
  BY <1>1, BusyWorker
<1>4. CASE UNCHANGED <<toConsume, passedOver>> /\ NoFault
  BY <1>1, <1>2, <1>4, FaultEffect DEF CommitMessage, Counted
<1>5. CASE Produce(Msg(w)) /\ Fault("redelivery")
  <2>1. ReturnsOrPassesOver(w)
    BY <1>3, <1>5 DEF Produce, ReturnsOrPassesOver, TypeOK
  <2>2. QED
    BY <1>1, <1>2, <1>5, <2>1, FaultEffect DEF CommitMessage, Counted
<1>6. QED
  BY <1>4, <1>5 DEF CommitMessage

LEMMA CrashEffect ==
    ASSUME TypeOK, NEW w \in Workers, Crash(w)
    PROVE  /\ worker[w] # Idle
           /\ Rests(w)
           /\ ReturnsOrPassesOver(w)
           /\ Msg(w) \in toConsume'
           /\ duplicated'
           /\ Counted
           /\ UNCHANGED <<payments, storeVars, outbox, published, call, alerts, rsVars>>
<1>1. worker[w] # Idle /\ HandlerError(w) /\ Produce(Msg(w))
  BY DEF Crash, HandlerError, Redelivered
<1>2. Rests(w) /\ ReturnsOrPassesOver(w)
  BY <1>1, HandlerErrorEffect DEF Rests, ReturnsOrPassesOver
<1>3. Counted /\ duplicated'
  BY FaultEffect DEF Crash, Counted
<1>4. QED
  BY <1>1, <1>2, <1>3 DEF Crash, Produce

(* The steps, by who takes them. *)
LEMMA StepCases ==
    ASSUME [Next]_vars
    PROVE  \/ \E c \in Consignments :
                  CreateConsignment(c) \/ ReservationLapses(c) \/ ReservationExpired(c)
                  \/ ReservationSettled(c) \/ ReservationAnswers(c)
           \/ \E a \in Auths :
                  \/ \E c \in Consignments : ConfirmConsignment(a, c)
                  \/ AuthorisePayment(a) \/ PublishPaymentAuthorised(a)
                  \/ CancelConsignment(a) \/ VoidPayment(a)
           \/ \E row \in outbox : PublishOutbox(row)
           \/ \E w \in Workers :
                  \/ \E m \in toConsume : Receive(w, m)
                  \/ CapturePayment(w) \/ RecordPayment(w) \/ ScheduleRetry(w) \/ UndoPayment(w)
                  \/ ReadConsignment(w) \/ Cancel(w) \/ Confirm(w) \/ CommitMessage(w) \/ Crash(w)
           \/ UNCHANGED vars
BY DEF Next, Reservation, CallStep, WorkerStep

SagaTopics == {ConsignmentPaymentAuthorisedTopic, ConsignmentConfirmationFailedTopic}

\* Loop w is where the handler of its message may be.
PcFits(w) ==
    /\ worker[w].pc \in {"capture", "tx", "retry"} =>
           Msg(w).topic = ConsignmentPaymentAuthorisedTopic
    /\ worker[w].pc \in {"undo", "cancel"} =>
           Msg(w).topic # ConsignmentPaymentAuthorisedTopic
    /\ worker[w].pc \in {"read", "confirm"} => Msg(w).topic \notin SagaTopics
    /\ worker[w].pc = "confirm" => Msg(w).topic = ReservationConfirmedTopic

PcsFit == \A w \in Workers : PcFits(w)

(* A loop that has not moved, has come to rest, or has moved within a handler. *)
LEMMA FitsKept ==
    ASSUME NEW w \in Workers, PcFits(w), worker'[w] = worker[w]
    PROVE  PcFits(w)'
BY DEF PcFits, Msg

LEMMA FitsMoves ==
    ASSUME PcsFit, NEW w \in Workers, NEW label, Moves(w, label),
           \/ label = "commit"
           \/ /\ label = "retry"
              /\ Msg(w).topic = ConsignmentPaymentAuthorisedTopic
           \/ /\ label \in {"undo", "cancel"}
              /\ Msg(w).topic # ConsignmentPaymentAuthorisedTopic
    PROVE  PcsFit'
<1>1. PcFits(w)'
  BY DEF Moves, PcFits, Msg
<1>2. \A v \in Workers \ {w} : PcFits(v)'
  BY FitsKept DEF Moves, PcsFit
<1>3. QED
  BY <1>1, <1>2 DEF PcsFit

LEMMA FitsRests ==
    ASSUME PcsFit, NEW w \in Workers, Rests(w)
    PROVE  PcsFit'
<1>1. PcFits(w)'
  BY DEF Rests, PcFits, Idle
<1>2. \A v \in Workers \ {w} : PcFits(v)'
  BY FitsKept DEF Rests, PcsFit
<1>3. QED
  BY <1>1, <1>2 DEF PcsFit

LEMMA FitsStep ==
    ASSUME TypeOK, PcsFit, [Next]_vars
    PROVE  PcsFit'
<1>1. CASE UNCHANGED worker
  BY <1>1, FitsKept DEF PcsFit
<1>2. ASSUME NEW w \in Workers, NEW m \in toConsume, Receive(w, m)
      PROVE  PcsFit'
  <2>1. m.topic \in SagaTopics \cup {ReservationExpiredTopic, ReservationConfirmedTopic}
    BY <1>2, ReceiveEffect
       DEF InboundMessages, Messages, AuthorisedMessages, FailedMessages, Notices, SagaTopics
  <2>2. PcFits(w)'
    <3>0. worker'[w] = [pc |-> FirstStep(m), msg |-> m, captured |-> AlreadyCaptured(m)]
      BY <1>2, ReceiveEffect
    <3>1. worker'[w].pc = FirstStep(m) /\ Msg(w)' = m
      BY <3>0 DEF Msg
    <3>2. CASE m.topic = ConsignmentPaymentAuthorisedTopic
      BY <1>2, <3>1, <3>2, ReceiveEffect DEF PcFits
    <3>3. CASE m.topic = ConsignmentConfirmationFailedTopic
      BY <1>2, <3>1, <3>3, ReceiveEffect, TopicsDiffer DEF PcFits
    <3>4. CASE m.topic \in {ReservationExpiredTopic, ReservationConfirmedTopic}
      <4>1. m.topic \notin SagaTopics
        BY <3>4 DEF SagaTopics, ConsignmentPaymentAuthorisedTopic,
           ConsignmentConfirmationFailedTopic, ReservationExpiredTopic, ReservationConfirmedTopic
      <4>2. /\ worker'[w].pc \in {"read", "confirm"}
            /\ worker'[w].pc = "confirm" => m.topic = ReservationConfirmedTopic
        BY <1>2, <3>1, <3>4, ReceiveEffect
      <4>3. QED
        BY <3>1, <4>1, <4>2 DEF PcFits
    <3>5. QED
      BY <2>1, <3>2, <3>3, <3>4 DEF SagaTopics
  <2>3. \A v \in Workers \ {w} : PcFits(v)'
    BY <1>2, FitsKept, ReceiveEffect DEF PcsFit
  <2>4. QED
    BY <2>2, <2>3 DEF PcsFit
<1>3. ASSUME NEW w \in Workers, CapturePayment(w)
      PROVE  PcsFit'
  <2>1. PcFits(w)'
    <3>0. PICK label \in {"tx", "retry"}, captured \in {TRUE, worker[w].captured} :
              worker'[w] = [pc |-> label, msg |-> Msg(w), captured |-> captured]
      BY <1>3, CaptureEffect
    <3>1. worker'[w].pc \in {"tx", "retry"} /\ Msg(w)' = Msg(w)
      BY <3>0 DEF Msg
    <3>2. Msg(w).topic = ConsignmentPaymentAuthorisedTopic
      BY <1>3, CaptureEffect DEF PcsFit, PcFits
    <3>3. QED
      BY <3>1, <3>2 DEF PcFits
  <2>2. \A v \in Workers \ {w} : PcFits(v)'
    BY <1>3, FitsKept, CaptureEffect DEF PcsFit
  <2>3. QED
    BY <2>1, <2>2 DEF PcsFit
<1>4. ASSUME NEW w \in Workers, RecordPayment(w)
      PROVE  PcsFit'
  BY <1>4, FitsMoves, RecordEffect DEF PcsFit, PcFits
<1>5. ASSUME NEW w \in Workers, ScheduleRetry(w)
      PROVE  PcsFit'
  BY <1>5, FitsMoves, FitsRests, ScheduleEffect
<1>6. ASSUME NEW w \in Workers, UndoPayment(w)
      PROVE  PcsFit'
  BY <1>6, FitsMoves, UndoEffect DEF PcsFit, PcFits
<1>7. ASSUME NEW w \in Workers, ReadConsignment(w)
      PROVE  PcsFit'
  BY <1>7, FitsMoves, FitsRests, ReadEffect DEF PcsFit, PcFits, SagaTopics
<1>8. ASSUME NEW w \in Workers, Cancel(w) \/ Confirm(w)
      PROVE  PcsFit'
  BY <1>8, FitsMoves, FitsRests, SetStatusEffect DEF Cancel, Confirm
<1>9. ASSUME NEW w \in Workers, CommitMessage(w) \/ Crash(w)
      PROVE  PcsFit'
  BY <1>9, FitsRests, CommitEffect, CrashEffect
<1>10. ASSUME NEW a \in Auths,
              \/ \E c \in Consignments : ConfirmConsignment(a, c)
              \/ AuthorisePayment(a) \/ PublishPaymentAuthorised(a)
              \/ CancelConsignment(a) \/ VoidPayment(a)
       PROVE  UNCHANGED worker
  BY <1>10, ConfirmEffect, AuthoriseEffect, PublishAuthorisedEffect, CancelEffect, VoidEffect
<1>11. ASSUME NEW c \in Consignments,
              CreateConsignment(c) \/ ReservationLapses(c) \/ ReservationExpired(c)
              \/ ReservationSettled(c) \/ ReservationAnswers(c)
       PROVE  UNCHANGED worker
  BY <1>11, CreateEffect, LapseEffect, ExpiredEffect, SettledEffect, AnswersEffect
<1>12. ASSUME NEW row \in outbox, PublishOutbox(row)
       PROVE  UNCHANGED worker
  BY <1>12, PublishEffect
<1>13. UNCHANGED vars => UNCHANGED worker
  BY DEF vars
<1>14. QED
  BY <1>1, <1>2, <1>3, <1>4, <1>5, <1>6, <1>7, <1>8, <1>9, <1>10, <1>11, <1>12, <1>13, StepCases

LEMMA TypeStep ==
    ASSUME TypeOK, PcsFit, [Next]_vars
    PROVE  TypeOK'
<1> USE DEF storeVars, kafkaVars, rsVars
<1>0. /\ worker \in [Workers -> {Idle} \cup Busy] /\ call \in [Auths -> {Idle} \cup Started]
      /\ PaymentsOK
  BY DEF TypeOK, Busy, Started
<1> DEFINE Typed ==
        /\ PaymentsOK'
        /\ status' \in [Consignments -> {"none"} \cup Statuses]
        /\ paymentID' \in [Consignments -> BOOLEAN]
        /\ outbox' \subseteq Messages
        /\ published' \subseteq Notices
        /\ toConsume' \subseteq InboundMessages
        /\ passedOver' \subseteq Consignments
        /\ worker' \in [Workers -> {Idle} \cup Busy]
        /\ call' \in [Auths -> {Idle} \cup Started]
        /\ alerts' \subseteq Consignments
        /\ lapsed' \subseteq Consignments
        /\ outcome' \in [Consignments -> {"held", "confirmed", "released"}]
        /\ told' \in [Consignments -> {{}, {"confirmed"}, {"failed"}}]
        /\ Counted
<1>1. SUFFICES Typed
  BY DEF TypeOK, PaymentsOK, Busy, Started, Counted
<1>2. UNCHANGED payments => PaymentsOK'
  BY <1>0 DEF PaymentsOK
<1>3. ASSUME NEW c \in Consignments, CreateConsignment(c)
      PROVE  Typed
  BY <1>0, <1>2, <1>3, CreateEffect DEF TypeOK, Statuses
<1>4. ASSUME NEW c \in Consignments,
             ReservationLapses(c) \/ ReservationExpired(c) \/ ReservationSettled(c)
             \/ ReservationAnswers(c)
      PROVE  Typed
  BY <1>0, <1>2, <1>4, LapseEffect, ExpiredEffect, SettledEffect, AnswersEffect DEF TypeOK
<1>5. ASSUME NEW a \in Auths, NEW c \in Consignments, ConfirmConsignment(a, c)
      PROVE  Typed
  BY <1>0, <1>2, <1>5, ConfirmEffect DEF TypeOK
<1>6. ASSUME NEW a \in Auths, AuthorisePayment(a)
      PROVE  Typed
  <2>1. call[a].consignment \in Consignments
    BY <1>6, StartedCall, AuthoriseEffect
  <2>2. PaymentsOK'
    BY <1>6, <2>1, AuthoriseEffect, PaymentEffect
  <2>3. QED
    BY <1>0, <1>6, <2>2, AuthoriseEffect DEF TypeOK, CallMoves
<1>7. ASSUME NEW a \in Auths, PublishPaymentAuthorised(a)
      PROVE  Typed
  <2>1. outbox' \subseteq Messages
    BY <1>7, PublishAuthorisedEffect DEF TypeOK, Messages
  <2>2. QED
    BY <1>0, <1>2, <1>7, <2>1, PublishAuthorisedEffect DEF TypeOK, CallMoves
<1>8. ASSUME NEW a \in Auths, CancelConsignment(a)
      PROVE  Typed
  <2>1. call' \in [Auths -> {Idle} \cup Started]
    BY <1>8, CancelEffect DEF CallMoves
  <2>2. status' \in [Consignments -> {"none"} \cup Statuses]
    BY <1>8, CancelEffect DEF TypeOK, Statuses
  <2>3. alerts' \subseteq Consignments
    BY <1>8, CancelEffect DEF TypeOK
  <2>4. Counted /\ UNCHANGED <<payments, paymentID, outbox, kafkaVars, worker, rsVars>>
    BY <1>8, CancelEffect
  <2>5. QED
    BY <1>0, <1>2, <2>1, <2>2, <2>3, <2>4 DEF TypeOK
<1>9. ASSUME NEW a \in Auths, VoidPayment(a)
      PROVE  Typed
  <2>1. PaymentsOK'
    BY <1>9, VoidEffect, PaymentEffect
  <2>2. QED
    BY <1>0, <1>9, <2>1, VoidEffect DEF TypeOK, CallMoves
<1>10. ASSUME NEW row \in outbox, PublishOutbox(row)
       PROVE  Typed
  BY <1>0, <1>2, <1>10, PublishEffect DEF TypeOK
<1>11. ASSUME NEW w \in Workers, NEW m \in toConsume, Receive(w, m)
       PROVE  Typed
  BY <1>0, <1>2, <1>11, ReceiveEffect DEF TypeOK
<1>12. ASSUME NEW w \in Workers, CapturePayment(w)
       PROVE  Typed
  <2>1. worker[w].pc = "capture" /\ Msg(w).consignment \in Consignments
    BY <1>12, CaptureEffect, BusyWorker
  <2>2. PaymentsOK'
    <3>1. CASE UNCHANGED payments
      BY <1>2, <3>1
    <3>2. CASE CanCapture(Msg(w).auth) /\ Capture(Msg(w).auth, Msg(w).consignment)
      <4> DEFINE p == [status |-> "captured", captureID |-> Msg(w).consignment]
      <4>1. p \in [status : PaymentStatuses, captureID : PaymentIDs \cup {NoID}]
        BY <2>1 DEF PaymentStatuses
      <4>2. payments' = payments \/ payments' = [payments EXCEPT ![Msg(w).auth] = p]
        BY <3>2 DEF Capture
      <4>3. QED
        BY <1>0, <4>1, <4>2 DEF PaymentsOK
    <3>3. QED
      BY <1>12, <3>1, <3>2, CaptureEffect
  <2>3. QED
    BY <1>0, <1>12, <2>2, CaptureEffect DEF TypeOK
<1>13. ASSUME NEW w \in Workers, RecordPayment(w)
       PROVE  Typed
  <2>1. Msg(w).consignment \in Consignments
    BY <1>13, RecordEffect, BusyWorker
  <2>2. Notice(PaymentCapturedTopic, Msg(w).consignment) \in Messages
    BY <2>1 DEF Notice, Notices, Messages
  <2>3. /\ status' \in [Consignments -> {"none"} \cup Statuses]
        /\ paymentID' \in [Consignments -> BOOLEAN]
    BY <1>13, <2>1, RecordEffect DEF TypeOK, Statuses
  <2>4. worker' \in [Workers -> {Idle} \cup Busy] /\ outbox' \subseteq Messages
    <3>1. worker' \in [Workers -> {Idle} \cup Busy]
      BY <1>13, RecordEffect DEF Moves
    <3>2. outbox' = outbox \/ outbox' = outbox \cup {Notice(PaymentCapturedTopic, Msg(w).consignment)}
      BY <1>13, RecordEffect
    <3>3. QED
      BY <2>2, <3>1, <3>2 DEF TypeOK
  <2>5. QED
    BY <1>0, <1>2, <1>13, <2>3, <2>4, RecordEffect DEF TypeOK
<1>14. ASSUME NEW w \in Workers, ScheduleRetry(w)
       PROVE  Typed
  <2>1. Msg(w) \in AuthorisedMessages /\ worker[w].captured \in BOOLEAN
    BY <1>14, ScheduleEffect, BusyWorker, TopicsDiffer DEF PcsFit, PcFits
  <2>2. outbox' \subseteq Messages
    BY <1>14, <2>1, ScheduleEffect, RetryEffect DEF TypeOK, InboundMessages
  <2>3. QED
    BY <1>0, <1>2, <1>14, <2>2, ScheduleEffect DEF TypeOK, Moves, Rests, ReturnsOrPassesOver
<1>15. ASSUME NEW w \in Workers, UndoPayment(w)
       PROVE  Typed
  <2>1. worker[w].pc = "undo" /\ Msg(w).consignment \in Consignments
    BY <1>15, UndoEffect, BusyWorker
  <2>2. PaymentsOK'
    <3>1. CASE UNCHANGED payments
      BY <1>2, <3>1
    <3>2. CASE Refund(Msg(w).consignment)
      <4>1. PICK b \in Auths : SetStatus(b, "refunded")
        BY <3>2 DEF Refund, Anchored
      <4>2. QED
        BY <1>0, <4>1, PaymentKept DEF PaymentsOK, PaymentStatuses, SetStatus
    <3>3. CASE Void(Msg(w).auth)
      BY <1>0, <3>3 DEF PaymentsOK, PaymentStatuses, Void, SetStatus
    <3>4. QED
      BY <1>15, <3>1, <3>2, <3>3, UndoEffect
  <2>3. worker' \in [Workers -> {Idle} \cup Busy] /\ alerts' \subseteq Consignments
    <3>1. worker' \in [Workers -> {Idle} \cup Busy]
      BY <1>15, UndoEffect DEF Moves
    <3>2. alerts' = alerts \/ alerts' = alerts \cup {Msg(w).consignment}
      BY <1>15, UndoEffect
    <3>3. QED
      BY <2>1, <3>1, <3>2 DEF TypeOK
  <2>4. QED
    BY <1>0, <1>15, <2>2, <2>3, UndoEffect DEF TypeOK
<1>16. ASSUME NEW w \in Workers, ReadConsignment(w)
       PROVE  Typed
  BY <1>0, <1>2, <1>16, ReadEffect DEF TypeOK, Moves, Rests, ReturnsOrPassesOver
<1>17. ASSUME NEW w \in Workers, Cancel(w) \/ Confirm(w)
       PROVE  Typed
  <2>1. PICK label \in {"cancel", "confirm"}, s \in {"cancelled", "confirmed"} :
            SetStatusTo(w, label, s)
    BY <1>17 DEF Cancel, Confirm
  <2>2. Msg(w).consignment \in Consignments
    BY <2>1, SetStatusEffect, BusyWorker
  <2>3. status' \in [Consignments -> {"none"} \cup Statuses]
    BY <2>1, <2>2, SetStatusEffect DEF TypeOK, Statuses
  <2>4. /\ worker' \in [Workers -> {Idle} \cup Busy]
        /\ toConsume' \subseteq InboundMessages /\ passedOver' \subseteq Consignments
    <3>1. worker' \in [Workers -> {Idle} \cup Busy]
      BY <2>1, SetStatusEffect DEF Moves, Rests
    <3>2. \/ UNCHANGED <<toConsume, passedOver>>
          \/ ReturnsOrPassesOver(w)
      BY <2>1, SetStatusEffect
    <3>3. QED
      BY <3>1, <3>2 DEF TypeOK, ReturnsOrPassesOver
  <2>5. QED
    BY <1>0, <1>2, <2>1, <2>3, <2>4, SetStatusEffect DEF TypeOK
<1>18. ASSUME NEW w \in Workers, CommitMessage(w) \/ Crash(w)
       PROVE  Typed
  BY <1>0, <1>2, <1>18, CommitEffect, CrashEffect DEF TypeOK, Rests, ReturnsOrPassesOver
<1>19. CASE UNCHANGED vars
  BY <1>0, <1>2, <1>19 DEF TypeOK, vars, Counted
<1>20. QED
  BY <1>3, <1>4, <1>5, <1>6, <1>7, <1>8, <1>9, <1>10, <1>11, <1>12, <1>13, <1>14, <1>15, <1>16,
     <1>17, <1>18, <1>19, StepCases

LEMMA InitType ==
    ASSUME Init
    PROVE  TypeOK /\ PcsFit
<1>1. PaymentsOK
  BY DEF Init, NoPayments, PaymentsOK, PaymentStatuses
<1>2. outcome \in [Consignments -> {"held", "confirmed", "released"}]
      /\ told \in [Consignments -> {{}, {"confirmed"}, {"failed"}}]
  BY DEF Init, RS!Init
<1>3. faults \in 0..MaxFaults
  BY DEF Init
<1>4. QED
  BY <1>1, <1>2, <1>3 DEF Init, TypeOK, PcsFit, PcFits, Idle

\* Everything the service keeps, and every message, has its type: what no
\* handler and no failure of one may break (the MongoDB document, the Kafka
\* payloads and the states of the handlers of consignment-service).
THEOREM ConsignmentsTyped == Spec => []TypeOK
<1>1. TypeOK /\ PcsFit /\ [Next]_vars => (TypeOK /\ PcsFit)'
  BY TypeStep, FitsStep
<1>2. QED
  BY <1>1, InitType, PTL DEF Spec

-----------------------------------------------------------------------------
(* What the messages of a consignment say is known of its payment *)

Recorded(c) == Notice(PaymentCapturedTopic, c) \in outbox \cup published

\* A message of the saga names the authorisation the client's call has started,
\* or answers a payment.captured; that one is of a payment somebody started.
Known(m) ==
    /\ m.topic \in SagaTopics /\ m.auth # NoID => Starts(m.auth, m.consignment)
    /\ m.topic \in SagaTopics /\ m.auth = NoID =>
           m.captured /\ "failed" \in told[m.consignment]
    /\ m.topic = PaymentCapturedTopic => \E a \in Auths : Starts(a, m.consignment)
    /\ m.topic = ReservationConfirmedTopic => "confirmed" \in told[m.consignment]

MessagesKnown ==
    /\ \A m \in outbox \cup toConsume \cup published : Known(m)
    /\ \A w \in Workers : worker[w] # Idle => Known(Msg(w))

\* payment.captured leaves the outbox of one consignment with payment_id, which
\* takes it out of "pending" for good; only its answer tells the outcome.
RecordAt(c) ==
    /\ Recorded(c) => paymentID[c]
    /\ paymentID[c] => status[c] \notin {"none", "pending"}
    /\ told[c] # {} => Notice(PaymentCapturedTopic, c) \in published

RecordInv ==
    /\ \A c \in Consignments : RecordAt(c)
    /\ \A w \in Workers : worker[w].pc = "undo" =>
           Msg(w).topic = ConsignmentConfirmationFailedTopic

(* A call, once started, stays the one that started its authorisation. *)
LEMMA StartsStays ==
    ASSUME TypeOK, [Next]_vars, NEW a \in Auths, NEW c, Starts(a, c)
    PROVE  Starts(a, c)'
<1>1. CASE UNCHANGED call
  BY <1>1 DEF Starts
<1>2. ASSUME NEW b \in Auths, NEW label, CallMoves(b, label)
      PROVE  Starts(a, c)'
  BY <1>2, NoneIdle DEF Starts, CallMoves
<1>3. ASSUME NEW b \in Auths, NEW d \in Consignments, ConfirmConsignment(b, d)
      PROVE  Starts(a, c)'
  BY <1>3, ConfirmEffect DEF Starts
<1>4. ASSUME NEW b \in Auths,
             \/ AuthorisePayment(b) \/ PublishPaymentAuthorised(b)
             \/ CancelConsignment(b) \/ VoidPayment(b)
      PROVE  \E label : CallMoves(b, label)
  BY <1>4, AuthoriseEffect, PublishAuthorisedEffect, CancelEffect, VoidEffect
<1>5. ASSUME NEW d \in Consignments,
             CreateConsignment(d) \/ ReservationLapses(d) \/ ReservationExpired(d)
             \/ ReservationSettled(d) \/ ReservationAnswers(d)
      PROVE  UNCHANGED call
  BY <1>5, CreateEffect, LapseEffect, ExpiredEffect, SettledEffect, AnswersEffect
<1>6. ASSUME NEW row \in outbox, PublishOutbox(row)
      PROVE  UNCHANGED call
  BY <1>6, PublishEffect
<1>7. ASSUME NEW w \in Workers,
             \/ \E m \in toConsume : Receive(w, m)
             \/ CapturePayment(w) \/ RecordPayment(w) \/ ScheduleRetry(w) \/ UndoPayment(w)
             \/ ReadConsignment(w) \/ Cancel(w) \/ Confirm(w) \/ CommitMessage(w) \/ Crash(w)
      PROVE  UNCHANGED call
  BY <1>7 DEF Receive, CapturePayment, RecordPayment, ScheduleRetry, UndoPayment,
         ReadConsignment, Cancel, Confirm, SetStatusTo, CommitMessage, Crash
<1>8. UNCHANGED vars => UNCHANGED call
  BY DEF vars
<1>9. QED
  BY <1>1, <1>2, <1>3, <1>4, <1>5, <1>6, <1>7, <1>8, StepCases

(* What is told of a consignment is told for good. *)
LEMMA ToldChanges ==
    ASSUME TypeOK, [Next]_vars
    PROVE  \/ UNCHANGED told
           \/ \E c \in Consignments : ReservationAnswers(c)
<1>1. ASSUME NEW a \in Auths,
             \/ \E c \in Consignments : ConfirmConsignment(a, c)
             \/ AuthorisePayment(a) \/ PublishPaymentAuthorised(a)
             \/ CancelConsignment(a) \/ VoidPayment(a)
      PROVE  UNCHANGED told
  BY <1>1 DEF ConfirmConsignment, AuthorisePayment, PublishPaymentAuthorised,
         CancelConsignment, VoidPayment, rsVars
<1>2. ASSUME NEW c \in Consignments,
             CreateConsignment(c) \/ ReservationLapses(c) \/ ReservationExpired(c)
             \/ ReservationSettled(c)
      PROVE  UNCHANGED told
  BY <1>2, CreateEffect, LapseEffect, ExpiredEffect, SettledEffect DEF rsVars
<1>3. ASSUME NEW row \in outbox, PublishOutbox(row)
      PROVE  UNCHANGED told
  BY <1>3, PublishEffect DEF rsVars
<1>4. ASSUME NEW w \in Workers,
             \/ \E m \in toConsume : Receive(w, m)
             \/ CapturePayment(w) \/ RecordPayment(w) \/ ScheduleRetry(w) \/ UndoPayment(w)
             \/ ReadConsignment(w) \/ Cancel(w) \/ Confirm(w) \/ CommitMessage(w) \/ Crash(w)
      PROVE  UNCHANGED told
  BY <1>4 DEF Receive, CapturePayment, RecordPayment, ScheduleRetry, UndoPayment,
         ReadConsignment, Cancel, Confirm, SetStatusTo, CommitMessage, Crash, rsVars
<1>5. UNCHANGED vars => UNCHANGED told
  BY DEF vars, rsVars
<1>6. QED
  BY <1>1, <1>2, <1>3, <1>4, <1>5, StepCases

LEMMA ToldStays ==
    ASSUME TypeOK, [Next]_vars, NEW c \in Consignments
    PROVE  /\ "failed" \in told[c] => "failed" \in told'[c]
           /\ "confirmed" \in told[c] => "confirmed" \in told'[c]
           /\ told'[c] \in {{}, {"confirmed"}, {"failed"}}
<1>1. told[c] \in {{}, {"confirmed"}, {"failed"}}
  BY DEF TypeOK
<1>2. CASE UNCHANGED told
  BY <1>1, <1>2
<1>3. ASSUME NEW d \in Consignments, ReservationAnswers(d)
      PROVE  /\ "failed" \in told[c] => "failed" \in told'[c]
             /\ "confirmed" \in told[c] => "confirmed" \in told'[c]
             /\ told'[c] \in {{}, {"confirmed"}, {"failed"}}
  <2>1. \/ told[d] \in {{}, {"confirmed"}} /\ told' = [told EXCEPT ![d] = {"confirmed"}]
        \/ told[d] \in {{}, {"failed"}} /\ told' = [told EXCEPT ![d] = {"failed"}]
    BY <1>3, AnswersEffect
  <2>2. told \in [Consignments -> {{}, {"confirmed"}, {"failed"}}]
    BY DEF TypeOK
  <2>3. QED
    BY <1>1, <2>1, <2>2
<1>4. QED
  BY <1>2, <1>3, ToldChanges

LEMMA KnownStays ==
    ASSUME TypeOK, [Next]_vars, NEW m \in Messages, Known(m)
    PROVE  Known(m)'
<1>1. m.consignment \in Consignments
  BY TopicsDiffer
<1>2. m.topic \in SagaTopics /\ m.auth # NoID => m.auth \in Auths
  BY DEF Messages, AuthorisedMessages, FailedMessages, Notices, SagaTopics,
     ConsignmentPaymentAuthorisedTopic, ConsignmentConfirmationFailedTopic,
     ReservationExpiredTopic, ReservationConfirmedTopic, PaymentCapturedTopic
<1>3. m.topic \in SagaTopics /\ m.auth # NoID => Starts(m.auth, m.consignment)'
  BY <1>2, StartsStays DEF Known
<1>4. m.topic \in SagaTopics /\ m.auth = NoID => m.captured /\ "failed" \in told'[m.consignment]
  BY <1>1, ToldStays DEF Known
<1>5. m.topic = PaymentCapturedTopic => \E a \in Auths : Starts(a, m.consignment)'
  BY StartsStays DEF Known
<1>6. m.topic = ReservationConfirmedTopic => "confirmed" \in told'[m.consignment]
  BY <1>1, ToldStays DEF Known
<1>7. QED
  BY <1>3, <1>4, <1>5, <1>6 DEF Known

(* What the messages a step makes say is known. *)
LEMMA KnownNotices ==
    ASSUME NEW c \in Consignments
    PROVE  /\ Known(Notice(ReservationExpiredTopic, c))
           /\ Known(Notice(ReservationConfirmedTopic, c)) <=> "confirmed" \in told[c]
           /\ Known(Notice(PaymentCapturedTopic, c))
                  <=> \E a \in Auths : Starts(a, c)
BY DEF Known, Notice, SagaTopics, ConsignmentPaymentAuthorisedTopic,
   ConsignmentConfirmationFailedTopic, ReservationExpiredTopic, ReservationConfirmedTopic,
   PaymentCapturedTopic

LEMMA KnownSagaMessage ==
    ASSUME NEW m, m.topic \in SagaTopics, m.auth \in Auths, Starts(m.auth, m.consignment)
    PROVE  Known(m)
<1>1. m.topic \notin {PaymentCapturedTopic, ReservationConfirmedTopic}
  BY DEF SagaTopics, ConsignmentPaymentAuthorisedTopic, ConsignmentConfirmationFailedTopic,
     PaymentCapturedTopic, ReservationConfirmedTopic
<1>2. m.auth # NoID
  OBVIOUS
<1>3. QED
  BY <1>1, <1>2 DEF Known

(* The messages of a step are those there were and those that it makes. *)
LEMMA NewMessages ==
    ASSUME TypeOK, PcsFit, [Next]_vars,
           NEW m \in outbox' \cup toConsume' \cup published',
           m \notin outbox \cup toConsume \cup published
    PROVE  \/ \E w \in Workers : worker[w] # Idle /\ m = Msg(w)
           \/ \E a \in Auths : /\ call[a].pc = "publish"
                               /\ m = Authorised(call[a].consignment, a, FALSE, 0)
           \/ \E c \in Consignments : m = Notice(ReservationExpiredTopic, c)
           \/ \E c \in Consignments : /\ told'[c] = {"confirmed"}
                                      /\ m = Notice(ReservationConfirmedTopic, c)
           \/ \E c \in Consignments : told'[c] = {"failed"} /\ m = Failed(c, NoID, TRUE)
           \/ \E w \in Workers : /\ worker[w].pc = "tx"
                                 /\ m = Notice(PaymentCapturedTopic, Msg(w).consignment)
           \/ \E w \in Workers : /\ worker[w].pc = "retry"
                                 /\ m = Retry(Msg(w), worker[w].captured)
<1> USE DEF kafkaVars
<1> DEFINE Made ==
        \/ \E w \in Workers : worker[w] # Idle /\ m = Msg(w)
        \/ \E a \in Auths : /\ call[a].pc = "publish"
                            /\ m = Authorised(call[a].consignment, a, FALSE, 0)
        \/ \E c \in Consignments : m = Notice(ReservationExpiredTopic, c)
        \/ \E c \in Consignments : /\ told'[c] = {"confirmed"}
                                   /\ m = Notice(ReservationConfirmedTopic, c)
        \/ \E c \in Consignments : told'[c] = {"failed"} /\ m = Failed(c, NoID, TRUE)
        \/ \E w \in Workers : /\ worker[w].pc = "tx"
                              /\ m = Notice(PaymentCapturedTopic, Msg(w).consignment)
        \/ \E w \in Workers : /\ worker[w].pc = "retry"
                              /\ m = Retry(Msg(w), worker[w].captured)
<1> HIDE DEF Made
<1>0. SUFFICES Made
  BY DEF Made
<1>1. CASE UNCHANGED <<outbox, toConsume, published>>
  BY <1>1
<1>2. ASSUME NEW a \in Auths, PublishPaymentAuthorised(a)
      PROVE  Made
  <2>0. /\ call[a].pc = "publish"
        /\ \/ outbox' = outbox \cup {Authorised(call[a].consignment, a, FALSE, 0)}
           \/ outbox' = outbox
        /\ UNCHANGED kafkaVars
    BY <1>2, PublishAuthorisedEffect
  <2>1. m = Authorised(call[a].consignment, a, FALSE, 0) /\ call[a].pc = "publish"
    BY <2>0
  <2>2. QED
    BY <2>1 DEF Made
<1>3. ASSUME NEW row \in outbox, PublishOutbox(row)
      PROVE  FALSE
  BY <1>3, PublishEffect
<1>4. ASSUME NEW c \in Consignments, ReservationExpired(c)
      PROVE  Made
  <2>1. m = Notice(ReservationExpiredTopic, c)
    BY <1>4, ExpiredEffect
  <2>2. QED
    BY <2>1 DEF Made
<1>5. ASSUME NEW c \in Consignments, ReservationAnswers(c)
      PROVE  Made
  <2>1. told \in [Consignments -> {{}, {"confirmed"}, {"failed"}}]
    BY DEF TypeOK
  <2>2. \/ told' = [told EXCEPT ![c] = {"confirmed"}] /\ m = Notice(ReservationConfirmedTopic, c)
        \/ told' = [told EXCEPT ![c] = {"failed"}] /\ m = Failed(c, NoID, TRUE)
    <3>1. /\ \/ /\ told' = [told EXCEPT ![c] = {"confirmed"}]
                /\ toConsume' = toConsume \cup {Notice(ReservationConfirmedTopic, c)}
             \/ /\ told' = [told EXCEPT ![c] = {"failed"}]
                /\ toConsume' = toConsume \cup {Failed(c, NoID, TRUE)}
          /\ UNCHANGED <<outbox, published>>
      BY <1>5, AnswersEffect
    <3>2. QED
      BY <3>1
  <2>3. \/ told'[c] = {"confirmed"} /\ m = Notice(ReservationConfirmedTopic, c)
        \/ told'[c] = {"failed"} /\ m = Failed(c, NoID, TRUE)
    BY <2>1, <2>2
  <2>4. QED
    BY <2>3 DEF Made
<1>6. ASSUME NEW w \in Workers, NEW x \in toConsume, Receive(w, x)
      PROVE  FALSE
  BY <1>6, ReceiveEffect
<1>7. ASSUME NEW w \in Workers, RecordPayment(w)
      PROVE  Made
  <2>1. worker[w].pc = "tx" /\ m = Notice(PaymentCapturedTopic, Msg(w).consignment)
    BY <1>7, RecordEffect
  <2>2. QED
    BY <2>1 DEF Made
<1>8. ASSUME NEW w \in Workers, worker[w] # Idle, UNCHANGED <<outbox, published>>,
             UNCHANGED toConsume \/ ReturnsOrPassesOver(w)
      PROVE  Made
  <2>1. m = Msg(w)
    BY <1>8 DEF ReturnsOrPassesOver
  <2>2. QED
    BY <1>8, <2>1 DEF Made
<1>9. ASSUME NEW w \in Workers, ScheduleRetry(w)
      PROVE  Made
  <2>1. worker[w].pc = "retry" /\ worker[w] # Idle
    BY <1>9, ScheduleEffect, BusyWorker
  <2>2. m = Msg(w) \/ m = Retry(Msg(w), worker[w].captured)
    BY <1>9, ScheduleEffect DEF ReturnsOrPassesOver
  <2>3. QED
    BY <2>1, <2>2 DEF Made
<1>10. ASSUME NEW w \in Workers, ReadConsignment(w) \/ CommitMessage(w) \/ Crash(w)
       PROVE  Made
  BY <1>8, <1>10, ReadEffect, CommitEffect, CrashEffect, BusyWorker
<1>11. ASSUME NEW w \in Workers, Cancel(w) \/ Confirm(w)
       PROVE  Made
  <2>1. PICK label \in {"cancel", "confirm"}, s \in {"cancelled", "confirmed"} :
            SetStatusTo(w, label, s)
    BY <1>11 DEF Cancel, Confirm
  <2>2. worker[w].pc = label
    BY <2>1, SetStatusEffect
  <2>3. worker[w] # Idle
    BY <2>2 DEF Idle
  <2>4. UNCHANGED <<outbox, published>> /\ (UNCHANGED toConsume \/ ReturnsOrPassesOver(w))
    BY <2>1, SetStatusEffect
  <2>5. QED
    BY <1>8, <2>3, <2>4
<1>12. ASSUME NEW w \in Workers, CapturePayment(w) \/ UndoPayment(w)
       PROVE  UNCHANGED <<outbox, toConsume, published>>
  BY <1>12, CaptureEffect, UndoEffect
<1>13. ASSUME NEW c \in Consignments,
              CreateConsignment(c) \/ ReservationLapses(c) \/ ReservationSettled(c)
       PROVE  UNCHANGED <<outbox, toConsume, published>>
  BY <1>13, CreateEffect, LapseEffect, SettledEffect
<1>14. ASSUME NEW a \in Auths,
              \/ \E c \in Consignments : ConfirmConsignment(a, c)
              \/ AuthorisePayment(a) \/ CancelConsignment(a) \/ VoidPayment(a)
       PROVE  UNCHANGED <<outbox, toConsume, published>>
  BY <1>14, ConfirmEffect, AuthoriseEffect, CancelEffect, VoidEffect
<1>15. UNCHANGED vars => UNCHANGED <<outbox, toConsume, published>>
  BY DEF vars
<1>16. QED
  BY <1>1, <1>2, <1>3, <1>4, <1>5, <1>6, <1>7, <1>9, <1>10, <1>11, <1>12, <1>13, <1>14, <1>15,
     StepCases

(* A loop is in the handler of the message it had, or of one it has fetched. *)
LEMMA HandledMessage ==
    ASSUME TypeOK, [Next]_vars, NEW w \in Workers, worker'[w] # Idle
    PROVE  \/ worker[w] # Idle /\ Msg(w)' = Msg(w)
           \/ /\ worker[w] = Idle /\ Msg(w)' \in toConsume
              /\ \E m \in toConsume : Receive(w, m) /\ Msg(w)' = m
<1> DEFINE Goal == \/ worker[w] # Idle /\ Msg(w)' = Msg(w)
                   \/ /\ worker[w] = Idle /\ Msg(w)' \in toConsume
                      /\ \E m \in toConsume : Receive(w, m) /\ Msg(w)' = m
<1>1. CASE worker'[w] = worker[w]
  BY <1>1 DEF Msg
<1>2. ASSUME NEW v \in Workers, NEW m \in toConsume, Receive(v, m)
      PROVE  Goal
  <2>1. CASE v # w
    BY <1>1, <1>2, <2>1, ReceiveEffect
  <2>2. CASE v = w
    <3>1. worker'[w] = [pc |-> FirstStep(m), msg |-> m, captured |-> AlreadyCaptured(m)]
          /\ worker[w] = Idle
      BY <1>2, <2>2, ReceiveEffect
    <3>2. Msg(w)' = m
      BY <3>1 DEF Msg
    <3>3. QED
      BY <1>2, <2>2, <3>1, <3>2
  <2>3. QED
    BY <2>1, <2>2
<1>3. ASSUME NEW v \in Workers, worker[v] # Idle, NEW label, Moves(v, label) \/ Rests(v)
      PROVE  Goal
  BY <1>1, <1>3 DEF Moves, Rests, Msg
<1>4. ASSUME NEW v \in Workers, CapturePayment(v)
      PROVE  Goal
  <2>0. worker[v].pc = "capture"
    BY <1>4, CaptureEffect
  <2>1. worker[v] # Idle
    BY <2>0 DEF Idle
  <2>2. /\ \A u \in Workers \ {v} : worker'[u] = worker[u]
        /\ \E label \in {"tx", "retry"}, captured \in {TRUE, worker[v].captured} :
               worker'[v] = [pc |-> label, msg |-> Msg(v), captured |-> captured]
    BY <1>4, CaptureEffect
  <2>3. QED
    BY <1>1, <2>1, <2>2 DEF Msg
<1>5. ASSUME NEW v \in Workers, RecordPayment(v) \/ ScheduleRetry(v) \/ UndoPayment(v)
      PROVE  worker[v] # Idle /\ (Rests(v) \/ \E label : Moves(v, label))
  BY <1>5, RecordEffect, ScheduleEffect, UndoEffect, BusyWorker
<1>6. ASSUME NEW v \in Workers, ReadConsignment(v) \/ CommitMessage(v) \/ Crash(v)
      PROVE  worker[v] # Idle /\ (Rests(v) \/ \E label : Moves(v, label))
  BY <1>6, ReadEffect, CommitEffect, CrashEffect, BusyWorker
<1>7. ASSUME NEW v \in Workers, Cancel(v) \/ Confirm(v)
      PROVE  worker[v] # Idle /\ (Rests(v) \/ \E label : Moves(v, label))
  BY <1>7, SetStatusEffect DEF Cancel, Confirm, Idle
<1>8. ASSUME NEW c \in Consignments,
             CreateConsignment(c) \/ ReservationLapses(c) \/ ReservationExpired(c)
             \/ ReservationSettled(c) \/ ReservationAnswers(c)
      PROVE  UNCHANGED worker
  BY <1>8, CreateEffect, LapseEffect, ExpiredEffect, SettledEffect, AnswersEffect
<1>9. ASSUME NEW a \in Auths,
             \/ \E c \in Consignments : ConfirmConsignment(a, c)
             \/ AuthorisePayment(a) \/ PublishPaymentAuthorised(a)
             \/ CancelConsignment(a) \/ VoidPayment(a)
      PROVE  UNCHANGED worker
  BY <1>9, ConfirmEffect, AuthoriseEffect, PublishAuthorisedEffect, CancelEffect, VoidEffect
<1>10. ASSUME NEW row \in outbox, PublishOutbox(row)
       PROVE  UNCHANGED worker
  BY <1>10, PublishEffect
<1>11. UNCHANGED vars => UNCHANGED worker
  BY DEF vars
<1>12. QED
  BY <1>1, <1>2, <1>3, <1>4, <1>5, <1>6, <1>7, <1>8, <1>9, <1>10, <1>11, StepCases

LEMMA KnownStep ==
    ASSUME TypeOK, PcsFit, MessagesKnown, [Next]_vars
    PROVE  MessagesKnown'
<1>0. TypeOK'
  BY TypeStep
<1>1. \A m \in outbox \cup toConsume \cup published : Known(m)'
  BY KnownStays DEF MessagesKnown, TypeOK, InboundMessages, Messages
<1>2. \A w \in Workers : worker[w] # Idle => Known(Msg(w)) /\ Msg(w) \in Messages
  BY BusyWorker DEF MessagesKnown
<1>3. ASSUME NEW w \in Workers, NEW q, q = Msg(w), worker[w] # Idle
      PROVE  Known(q)'
  BY <1>2, <1>3, KnownStays
<1>4. ASSUME NEW a \in Auths, Starts(a, call[a].consignment),
             NEW q, q = Authorised(call[a].consignment, a, FALSE, 0)
      PROVE  Known(q)'
  <2>1. PICK d : d = call[a].consignment
    OBVIOUS
  <2>2. Starts(a, d)'
    BY <1>4, <2>1, StartsStays
  <2>3. q.topic \in SagaTopics /\ q.auth = a /\ q.consignment = d
    BY <1>4, <2>1 DEF Authorised, SagaTopics
  <2>4. q.topic \notin {PaymentCapturedTopic, ReservationConfirmedTopic}
    BY <1>4 DEF Authorised, ConsignmentPaymentAuthorisedTopic, PaymentCapturedTopic,
       ReservationConfirmedTopic
  <2>5. QED
    BY <2>2, <2>3, <2>4 DEF Known
<1>5. ASSUME NEW w \in Workers, worker[w].pc = "tx",
             NEW q, q = Notice(PaymentCapturedTopic, Msg(w).consignment)
      PROVE  Known(q)'
  <2>1. Msg(w) \in AuthorisedMessages /\ Known(Msg(w)) /\ Msg(w).consignment \in Consignments
    BY <1>2, <1>5, BusyWorker, TopicsDiffer DEF PcsFit, PcFits
  <2>2. PICK d \in Consignments : d = Msg(w).consignment
    BY <2>1
  <2>3. \E a \in Auths : Starts(a, d)
    BY <2>1, <2>2 DEF Known, AuthorisedMessages, SagaTopics
  <2>4. \E a \in Auths : Starts(a, d)'
    BY <2>3, StartsStays
  <2>5. q.topic = PaymentCapturedTopic /\ q.consignment = d
    BY <1>5, <2>2 DEF Notice
  <2>6. q.topic \notin SagaTopics \cup {ReservationConfirmedTopic}
    BY <2>5 DEF SagaTopics, PaymentCapturedTopic, ConsignmentPaymentAuthorisedTopic,
       ConsignmentConfirmationFailedTopic, ReservationConfirmedTopic
  <2>7. QED
    BY <2>4, <2>5, <2>6 DEF Known
<1>6. ASSUME NEW w \in Workers, worker[w].pc = "retry",
             NEW q, q = Retry(Msg(w), worker[w].captured)
      PROVE  Known(q)'
  <2>1. Msg(w) \in AuthorisedMessages /\ Known(Msg(w)) /\ worker[w].captured \in BOOLEAN
    BY <1>2, <1>6, BusyWorker, TopicsDiffer DEF PcsFit, PcFits
  <2>2. Starts(Msg(w).auth, Msg(w).consignment)
    BY <2>1 DEF Known, AuthorisedMessages, SagaTopics
  <2>3. /\ q.topic \in SagaTopics /\ q.auth = Msg(w).auth /\ q.auth \in Auths
        /\ q.consignment = Msg(w).consignment
    BY <1>6, <2>1, RetryEffect DEF SagaTopics
  <2>4. Starts(q.auth, q.consignment)'
    BY <2>2, <2>3, StartsStays
  <2>5. q.topic \notin {PaymentCapturedTopic, ReservationConfirmedTopic}
    BY <2>3 DEF SagaTopics, ConsignmentPaymentAuthorisedTopic, ConsignmentConfirmationFailedTopic,
       PaymentCapturedTopic, ReservationConfirmedTopic
  <2>6. q.auth # NoID
    BY <2>3
  <2>7. QED
    BY <2>3, <2>4, <2>5, <2>6 DEF Known
<1>7. ASSUME NEW c \in Consignments, told'[c] = {"failed"}, NEW q, q = Failed(c, NoID, TRUE)
      PROVE  Known(q)'
  <2>1. /\ q.topic \notin {PaymentCapturedTopic, ReservationConfirmedTopic}
        /\ q.auth = NoID /\ q.captured /\ q.consignment = c
    BY <1>7 DEF Failed, ConsignmentConfirmationFailedTopic, PaymentCapturedTopic,
       ReservationConfirmedTopic
  <2>2. QED
    BY <1>7, <2>1 DEF Known
<1>8. ASSUME NEW c \in Consignments, NEW q,
             \/ q = Notice(ReservationExpiredTopic, c)
             \/ q = Notice(ReservationConfirmedTopic, c) /\ told'[c] = {"confirmed"}
      PROVE  Known(q)'
  <2>1. /\ q.topic # PaymentCapturedTopic /\ q.topic \notin SagaTopics
        /\ q.topic = ReservationConfirmedTopic => "confirmed" \in told'[q.consignment]
    BY <1>8 DEF Notice, SagaTopics, ConsignmentPaymentAuthorisedTopic,
       ConsignmentConfirmationFailedTopic, ReservationExpiredTopic, ReservationConfirmedTopic,
       PaymentCapturedTopic
  <2>2. QED
    BY <2>1 DEF Known
<1>9. \A a \in Auths : call[a].pc = "publish" => Starts(a, call[a].consignment)
  BY StartedCall DEF Starts
<1>10. ASSUME NEW m \in outbox' \cup toConsume' \cup published'
       PROVE  Known(m)'
  <2>1. CASE m \in outbox \cup toConsume \cup published
    BY <1>1, <2>1
  <2>2. CASE m \notin outbox \cup toConsume \cup published
    BY <1>3, <1>4, <1>5, <1>6, <1>7, <1>8, <1>9, <2>2, NewMessages
  <2>3. QED
    BY <2>1, <2>2
<1>11. ASSUME NEW w \in Workers, worker'[w] # Idle
       PROVE  Known(Msg(w))'
  <2>1. PICK q : q = Msg(w)'
    OBVIOUS
  <2>2. Known(q)'
    <3>1. CASE worker[w] # Idle /\ q = Msg(w)
      BY <1>3, <3>1
    <3>2. CASE q \in toConsume
      BY <1>1, <3>2
    <3>3. QED
      BY <1>11, <2>1, <3>1, <3>2, HandledMessage
  <2>3. QED
    BY <2>1, <2>2
<1>12. QED
  BY <1>10, <1>11 DEF MessagesKnown

-----------------------------------------------------------------------------
(* payment.captured and payment_id *)

LEMMA RecordedFrame ==
    ASSUME NEW c \in Consignments, RecordAt(c), UNCHANGED <<status, paymentID, told>>,
           published \subseteq published', Recorded(c)' => Recorded(c)
    PROVE  RecordAt(c)'
BY DEF RecordAt

LEMMA RecordStatus ==
    ASSUME TypeOK, NEW c \in Consignments, RecordAt(c), NEW d \in Consignments,
           NEW s \in {"cancelled", "confirmed"},
           status' = [status EXCEPT ![d] = s] \/ status' = status,
           UNCHANGED <<paymentID, told, published, outbox>>
    PROVE  RecordAt(c)'
<1>1. status \in [Consignments -> {"none"} \cup Statuses]
  BY DEF TypeOK
<1>2. status'[c] = s \/ status'[c] = status[c]
  BY <1>1
<1>3. QED
  BY <1>2 DEF RecordAt, Recorded

LEMMA RecordStep ==
    ASSUME TypeOK, PcsFit, RecordInv, [Next]_vars, NEW c \in Consignments
    PROVE  RecordAt(c)'
<1> USE DEF storeVars, kafkaVars, rsVars
<1>0. RecordAt(c)
  BY DEF RecordInv
<1>1. ASSUME NEW m, m.topic \in SagaTopics, outbox' = outbox \/ outbox' = outbox \cup {m},
             UNCHANGED <<status, paymentID, told, published>>
      PROVE  RecordAt(c)'
  <2>1. m # Notice(PaymentCapturedTopic, c)
    BY <1>1 DEF SagaTopics, Notice, PaymentCapturedTopic, ConsignmentPaymentAuthorisedTopic,
       ConsignmentConfirmationFailedTopic
  <2>2. Recorded(c)' => Recorded(c)
    BY <1>1, <2>1 DEF Recorded
  <2>3. QED
    BY <1>0, <1>1, <2>2, RecordedFrame
<1>2. CASE UNCHANGED <<status, paymentID, told, outbox, published>>
  BY <1>0, <1>2 DEF RecordAt, Recorded
<1>3. ASSUME NEW d \in Consignments, CreateConsignment(d)
      PROVE  RecordAt(c)'
  <2>1. status[d] = "none" /\ status' = [status EXCEPT ![d] = "pending"]
        /\ UNCHANGED <<paymentID, told, outbox, published>>
    BY <1>3, CreateEffect
  <2>2. status \in [Consignments -> {"none"} \cup Statuses]
    BY DEF TypeOK
  <2>3. status'[c] = status[c] \/ c = d
    BY <2>1, <2>2
  <2>4. QED
    BY <1>0, <2>1, <2>2, <2>3 DEF RecordAt, Recorded
<1>4. ASSUME NEW d \in Consignments, ReservationExpired(d)
      PROVE  RecordAt(c)'
  <2>1. published' = published \cup {Notice(ReservationExpiredTopic, d)}
        /\ UNCHANGED <<status, paymentID, told, outbox>>
    BY <1>4, ExpiredEffect DEF ReservationExpired
  <2>2. Notice(ReservationExpiredTopic, d) # Notice(PaymentCapturedTopic, c)
    BY DEF Notice, ReservationExpiredTopic, PaymentCapturedTopic
  <2>3. Recorded(c)' => Recorded(c)
    BY <2>1, <2>2 DEF Recorded
  <2>4. QED
    BY <1>0, <2>1, <2>3, RecordedFrame
<1>5. ASSUME NEW d \in Consignments, ReservationAnswers(d)
      PROVE  RecordAt(c)'
  <2>1. /\ Notice(PaymentCapturedTopic, d) \in published
        /\ \E x \in {{"confirmed"}, {"failed"}} : told' = [told EXCEPT ![d] = x]
        /\ UNCHANGED <<status, paymentID, outbox, published>>
    BY <1>5, AnswersEffect
  <2>2. told \in [Consignments -> {{}, {"confirmed"}, {"failed"}}]
    BY DEF TypeOK
  <2>3. told'[c] = told[c] \/ c = d
    BY <2>1, <2>2
  <2>4. QED
    BY <1>0, <2>1, <2>3 DEF RecordAt, Recorded
<1>6. ASSUME NEW a \in Auths, PublishPaymentAuthorised(a)
      PROVE  RecordAt(c)'
  <2> DEFINE m == Authorised(call[a].consignment, a, FALSE, 0)
  <2>1. m.topic \in SagaTopics
    BY DEF Authorised, SagaTopics
  <2>2. /\ outbox' = outbox \/ outbox' = outbox \cup {m}
        /\ UNCHANGED <<status, paymentID, told, published>>
    BY <1>6, PublishAuthorisedEffect
  <2> HIDE DEF m
  <2>3. QED
    BY <1>1, <2>1, <2>2
<1>7. ASSUME NEW w \in Workers, ScheduleRetry(w)
      PROVE  RecordAt(c)'
  <2> DEFINE m == Retry(Msg(w), worker[w].captured)
  <2>1. Msg(w) \in AuthorisedMessages /\ worker[w].captured \in BOOLEAN
    BY <1>7, ScheduleEffect, BusyWorker, TopicsDiffer DEF PcsFit, PcFits
  <2>2. m.topic \in SagaTopics
    BY <2>1, RetryEffect DEF SagaTopics
  <2>3. /\ outbox' = outbox \/ outbox' = outbox \cup {m}
        /\ UNCHANGED <<status, paymentID, told, published>>
    BY <1>7, ScheduleEffect
  <2> HIDE DEF m
  <2>4. QED
    BY <1>1, <2>2, <2>3
<1>8. ASSUME NEW row \in outbox, PublishOutbox(row)
      PROVE  RecordAt(c)'
  <2>1. /\ published' = published \/ published' = published \cup {row}
        /\ outbox' \subseteq outbox
        /\ UNCHANGED <<status, paymentID, told>>
    BY <1>8, PublishEffect
  <2>2. Recorded(c)' => Recorded(c)
    BY <2>1 DEF Recorded
  <2>3. QED
    BY <1>0, <2>1, <2>2, RecordedFrame
<1>9. ASSUME NEW w \in Workers, RecordPayment(w)
      PROVE  RecordAt(c)'
  <2> DEFINE d == Msg(w).consignment
  <2>0. d \in Consignments
    BY <1>9, RecordEffect, BusyWorker
  <2>1. CASE UNCHANGED <<outbox, status, paymentID>>
    BY <1>2, <1>9, <2>1, RecordEffect
  <2>2. CASE /\ outbox' = outbox \cup {Notice(PaymentCapturedTopic, d)}
             /\ status' = [status EXCEPT ![d] = "confirmation_pending"]
             /\ paymentID' = [paymentID EXCEPT ![d] = TRUE]
    <3>1. UNCHANGED <<told, published>>
      BY <1>9, RecordEffect
    <3>2. status \in [Consignments -> {"none"} \cup Statuses]
          /\ paymentID \in [Consignments -> BOOLEAN]
      BY DEF TypeOK
    <3>3. CASE c = d
      <4>1. paymentID'[c] /\ status'[c] = "confirmation_pending"
        BY <2>0, <2>2, <3>2, <3>3
      <4>2. QED
        BY <1>0, <3>1, <4>1 DEF RecordAt
    <3>4. CASE c # d
      <4>1. paymentID'[c] = paymentID[c] /\ status'[c] = status[c]
        BY <2>0, <2>2, <3>2, <3>4
      <4>2. Notice(PaymentCapturedTopic, c) # Notice(PaymentCapturedTopic, d)
        BY <3>4 DEF Notice
      <4>3. Recorded(c)' => Recorded(c)
        BY <2>2, <3>1, <4>2 DEF Recorded
      <4>4. QED
        BY <1>0, <3>1, <4>1, <4>3 DEF RecordAt
    <3>5. QED
      BY <3>3, <3>4
  <2>3. QED
    BY <1>9, <2>1, <2>2, RecordEffect
<1>10. ASSUME NEW a \in Auths, CancelConsignment(a)
       PROVE  RecordAt(c)'
  BY <1>0, <1>10, CancelEffect, RecordStatus
<1>11. ASSUME NEW w \in Workers, Cancel(w) \/ Confirm(w)
       PROVE  RecordAt(c)'
  <2>1. PICK label \in {"cancel", "confirm"}, s \in {"cancelled", "confirmed"} :
            SetStatusTo(w, label, s)
    BY <1>11 DEF Cancel, Confirm
  <2>2. worker[w].pc = label
    BY <2>1, SetStatusEffect
  <2>3. Msg(w).consignment \in Consignments
    BY <2>2, BusyWorker
  <2>4. QED
    BY <1>0, <2>1, <2>3, SetStatusEffect, RecordStatus
<1>12. ASSUME NEW w \in Workers,
              \/ \E m \in toConsume : Receive(w, m)
              \/ CapturePayment(w) \/ UndoPayment(w) \/ ReadConsignment(w)
              \/ CommitMessage(w) \/ Crash(w)
       PROVE  UNCHANGED <<status, paymentID, told, outbox, published>>
  BY <1>12, ReceiveEffect, CaptureEffect, UndoEffect, ReadEffect, CommitEffect, CrashEffect
<1>13. ASSUME NEW d \in Consignments, ReservationLapses(d) \/ ReservationSettled(d)
       PROVE  UNCHANGED <<status, paymentID, told, outbox, published>>
  BY <1>13, LapseEffect, SettledEffect
<1>14. ASSUME NEW a \in Auths,
              \/ \E d \in Consignments : ConfirmConsignment(a, d)
              \/ AuthorisePayment(a) \/ VoidPayment(a)
       PROVE  UNCHANGED <<status, paymentID, told, outbox, published>>
  BY <1>14, ConfirmEffect, AuthoriseEffect, VoidEffect
<1>15. UNCHANGED vars => UNCHANGED <<status, paymentID, told, outbox, published>>
  BY DEF vars
<1>16. QED
  BY <1>2, <1>3, <1>4, <1>5, <1>6, <1>7, <1>8, <1>9, <1>10, <1>11, <1>12, <1>13, <1>14, <1>15,
     StepCases

(* No handler undoes a payment but that of a failed confirmation: an expired   *)
(* reservation is read of a consignment with payment_id, which is not pending. *)
LEMMA UndoStep ==
    ASSUME TypeOK, RecordInv, [Next]_vars, NEW w \in Workers, worker'[w].pc = "undo"
    PROVE  (Msg(w).topic = ConsignmentConfirmationFailedTopic)'
<1> DEFINE Goal == (Msg(w).topic = ConsignmentConfirmationFailedTopic)'
<1>1. CASE worker'[w] = worker[w]
  BY <1>1 DEF RecordInv, Msg
<1>2. ASSUME NEW v \in Workers, NEW m \in toConsume, Receive(v, m)
      PROVE  Goal
  <2>1. CASE v # w
    BY <1>1, <1>2, <2>1, ReceiveEffect
  <2>2. CASE v = w
    <3>1. worker'[w] = [pc |-> FirstStep(m), msg |-> m, captured |-> AlreadyCaptured(m)]
      BY <1>2, <2>2, ReceiveEffect
    <3>2. FirstStep(m) = "undo" /\ Msg(w)' = m
      BY <3>1 DEF Msg
    <3>3. /\ m.topic # ConsignmentPaymentAuthorisedTopic
          /\ m.topic \notin {ReservationExpiredTopic, ReservationConfirmedTopic}
          /\ m \in InboundMessages
      BY <1>2, <2>2, <3>2, ReceiveEffect
    <3>4. m.topic = ConsignmentConfirmationFailedTopic
      BY <3>3 DEF InboundMessages, Messages, AuthorisedMessages, FailedMessages, Notices
    <3>5. QED
      BY <3>2, <3>4
  <2>3. QED
    BY <2>1, <2>2
<1>3. ASSUME NEW v \in Workers, NEW label, label # "undo", Moves(v, label) \/ Rests(v)
      PROVE  Goal
  <2>1. worker'[v].pc # "undo"
    BY <1>3 DEF Moves, Rests, Idle
  <2>2. QED
    BY <1>1, <1>3, <2>1 DEF Moves, Rests
<1>4. ASSUME NEW v \in Workers, CapturePayment(v)
      PROVE  Goal
  <2>0. PICK label \in {"tx", "retry"}, captured \in {TRUE, worker[v].captured} :
            worker'[v] = [pc |-> label, msg |-> Msg(v), captured |-> captured]
    BY <1>4, CaptureEffect
  <2>1. worker'[v].pc # "undo"
    BY <2>0
  <2>2. \A u \in Workers \ {v} : worker'[u] = worker[u]
    BY <1>4, CaptureEffect
  <2>3. QED
    BY <1>1, <2>1, <2>2
<1>5. ASSUME NEW v \in Workers, ReadConsignment(v)
      PROVE  Goal
  <2>1. worker[v].pc = "read"
    BY <1>5, ReadEffect
  <2>2. Msg(v).consignment \in Consignments
    BY <2>1, BusyWorker
  <2>3. ~ (status[Msg(v).consignment] = "pending" /\ paymentID[Msg(v).consignment])
    BY <2>2 DEF RecordInv, RecordAt
  <2>4. Moves(v, "commit") \/ Moves(v, "cancel") \/ Rests(v)
    BY <1>5, <2>3, ReadEffect
  <2>5. QED
    BY <1>3, <2>4
<1>6. ASSUME NEW v \in Workers, RecordPayment(v) \/ ScheduleRetry(v) \/ UndoPayment(v)
                                \/ CommitMessage(v) \/ Crash(v)
      PROVE  Goal
  BY <1>3, <1>6, RecordEffect, ScheduleEffect, UndoEffect, CommitEffect, CrashEffect
<1>7. ASSUME NEW v \in Workers, Cancel(v) \/ Confirm(v)
      PROVE  Goal
  BY <1>3, <1>7, SetStatusEffect DEF Cancel, Confirm
<1>8. ASSUME NEW c \in Consignments,
             CreateConsignment(c) \/ ReservationLapses(c) \/ ReservationExpired(c)
             \/ ReservationSettled(c) \/ ReservationAnswers(c)
      PROVE  UNCHANGED worker
  BY <1>8, CreateEffect, LapseEffect, ExpiredEffect, SettledEffect, AnswersEffect
<1>9. ASSUME NEW a \in Auths,
             \/ \E c \in Consignments : ConfirmConsignment(a, c)
             \/ AuthorisePayment(a) \/ PublishPaymentAuthorised(a)
             \/ CancelConsignment(a) \/ VoidPayment(a)
      PROVE  UNCHANGED worker
  BY <1>9, ConfirmEffect, AuthoriseEffect, PublishAuthorisedEffect, CancelEffect, VoidEffect
<1>10. ASSUME NEW row \in outbox, PublishOutbox(row)
       PROVE  UNCHANGED worker
  BY <1>10, PublishEffect
<1>11. UNCHANGED vars => UNCHANGED worker
  BY DEF vars
<1>12. QED
  BY <1>1, <1>2, <1>4, <1>5, <1>6, <1>7, <1>8, <1>9, <1>10, <1>11, StepCases

SagaInv == TypeOK /\ PcsFit /\ MessagesKnown /\ RecordInv

LEMMA SagaInvAlways == Spec => []SagaInv
<1>1. Init => SagaInv
  <2> SUFFICES ASSUME Init PROVE SagaInv
    OBVIOUS
  <2>1. \A w \in Workers : worker[w] = Idle
    BY DEF Init
  <2>2. outbox = {} /\ toConsume = {} /\ published = {}
    BY DEF Init
  <2>3. \A c \in Consignments : told[c] = {} /\ ~ paymentID[c]
    BY DEF Init, RS!Init
  <2>4. MessagesKnown
    BY <2>1, <2>2 DEF MessagesKnown
  <2>5. RecordInv
    BY <2>1, <2>2, <2>3, NoneIdle DEF RecordInv, RecordAt, Recorded
  <2>6. QED
    BY <2>4, <2>5, InitType DEF SagaInv
<1>2. SagaInv /\ [Next]_vars => SagaInv'
  BY TypeStep, FitsStep, KnownStep, RecordStep, UndoStep DEF SagaInv, RecordInv
<1>3. QED
  BY <1>1, <1>2, PTL DEF Spec

-----------------------------------------------------------------------------
(* A captured payment is always somebody's business *)

Carries(m, a) == m.topic \in SagaTopics /\ m.auth = a

\* The loops that have not dealt with a message of authorisation a.
HandlingOf(a) ==
    {w \in Workers : worker[w].pc \notin {"idle", "commit"} /\ Carries(Msg(w), a)}

Paid(a, c) == payments[a].captureID = c /\ payments[a].status = "captured"

Anchor(a) == payments[a].captureID # NoID => Starts(a, payments[a].captureID)

Carried(a, c) ==
    \/ Recorded(c)
    \/ c \in alerts \cup passedOver
    \/ \E m \in outbox \cup toConsume : m.consignment = c /\ Carries(m, a)
    \/ \E w \in HandlingOf(a) : Msg(w).consignment = c /\ worker[w].pc # "cancel"

CarriedAt(a, c) == ConfirmedOnce(c) /\ Paid(a, c) => Carried(a, c)

CarriedInv == \A a \in Auths : Anchor(a) /\ \A c \in Consignments : CarriedAt(a, c)

\* How a step may change the payments.
PaymentsChange ==
    \/ UNCHANGED payments
    \/ \E a \in Auths : Authorise(a) \/ Void(a)
    \/ \E w \in Workers : CapturePayment(w) /\ Capture(Msg(w).auth, Msg(w).consignment)
    \/ \E w \in Workers : UndoPayment(w) /\ Refund(Msg(w).consignment)
    \/ \E w \in Workers : UndoPayment(w) /\ Void(Msg(w).auth)

LEMMA PaymentChanges ==
    ASSUME TypeOK, [Next]_vars
    PROVE  PaymentsChange
<1>1. ASSUME NEW a \in Auths, AuthorisePayment(a) \/ VoidPayment(a)
      PROVE  PaymentsChange
  BY <1>1, AuthoriseEffect, VoidEffect DEF PaymentsChange
<1>2. ASSUME NEW w \in Workers, CapturePayment(w) \/ UndoPayment(w)
      PROVE  PaymentsChange
  BY <1>2, CaptureEffect, UndoEffect DEF PaymentsChange
<1>3. ASSUME NEW a \in Auths,
             \/ \E c \in Consignments : ConfirmConsignment(a, c)
             \/ PublishPaymentAuthorised(a) \/ CancelConsignment(a)
      PROVE  UNCHANGED payments
  BY <1>3, ConfirmEffect, PublishAuthorisedEffect, CancelEffect
<1>4. ASSUME NEW c \in Consignments,
             CreateConsignment(c) \/ ReservationLapses(c) \/ ReservationExpired(c)
             \/ ReservationSettled(c) \/ ReservationAnswers(c)
      PROVE  UNCHANGED payments
  BY <1>4, CreateEffect, LapseEffect, ExpiredEffect, SettledEffect, AnswersEffect
<1>5. ASSUME NEW row \in outbox, PublishOutbox(row)
      PROVE  UNCHANGED payments
  BY <1>5, PublishEffect
<1>6. ASSUME NEW w \in Workers,
             \/ \E m \in toConsume : Receive(w, m)
             \/ RecordPayment(w) \/ ScheduleRetry(w) \/ ReadConsignment(w)
             \/ Cancel(w) \/ Confirm(w) \/ CommitMessage(w) \/ Crash(w)
      PROVE  UNCHANGED payments
  BY <1>6 DEF Receive, RecordPayment, ScheduleRetry, ReadConsignment, Cancel, Confirm,
         SetStatusTo, CommitMessage, Crash
<1>7. UNCHANGED vars => UNCHANGED payments
  BY DEF vars
<1>8. QED
  BY <1>1, <1>2, <1>3, <1>4, <1>5, <1>6, <1>7, StepCases DEF PaymentsChange

(* What becomes of one payment in a step. *)
LEMMA OnePayment ==
    ASSUME TypeOK, PcsFit, [Next]_vars, NEW a \in Auths
    PROVE  \/ payments'[a] = payments[a]
           \/ /\ payments'[a].captureID = payments[a].captureID
              /\ payments[a].status # "captured"
              /\ payments'[a].status # "captured"
           \/ \E w \in Workers : /\ CapturePayment(w) /\ Msg(w).auth = a
                                 /\ payments'[a] = [status |-> "captured",
                                                    captureID |-> Msg(w).consignment]
           \/ \E w \in Workers : /\ UndoPayment(w)
                                 /\ payments[a].captureID = Msg(w).consignment
                                 /\ payments'[a] = [status |-> "refunded",
                                                    captureID |-> payments[a].captureID]
<1> DEFINE Goal ==
        \/ payments'[a] = payments[a]
        \/ /\ payments'[a].captureID = payments[a].captureID
           /\ payments[a].status # "captured"
           /\ payments'[a].status # "captured"
        \/ \E w \in Workers : /\ CapturePayment(w) /\ Msg(w).auth = a
                              /\ payments'[a] = [status |-> "captured",
                                                 captureID |-> Msg(w).consignment]
        \/ \E w \in Workers : /\ UndoPayment(w)
                              /\ payments[a].captureID = Msg(w).consignment
                              /\ payments'[a] = [status |-> "refunded",
                                                 captureID |-> payments[a].captureID]
<1>0. payments \in [Auths -> [status : PaymentStatuses, captureID : PaymentIDs \cup {NoID}]]
  BY DEF TypeOK, PaymentsOK
<1>1. CASE UNCHANGED payments
  BY <1>1
<1>2. ASSUME NEW b \in Auths, Authorise(b) \/ Void(b)
      PROVE  Goal
  <2>1. PICK s \in {"authorised", "voided"} : SetStatus(b, s)
    BY <1>2 DEF Authorise, Void
  <2>2. payments[b].status # "captured"
    BY <1>2 DEF Authorise, Void, CanVoid, Status
  <2>3. /\ payments'[b] = [status |-> s, captureID |-> payments[b].captureID]
        /\ \A x \in Auths \ {b} : payments'[x] = payments[x]
    BY <2>1, PaymentKept
  <2>4. payments'[b].status # "captured" /\ payments'[b].captureID = payments[b].captureID
    BY <2>3
  <2>5. QED
    BY <2>2, <2>3, <2>4
<1>3. ASSUME NEW w \in Workers, CapturePayment(w), Capture(Msg(w).auth, Msg(w).consignment)
      PROVE  Goal
  <2>1. payments' = payments
        \/ payments' = [payments EXCEPT ![Msg(w).auth] =
                            [status |-> "captured", captureID |-> Msg(w).consignment]]
    BY <1>3 DEF Capture
  <2>2. CASE a = Msg(w).auth
    BY <1>0, <1>3, <2>1, <2>2
  <2>3. CASE a # Msg(w).auth
    BY <1>0, <2>1, <2>3
  <2>4. QED
    BY <2>2, <2>3
<1>4. ASSUME NEW w \in Workers, UndoPayment(w), Refund(Msg(w).consignment)
      PROVE  Goal
  <2>1. PICK b \in Auths : payments[b].captureID = Msg(w).consignment /\ SetStatus(b, "refunded")
    BY <1>4 DEF Refund, Anchored
  <2>2. CASE a = b
    BY <1>4, <2>1, <2>2, PaymentKept
  <2>3. CASE a # b
    BY <2>1, <2>3, PaymentKept
  <2>4. QED
    BY <2>2, <2>3
<1>5. ASSUME NEW w \in Workers, UndoPayment(w), Void(Msg(w).auth)
      PROVE  Goal
  <2>1. /\ payments' = [payments EXCEPT ![Msg(w).auth].status = "voided"]
        /\ payments[Msg(w).auth].status # "captured"
    BY <1>5 DEF Void, SetStatus, CanVoid, Status
  <2>2. CASE a = Msg(w).auth
    <3>1. SetStatus(a, "voided")
      BY <2>1, <2>2 DEF SetStatus
    <3>2. QED
      BY <2>1, <2>2, <3>1, PaymentKept
  <2>3. CASE a # Msg(w).auth
    BY <1>0, <2>1, <2>3
  <2>4. QED
    BY <2>2, <2>3
<1>6. QED
  BY <1>1, <1>2, <1>3, <1>4, <1>5, PaymentChanges DEF PaymentsChange

(* A message of the saga stays until some loop fetches it. *)
LEMMA MessageFate ==
    ASSUME TypeOK, [Next]_vars, NEW m \in outbox \cup toConsume, m.topic \in SagaTopics
    PROVE  \/ m \in outbox' \cup toConsume'
           \/ \E w \in Workers : Receive(w, m) /\ m \in toConsume
<1> USE DEF kafkaVars
<1>1. ASSUME outbox \subseteq outbox', toConsume \subseteq toConsume'
      PROVE  m \in outbox' \cup toConsume'
  BY <1>1
<1>2. ASSUME NEW row \in outbox, PublishOutbox(row)
      PROVE  m \in outbox' \cup toConsume'
  <2>1. m.topic # PaymentCapturedTopic
    BY DEF SagaTopics, ConsignmentPaymentAuthorisedTopic, ConsignmentConfirmationFailedTopic,
       PaymentCapturedTopic
  <2>2. /\ outbox \subseteq outbox' \cup {row} /\ toConsume \subseteq toConsume'
        /\ row.topic # PaymentCapturedTopic => toConsume' = toConsume \cup {row}
    BY <1>2, PublishEffect
  <2>3. QED
    BY <2>1, <2>2
<1>3. ASSUME NEW w \in Workers, NEW x \in toConsume, Receive(w, x)
      PROVE  \/ m \in outbox' \cup toConsume'
             \/ \E v \in Workers : Receive(v, m) /\ m \in toConsume
  BY <1>3, ReceiveEffect
<1>4. ASSUME NEW w \in Workers,
             \/ CapturePayment(w) \/ RecordPayment(w) \/ UndoPayment(w) \/ ReadConsignment(w)
             \/ CommitMessage(w) \/ Crash(w)
      PROVE  outbox \subseteq outbox' /\ toConsume \subseteq toConsume'
  BY <1>4, CaptureEffect, RecordEffect, UndoEffect, ReadEffect, CommitEffect, CrashEffect
     DEF ReturnsOrPassesOver
<1>5. ASSUME NEW w \in Workers, ScheduleRetry(w)
      PROVE  outbox \subseteq outbox' /\ toConsume \subseteq toConsume'
  BY <1>5, ScheduleEffect DEF ReturnsOrPassesOver
<1>6. ASSUME NEW w \in Workers, Cancel(w) \/ Confirm(w)
      PROVE  outbox \subseteq outbox' /\ toConsume \subseteq toConsume'
  BY <1>6, SetStatusEffect DEF Cancel, Confirm, ReturnsOrPassesOver
<1>7. ASSUME NEW a \in Auths,
             \/ \E c \in Consignments : ConfirmConsignment(a, c)
             \/ AuthorisePayment(a) \/ CancelConsignment(a) \/ VoidPayment(a)
      PROVE  outbox \subseteq outbox' /\ toConsume \subseteq toConsume'
  BY <1>7, ConfirmEffect, AuthoriseEffect, CancelEffect, VoidEffect
<1>8. ASSUME NEW a \in Auths, PublishPaymentAuthorised(a)
      PROVE  outbox \subseteq outbox' /\ toConsume \subseteq toConsume'
  BY <1>8, PublishAuthorisedEffect
<1>9. ASSUME NEW c \in Consignments,
             CreateConsignment(c) \/ ReservationLapses(c) \/ ReservationExpired(c)
             \/ ReservationSettled(c) \/ ReservationAnswers(c)
      PROVE  outbox \subseteq outbox' /\ toConsume \subseteq toConsume'
  BY <1>9, CreateEffect, LapseEffect, ExpiredEffect, SettledEffect, AnswersEffect
<1>10. UNCHANGED vars => outbox \subseteq outbox' /\ toConsume \subseteq toConsume'
  BY DEF vars
<1>11. QED
  BY <1>1, <1>2, <1>3, <1>4, <1>5, <1>6, <1>7, <1>8, <1>9, <1>10, StepCases

(* What is published, alerted and passed over is so for good. *)
LEMMA RecordsStay ==
    ASSUME TypeOK, [Next]_vars
    PROVE  /\ alerts \subseteq alerts' /\ passedOver \subseteq passedOver'
           /\ published \subseteq published'
           /\ \A m \in outbox : m.topic = PaymentCapturedTopic => m \in outbox' \cup published'
<1> USE DEF kafkaVars
<1> DEFINE Goal ==
        /\ alerts \subseteq alerts' /\ passedOver \subseteq passedOver'
        /\ published \subseteq published'
        /\ \A m \in outbox : m.topic = PaymentCapturedTopic => m \in outbox' \cup published'
<1>1. ASSUME NEW row \in outbox, PublishOutbox(row)
      PROVE  Goal
  BY <1>1, PublishEffect
<1>2. ASSUME NEW w \in Workers, NEW x \in toConsume, Receive(w, x)
      PROVE  Goal
  BY <1>2, ReceiveEffect
<1>3. ASSUME NEW w \in Workers,
             \/ CapturePayment(w) \/ RecordPayment(w) \/ UndoPayment(w) \/ ReadConsignment(w)
             \/ CommitMessage(w) \/ Crash(w)
      PROVE  Goal
  BY <1>3, CaptureEffect, RecordEffect, UndoEffect, ReadEffect, CommitEffect, CrashEffect
     DEF ReturnsOrPassesOver
<1>4. ASSUME NEW w \in Workers, ScheduleRetry(w)
      PROVE  Goal
  BY <1>4, ScheduleEffect DEF ReturnsOrPassesOver
<1>5. ASSUME NEW w \in Workers, Cancel(w) \/ Confirm(w)
      PROVE  Goal
  BY <1>5, SetStatusEffect DEF Cancel, Confirm, ReturnsOrPassesOver
<1>6. ASSUME NEW a \in Auths,
             \/ \E c \in Consignments : ConfirmConsignment(a, c)
             \/ AuthorisePayment(a) \/ CancelConsignment(a) \/ VoidPayment(a)
      PROVE  Goal
  BY <1>6, ConfirmEffect, AuthoriseEffect, CancelEffect, VoidEffect
<1>7. ASSUME NEW a \in Auths, PublishPaymentAuthorised(a)
      PROVE  Goal
  BY <1>7, PublishAuthorisedEffect
<1>8. ASSUME NEW c \in Consignments,
             CreateConsignment(c) \/ ReservationLapses(c) \/ ReservationExpired(c)
             \/ ReservationSettled(c) \/ ReservationAnswers(c)
      PROVE  Goal
  BY <1>8, CreateEffect, LapseEffect, ExpiredEffect, SettledEffect, AnswersEffect
<1>9. UNCHANGED vars => Goal
  BY DEF vars
<1>10. QED
  BY <1>1, <1>2, <1>3, <1>4, <1>5, <1>6, <1>7, <1>8, <1>9, StepCases

LEMMA RecordedStays ==
    ASSUME TypeOK, [Next]_vars, NEW c, Recorded(c)
    PROVE  Recorded(c)'
<1>1. Notice(PaymentCapturedTopic, c).topic = PaymentCapturedTopic
  BY DEF Notice
<1>2. QED
  BY <1>1, RecordsStay DEF Recorded

LEMMA OnceStays ==
    ASSUME TypeOK, [Next]_vars, NEW c, ConfirmedOnce(c)'
    PROVE  ConfirmedOnce(c)
BY StartsStays DEF ConfirmedOnce

(* The loops whose handler a step leaves where it is, and those it does not. *)
LEMMA HandlerFate ==
    ASSUME TypeOK, [Next]_vars, NEW w \in Workers, worker[w] # Idle
    PROVE  \/ worker'[w] = worker[w]
           \/ CapturePayment(w) \/ RecordPayment(w) \/ ScheduleRetry(w) \/ UndoPayment(w)
           \/ ReadConsignment(w) \/ Cancel(w) \/ Confirm(w) \/ CommitMessage(w) \/ Crash(w)
<1>1. ASSUME NEW v \in Workers, v # w,
             \/ CapturePayment(v) \/ RecordPayment(v) \/ ScheduleRetry(v) \/ UndoPayment(v)
             \/ ReadConsignment(v) \/ Cancel(v) \/ Confirm(v) \/ CommitMessage(v) \/ Crash(v)
      PROVE  worker'[w] = worker[w]
  BY <1>1, CaptureEffect, RecordEffect, ScheduleEffect, UndoEffect, ReadEffect, SetStatusEffect,
     CommitEffect, CrashEffect DEF Cancel, Confirm, Moves, Rests
<1>2. ASSUME NEW v \in Workers, NEW m \in toConsume, Receive(v, m)
      PROVE  worker'[w] = worker[w]
  BY <1>2, ReceiveEffect
<1>3. ASSUME NEW c \in Consignments,
             CreateConsignment(c) \/ ReservationLapses(c) \/ ReservationExpired(c)
             \/ ReservationSettled(c) \/ ReservationAnswers(c)
      PROVE  UNCHANGED worker
  BY <1>3, CreateEffect, LapseEffect, ExpiredEffect, SettledEffect, AnswersEffect
<1>4. ASSUME NEW a \in Auths,
             \/ \E c \in Consignments : ConfirmConsignment(a, c)
             \/ AuthorisePayment(a) \/ PublishPaymentAuthorised(a)
             \/ CancelConsignment(a) \/ VoidPayment(a)
      PROVE  UNCHANGED worker
  BY <1>4, ConfirmEffect, AuthoriseEffect, PublishAuthorisedEffect, CancelEffect, VoidEffect
<1>5. ASSUME NEW row \in outbox, PublishOutbox(row)
      PROVE  UNCHANGED worker
  BY <1>5, PublishEffect
<1>6. UNCHANGED vars => UNCHANGED worker
  BY DEF vars
<1>7. QED
  BY <1>1, <1>2, <1>3, <1>4, <1>5, <1>6, StepCases

(* A loop that handles a message of the saga is at one of its calls. *)
LEMMA HandlingAt ==
    ASSUME TypeOK, PcsFit, NEW a \in Auths, NEW w \in HandlingOf(a)
    PROVE  /\ w \in Workers /\ worker[w] # Idle
           /\ worker[w].pc \in {"capture", "tx", "retry", "undo", "cancel"}
           /\ Msg(w).topic \in SagaTopics /\ Msg(w).auth = a
           /\ Msg(w).consignment \in Consignments
           /\ worker[w].pc \in {"capture", "tx", "retry"} => Msg(w) \in AuthorisedMessages
           /\ worker[w].pc \in {"undo", "cancel"} => Msg(w) \in FailedMessages
<1>1. w \in Workers /\ worker[w].pc \notin {"idle", "commit"} /\ Carries(Msg(w), a)
  BY DEF HandlingOf
<1>2. worker[w] # Idle /\ worker[w].pc \in WorkerPcs /\ Msg(w) \in Messages
      /\ Msg(w).consignment \in Consignments
  BY <1>1, BusyWorker
<1>3. Msg(w).topic \in SagaTopics /\ Msg(w).auth = a
  BY <1>1 DEF Carries
<1>4. worker[w].pc \in {"capture", "tx", "retry", "undo", "cancel"}
  BY <1>1, <1>2, <1>3 DEF PcsFit, PcFits, WorkerPcs
<1>5. QED
  BY <1>1, <1>2, <1>3, <1>4, TopicsDiffer DEF PcsFit, PcFits, SagaTopics

(* What becomes of the one who looks after a's payment. *)
LEMMA CarrierStays ==
    ASSUME SagaInv, \A b \in Auths : Anchor(b), [Next]_vars, NEW a \in Auths,
           NEW c \in Consignments, ConfirmedOnce(c), Paid(a, c), Paid(a, c)',
           NEW w \in HandlingOf(a), Msg(w).consignment = c, worker[w].pc # "cancel"
    PROVE  Carried(a, c)'
<1> USE DEF kafkaVars
<1>0. TypeOK /\ PcsFit /\ MessagesKnown /\ c # NoID
  BY DEF SagaInv
<1>1. /\ w \in Workers /\ worker[w] # Idle
      /\ worker[w].pc \in {"capture", "tx", "retry", "undo"}
      /\ Msg(w).topic \in SagaTopics /\ Msg(w).auth = a
      /\ worker[w].pc \in {"capture", "tx", "retry"} => Msg(w) \in AuthorisedMessages
      /\ worker[w].pc = "undo" => Msg(w) \in FailedMessages
  BY <1>0, HandlingAt
<1>2. PICK q : q = Msg(w)
  OBVIOUS
<1>3. q.consignment = c /\ Carries(q, a)
  BY <1>1, <1>2 DEF Carries
<1>4. ASSUME NEW label \in {"capture", "tx", "retry", "undo"},
             worker'[w].pc = label, Msg(w)' = q
      PROVE  Carried(a, c)'
  BY <1>1, <1>3, <1>4 DEF Carried, HandlingOf, Carries
<1>5. CASE worker'[w] = worker[w]
  BY <1>1, <1>2, <1>4, <1>5 DEF Msg
<1>6. CASE CapturePayment(w)
  <2>1. PICK label \in {"tx", "retry"}, captured \in {TRUE, worker[w].captured} :
            worker'[w] = [pc |-> label, msg |-> q, captured |-> captured]
    BY <1>0, <1>1, <1>2, <1>6, CaptureEffect
  <2>2. worker'[w].pc = label /\ Msg(w)' = q
    BY <2>1 DEF Msg
  <2>3. QED
    BY <1>4, <2>2
<1>7. CASE RecordPayment(w)
  <2>1. CASE outbox' = outbox \cup {Notice(PaymentCapturedTopic, c)}
    BY <2>1 DEF Carried, Recorded
  <2>2. CASE Moves(w, "retry")
    <3>1. worker'[w].pc = "retry" /\ Msg(w)' = q
      BY <1>2, <2>2 DEF Moves, Msg
    <3>2. QED
      BY <1>4, <3>1
  <2>3. QED
    BY <1>0, <1>1, <1>7, <2>1, <2>2, RecordEffect
<1>8. CASE ScheduleRetry(w)
  <2>1. worker[w].pc = "retry" /\ worker[w].captured \in BOOLEAN
    BY <1>0, <1>1, <1>8, ScheduleEffect, BusyWorker
  <2>2. PICK r : r = Retry(q, worker[w].captured)
    OBVIOUS
  <2>3. r.consignment = c /\ Carries(r, a)
    BY <1>1, <1>2, <1>3, <2>1, <2>2, RetryEffect DEF Carries, SagaTopics
  <2>4. r \in outbox' \/ q \in toConsume' \/ c \in passedOver'
    BY <1>0, <1>1, <1>2, <1>8, <2>2, ScheduleEffect
  <2>5. QED
    BY <1>3, <2>3, <2>4 DEF Carried, Carries
<1>9. CASE UndoPayment(w)
  <2>1. CASE UNCHANGED payments /\ alerts' = alerts \cup {c}
    BY <2>1 DEF Carried
  <2>2. CASE CanVoid(Msg(w).auth)
    BY <1>1, <2>2 DEF CanVoid, Status, Paid
  <2>3. CASE Refund(c)
    <3>1. PICK b \in Auths : payments[b].captureID = c /\ SetStatus(b, "refunded")
      BY <2>3 DEF Refund, Anchored
    <3>2. Starts(a, c) /\ Starts(b, c)
      BY <1>0, <3>1 DEF Anchor, Paid
    <3>3. a = b
      BY <3>2 DEF ConfirmedOnce
    <3>4. payments'[a].status = "refunded"
      <4>1. payments'[b] = [status |-> "refunded", captureID |-> payments[b].captureID]
        BY <1>0, <3>1, PaymentKept
      <4>2. QED
        BY <3>3, <4>1
    <3>5. QED
      BY <3>4 DEF Paid
  <2>4. QED
    BY <1>0, <1>1, <1>9, <2>1, <2>2, <2>3, UndoEffect
<1>10. CASE ReadConsignment(w) \/ CommitMessage(w)
  BY <1>0, <1>1, <1>10, ReadEffect, CommitEffect
<1>11. CASE Cancel(w) \/ Confirm(w)
  <2>1. worker[w].pc \in {"cancel", "confirm"}
    BY <1>0, <1>1, <1>11, SetStatusEffect DEF Cancel, Confirm
  <2>2. QED
    BY <1>1, <2>1
<1>12. CASE Crash(w)
  <2>1. q \in toConsume'
    BY <1>0, <1>1, <1>2, <1>12, CrashEffect
  <2>2. QED
    BY <1>3, <2>1 DEF Carried, Carries
<1>13. QED
  BY <1>0, <1>1, <1>5, <1>6, <1>7, <1>8, <1>9, <1>10, <1>11, <1>12, HandlerFate

LEMMA CarriedStep ==
    ASSUME SagaInv, CarriedInv, [Next]_vars
    PROVE  CarriedInv'
<1>0. TypeOK /\ PcsFit /\ MessagesKnown /\ \A b \in Auths : Anchor(b)
  BY DEF SagaInv, CarriedInv
<1>1. ASSUME NEW a \in Auths
      PROVE  Anchor(a)'
  <2>1. CASE payments'[a].captureID = payments[a].captureID
    <3>1. PICK d : d = payments[a].captureID
      OBVIOUS
    <3>2. d # NoID => Starts(a, d)'
      BY <1>0, <3>1, StartsStays DEF Anchor
    <3>3. QED
      BY <2>1, <3>1, <3>2 DEF Anchor
  <2>2. ASSUME NEW w \in Workers, CapturePayment(w), Msg(w).auth = a,
               payments'[a] = [status |-> "captured", captureID |-> Msg(w).consignment]
        PROVE  Anchor(a)'
    <3>1. worker[w].pc = "capture"
      BY <1>0, <2>2, CaptureEffect
    <3>2. Msg(w) \in AuthorisedMessages /\ Known(Msg(w))
      BY <1>0, <3>1, BusyWorker, TopicsDiffer DEF PcsFit, PcFits, MessagesKnown
    <3>3. PICK d : d = Msg(w).consignment
      OBVIOUS
    <3>4. Starts(a, d)
      BY <2>2, <3>2, <3>3 DEF Known, AuthorisedMessages, SagaTopics
    <3>5. Starts(a, d)' /\ payments'[a].captureID = d
      BY <1>0, <2>2, <3>3, <3>4, StartsStays
    <3>6. QED
      BY <3>5 DEF Anchor
  <2>3. \/ payments'[a].captureID = payments[a].captureID
        \/ \E w \in Workers : /\ CapturePayment(w) /\ Msg(w).auth = a
                              /\ payments'[a] = [status |-> "captured",
                                                 captureID |-> Msg(w).consignment]
    <3>1. (\E w \in Workers : payments'[a] = [status |-> "refunded",
                                              captureID |-> payments[a].captureID])
              => payments'[a].captureID = payments[a].captureID
      OBVIOUS
    <3>2. QED
      BY <1>0, <3>1, OnePayment
  <2>4. QED
    BY <2>1, <2>2, <2>3
<1>2. ASSUME NEW a \in Auths, NEW c \in Consignments, ConfirmedOnce(c)', Paid(a, c)'
      PROVE  Carried(a, c)'
  <2>1. ConfirmedOnce(c)
    BY <1>0, <1>2, OnceStays
  <2>2. CASE ~ Paid(a, c)
    <3>1. PICK w \in Workers : /\ CapturePayment(w) /\ Msg(w).auth = a
                               /\ payments'[a] = [status |-> "captured",
                                                  captureID |-> Msg(w).consignment]
      <4>1. /\ payments'[a].status = "captured" /\ payments'[a].captureID = c
            /\ payments'[a] # payments[a]
        BY <1>2, <2>2 DEF Paid
      <4>2. \A id : payments'[a] # [status |-> "refunded", captureID |-> id]
        BY <4>1
      <4>3. QED
        BY <1>0, <4>1, <4>2, OnePayment
    <3>2. PICK q : q = Msg(w)
      OBVIOUS
    <3>3. worker[w].pc = "capture" /\ q.consignment = c /\ q.auth = a
      <4>1. worker[w].pc = "capture"
        BY <1>0, <3>1, CaptureEffect
      <4>2. payments'[a].captureID = q.consignment /\ q.auth = a
        BY <3>1, <3>2
      <4>3. QED
        BY <1>2, <4>1, <4>2 DEF Paid
    <3>4. q.topic \in SagaTopics
      BY <3>2, <3>3, <1>0 DEF PcsFit, PcFits, SagaTopics
    <3>5. PICK label \in {"tx", "retry"}, captured \in {TRUE, worker[w].captured} :
              worker'[w] = [pc |-> label, msg |-> q, captured |-> captured]
      BY <1>0, <3>1, <3>2, CaptureEffect
    <3>6. worker'[w].pc = label /\ Msg(w)' = q
      BY <3>5 DEF Msg
    <3>7. QED
      BY <3>3, <3>4, <3>6 DEF Carried, HandlingOf, Carries
  <2>3. CASE Paid(a, c)
    <3>1. Carried(a, c)
      BY <2>1, <2>3 DEF CarriedInv, CarriedAt
    <3>2. CASE Recorded(c)
      BY <1>0, <3>2, RecordedStays DEF Carried
    <3>3. CASE c \in alerts \cup passedOver
      BY <1>0, <3>3, RecordsStay DEF Carried
    <3>4. ASSUME NEW m \in outbox \cup toConsume, m.consignment = c, Carries(m, a)
          PROVE  Carried(a, c)'
      <4>1. CASE m \in outbox' \cup toConsume'
        BY <3>4, <4>1 DEF Carried, Carries
      <4>2. ASSUME NEW w \in Workers, Receive(w, m), m \in toConsume
            PROVE  Carried(a, c)'
        <5>1. worker'[w] = [pc |-> FirstStep(m), msg |-> m, captured |-> AlreadyCaptured(m)]
          BY <1>0, <4>2, ReceiveEffect
        <5>2. worker'[w].pc = FirstStep(m) /\ Msg(w)' = m
          BY <5>1 DEF Msg
        <5>3. FirstStep(m) \in {"tx", "capture", "undo"}
          BY <1>0, <3>4, <4>2, ReceiveEffect DEF Carries, SagaTopics
        <5>4. QED
          BY <3>4, <5>2, <5>3 DEF Carried, HandlingOf, Carries
      <4>3. QED
        BY <1>0, <3>4, <4>1, <4>2, MessageFate DEF Carries
    <3>5. ASSUME NEW w \in HandlingOf(a), Msg(w).consignment = c, worker[w].pc # "cancel"
          PROVE  Carried(a, c)'
      BY <1>0, <1>2, <2>1, <2>3, <3>5, CarrierStays
    <3>6. QED
      BY <3>1, <3>2, <3>3, <3>4, <3>5 DEF Carried
  <2>4. QED
    BY <2>2, <2>3
<1>3. QED
  BY <1>1, <1>2 DEF CarriedInv, CarriedAt

LEMMA CarriedAlways == Spec => [](SagaInv /\ CarriedInv)
<1>1. Init => CarriedInv
  <2> SUFFICES ASSUME Init PROVE CarriedInv
    OBVIOUS
  <2>1. \A a \in Auths : payments[a].captureID = NoID
    BY DEF Init, NoPayments
  <2>2. QED
    BY <2>1 DEF CarriedInv, CarriedAt, Anchor, Paid
<1>2. CarriedInv /\ SagaInv /\ [Next]_vars => CarriedInv'
  BY CarriedStep
<1>3. QED
  BY <1>1, <1>2, SagaInvAlways, PTL DEF Spec

\* A captured payment of a consignment confirmed once is not lost: when the
\* service has nothing left to do about it, payment.captured has been published,
\* an ALERT logged (handlePaymentAuthorisedEvent's and the DLQ handler's), or a
\* message passed over by the consumer, which is the one way to lose it.
THEOREM CapturedNeverLost == Spec => []CapturedIsPassedOn
<1>1. SagaInv /\ CarriedInv => CapturedIsPassedOn
  <2> SUFFICES ASSUME SagaInv, CarriedInv, NEW c \in Consignments,
                        Captured(c), ConfirmedOnce(c), Quiet(c)
                 PROVE  \/ Notice(PaymentCapturedTopic, c) \in published
                        \/ c \in alerts \cup passedOver
    BY DEF CapturedIsPassedOn
  <2>2. PICK a \in Auths : Paid(a, c)
    BY DEF Captured, Anchored, Status, Paid
  <2>3. Carried(a, c)
    BY <2>2 DEF CarriedInv, CarriedAt
  <2>4. \A m \in outbox \cup toConsume : m.consignment # c
    BY DEF Quiet
  <2>5. Notice(PaymentCapturedTopic, c).consignment = c
    BY DEF Notice
  <2>6. \A w \in HandlingOf(a) : Msg(w).consignment # c
    BY HandlingAt DEF Quiet, SagaInv
  <2>7. QED
    BY <2>3, <2>4, <2>5, <2>6 DEF Carried, Recorded
<1>2. QED
  BY <1>1, CarriedAlways, PTL

-----------------------------------------------------------------------------
(* A consignment reported confirmed is paid for *)

\* Where the confirmation of c that authorised a is: one of the calls that
\* authorise and publish it, a message about a, its handler, or, once it has
\* ended, payment.captured.
Token(a, c) ==
    {<<"call", b>> : b \in {x \in {a} : call[x].pc \in {"authorise", "publish"}}}
    \cup {<<"outbox", m>> : m \in {x \in outbox : Carries(x, a)}}
    \cup {<<"topic", m>> : m \in {x \in toConsume : Carries(x, a)}}
    \cup {<<"worker", w>> : w \in HandlingOf(a)}
    \cup {<<"recorded", d>> : d \in {x \in {c} : Recorded(x)}}

AtMostOne(S) == \A x, y \in S : x = y

\* Loop w acts, or its message would make it act, as if a were captured.
KnowsPaid(w) ==
    /\ Msg(w).topic = ConsignmentPaymentAuthorisedTopic
    /\ worker[w].pc = "tx" \/ worker[w].captured \/ Msg(w).captured

Keyed(a) == payments[a].status = "captured" => payments[a].captureID # NoID

\* While nothing is handled twice, the confirmation is in one place, and
\* whoever takes the payment for captured is right, until a failure is told.
OneConfirmation(a, c) ==
    /\ AtMostOne(Token(a, c))
    /\ \A m \in outbox \cup toConsume : Carries(m, a) /\ AlreadyCaptured(m) => Paid(a, c)
    /\ \A w \in HandlingOf(a) : KnowsPaid(w) => Paid(a, c)
    /\ Recorded(c) /\ "failed" \notin told[c] => Paid(a, c)

PaidInv ==
    /\ \A a \in Auths : Keyed(a)
    /\ \A a \in Auths, c \in Consignments :
           Starts(a, c) /\ ConfirmedOnce(c) /\ ~ duplicated => OneConfirmation(a, c)

(* The places, one by one. *)
LEMMA TokenPlaces ==
    ASSUME NEW a \in Auths, NEW c, NEW z
    PROVE  z \in Token(a, c) <=>
               \/ z = <<"call", a>> /\ call[a].pc \in {"authorise", "publish"}
               \/ \E m \in outbox : z = <<"outbox", m>> /\ Carries(m, a)
               \/ \E m \in toConsume : z = <<"topic", m>> /\ Carries(m, a)
               \/ \E w \in HandlingOf(a) : z = <<"worker", w>>
               \/ z = <<"recorded", c>> /\ Recorded(c)
<1>1. z \in {<<"call", b>> : b \in {x \in {a} : call[x].pc \in {"authorise", "publish"}}}
          <=> z = <<"call", a>> /\ call[a].pc \in {"authorise", "publish"}
  OBVIOUS
<1>2. z \in {<<"outbox", m>> : m \in {x \in outbox : Carries(x, a)}}
          <=> \E m \in outbox : z = <<"outbox", m>> /\ Carries(m, a)
  OBVIOUS
<1>3. z \in {<<"topic", m>> : m \in {x \in toConsume : Carries(x, a)}}
          <=> \E m \in toConsume : z = <<"topic", m>> /\ Carries(m, a)
  OBVIOUS
<1>4. z \in {<<"worker", w>> : w \in HandlingOf(a)} <=> \E w \in HandlingOf(a) : z = <<"worker", w>>
  OBVIOUS
<1>5. z \in {<<"recorded", d>> : d \in {x \in {c} : Recorded(x)}}
          <=> z = <<"recorded", c>> /\ Recorded(c)
  OBVIOUS
<1>6. QED
  BY <1>1, <1>2, <1>3, <1>4, <1>5 DEF Token

LEMMA TokenPlacesNext ==
    ASSUME NEW a \in Auths, NEW c, NEW z
    PROVE  z \in Token(a, c)' <=>
               \/ z = <<"call", a>> /\ call'[a].pc \in {"authorise", "publish"}
               \/ \E m \in outbox' : z = <<"outbox", m>> /\ Carries(m, a)
               \/ \E m \in toConsume' : z = <<"topic", m>> /\ Carries(m, a)
               \/ \E w \in HandlingOf(a)' : z = <<"worker", w>>
               \/ z = <<"recorded", c>> /\ Recorded(c)'
<1>1. z \in {<<"call", b>> : b \in {x \in {a} : call'[x].pc \in {"authorise", "publish"}}}
          <=> z = <<"call", a>> /\ call'[a].pc \in {"authorise", "publish"}
  OBVIOUS
<1>2. z \in {<<"outbox", m>> : m \in {x \in outbox' : Carries(x, a)}}
          <=> \E m \in outbox' : z = <<"outbox", m>> /\ Carries(m, a)
  OBVIOUS
<1>3. z \in {<<"topic", m>> : m \in {x \in toConsume' : Carries(x, a)}}
          <=> \E m \in toConsume' : z = <<"topic", m>> /\ Carries(m, a)
  OBVIOUS
<1>4. z \in {<<"worker", w>> : w \in HandlingOf(a)'} <=> \E w \in HandlingOf(a)' : z = <<"worker", w>>
  OBVIOUS
<1>5. z \in {<<"recorded", d>> : d \in {x \in {c} : Recorded(x)'}}
          <=> z = <<"recorded", c>> /\ Recorded(c)'
  OBVIOUS
<1>6. Token(a, c)' =
          {<<"call", b>> : b \in {x \in {a} : call'[x].pc \in {"authorise", "publish"}}}
          \cup {<<"outbox", m>> : m \in {x \in outbox' : Carries(x, a)}}
          \cup {<<"topic", m>> : m \in {x \in toConsume' : Carries(x, a)}}
          \cup {<<"worker", w>> : w \in HandlingOf(a)'}
          \cup {<<"recorded", d>> : d \in {x \in {c} : Recorded(x)'}}
  BY DEF Token, Carries
<1>7. QED
  BY <1>1, <1>2, <1>3, <1>4, <1>5, <1>6

(* The places of the confirmation stay in what they were, or lose one for one. *)
LEMMA TokenStays ==
    ASSUME NEW a \in Auths, NEW c, AtMostOne(Token(a, c)),
           call'[a].pc \in {"authorise", "publish"} => call[a].pc \in {"authorise", "publish"},
           \A m \in outbox' : Carries(m, a) => m \in outbox,
           \A m \in toConsume' : Carries(m, a) => m \in toConsume,
           HandlingOf(a)' \subseteq HandlingOf(a),
           Recorded(c)' => Recorded(c)
    PROVE  AtMostOne(Token(a, c)')
<1>1. \A z : z \in Token(a, c)' => z \in Token(a, c)
  <2>1. SUFFICES ASSUME NEW z \in Token(a, c)' PROVE z \in Token(a, c)
    OBVIOUS
  <2>2. QED
    BY TokenPlaces, TokenPlacesNext
<1>2. QED
  BY <1>1 DEF AtMostOne

LEMMA TokenMoves ==
    ASSUME NEW a \in Auths, NEW c, AtMostOne(Token(a, c)), NEW x \in Token(a, c), NEW y,
           \A z : z \in Token(a, c)' => z = y \/ (z \in Token(a, c) /\ z # x)
    PROVE  AtMostOne(Token(a, c)')
BY DEF AtMostOne

(* The loops that handle a message of a, after a step of loop w. *)
LEMMA HandlingNext ==
    ASSUME TypeOK, NEW a \in Auths, NEW w \in Workers,
           \A v \in Workers \ {w} : worker'[v] = worker[v]
    PROVE  \A v : v # w => (v \in HandlingOf(a)' <=> v \in HandlingOf(a))
BY DEF HandlingOf, Msg, Carries

LEMMA HandlingRests ==
    ASSUME NEW a \in Auths, NEW w \in Workers, worker'[w].pc \in {"idle", "commit"}
    PROVE  w \notin HandlingOf(a)'
BY DEF HandlingOf

LEMMA HandlingMoves ==
    ASSUME NEW a \in Auths, NEW w \in Workers, worker[w].pc \notin {"idle", "commit"},
           NEW q, q = Msg(w), Msg(w)' = q
    PROVE  w \in HandlingOf(a)' => w \in HandlingOf(a)
BY DEF HandlingOf, Carries

(* Who carries the messages of a consignment confirmed once. *)
LEMMA OneAuth ==
    ASSUME NEW a \in Auths, NEW c, Starts(a, c), ConfirmedOnce(c),
           NEW m \in Messages, Known(m), m.topic \in SagaTopics
    PROVE  /\ m.auth = a => m.consignment = c
           /\ m.consignment = c /\ m.auth # NoID => m.auth = a
<1>1. m.auth \in Auths \cup {NoID}
  BY DEF Messages, AuthorisedMessages, FailedMessages, Notices, SagaTopics,
     ConsignmentPaymentAuthorisedTopic, ConsignmentConfirmationFailedTopic,
     ReservationExpiredTopic, ReservationConfirmedTopic, PaymentCapturedTopic
<1>2. m.auth # NoID => Starts(m.auth, m.consignment)
  BY DEF Known
<1>3. a # NoID
  OBVIOUS
<1>4. QED
  BY <1>1, <1>2, <1>3 DEF Starts, ConfirmedOnce

(* Only the transaction of the handler adds payment.captured. *)
LEMMA RecordedByTransaction ==
    ASSUME TypeOK, PcsFit, [Next]_vars, NEW c \in Consignments, Recorded(c)', ~ Recorded(c)
    PROVE  \E w \in Workers : RecordPayment(w) /\ Msg(w).consignment = c
<1> USE DEF kafkaVars
<1> DEFINE n == Notice(PaymentCapturedTopic, c)
<1>0. n \notin outbox \cup published /\ n \in outbox' \cup published'
      /\ n.topic = PaymentCapturedTopic /\ n.consignment = c
  BY DEF Recorded, Notice
<1> HIDE DEF n
<1>1. ASSUME NEW w \in Workers, RecordPayment(w)
      PROVE  Msg(w).consignment = c
  <2>1. n = Notice(PaymentCapturedTopic, Msg(w).consignment)
    BY <1>0, <1>1, RecordEffect
  <2>2. QED
    BY <1>0, <2>1 DEF Notice
<1>2. ASSUME NEW row \in outbox, PublishOutbox(row)
      PROVE  FALSE
  BY <1>0, <1>2, PublishEffect
<1>3. ASSUME NEW d \in Consignments, ReservationExpired(d)
      PROVE  FALSE
  <2>1. n = Notice(ReservationExpiredTopic, d)
    BY <1>0, <1>3, ExpiredEffect
  <2>2. QED
    BY <1>0, <2>1 DEF Notice, ReservationExpiredTopic, PaymentCapturedTopic
<1>4. ASSUME NEW a \in Auths, PublishPaymentAuthorised(a)
      PROVE  FALSE
  <2>1. outbox' = outbox \cup {Authorised(call[a].consignment, a, FALSE, 0)} \/ outbox' = outbox
    BY <1>4, PublishAuthorisedEffect
  <2>2. published' = published
    BY <1>4, PublishAuthorisedEffect
  <2>3. Authorised(call[a].consignment, a, FALSE, 0).topic # PaymentCapturedTopic
    BY DEF Authorised, ConsignmentPaymentAuthorisedTopic, PaymentCapturedTopic
  <2>4. QED
    BY <1>0, <2>1, <2>2, <2>3
<1>5. ASSUME NEW w \in Workers, ScheduleRetry(w)
      PROVE  FALSE
  <2>1. Msg(w) \in AuthorisedMessages /\ worker[w].captured \in BOOLEAN
    BY <1>5, ScheduleEffect, BusyWorker, TopicsDiffer DEF PcsFit, PcFits
  <2>2. Retry(Msg(w), worker[w].captured).topic # PaymentCapturedTopic
    BY <2>1, RetryEffect DEF ConsignmentPaymentAuthorisedTopic, ConsignmentConfirmationFailedTopic,
       PaymentCapturedTopic
  <2>3. QED
    BY <1>0, <1>5, <2>2, ScheduleEffect
<1>6. ASSUME NEW w \in Workers,
             \/ \E m \in toConsume : Receive(w, m)
             \/ CapturePayment(w) \/ UndoPayment(w) \/ ReadConsignment(w)
             \/ CommitMessage(w) \/ Crash(w)
      PROVE  FALSE
  BY <1>0, <1>6, ReceiveEffect, CaptureEffect, UndoEffect, ReadEffect, CommitEffect, CrashEffect
<1>7. ASSUME NEW w \in Workers, Cancel(w) \/ Confirm(w)
      PROVE  FALSE
  BY <1>0, <1>7, SetStatusEffect DEF Cancel, Confirm
<1>8. ASSUME NEW a \in Auths,
             \/ \E d \in Consignments : ConfirmConsignment(a, d)
             \/ AuthorisePayment(a) \/ CancelConsignment(a) \/ VoidPayment(a)
      PROVE  FALSE
  BY <1>0, <1>8, ConfirmEffect, AuthoriseEffect, CancelEffect, VoidEffect
<1>9. ASSUME NEW d \in Consignments,
             CreateConsignment(d) \/ ReservationLapses(d) \/ ReservationSettled(d)
             \/ ReservationAnswers(d)
      PROVE  FALSE
  BY <1>0, <1>9, CreateEffect, LapseEffect, SettledEffect, AnswersEffect
<1>10. UNCHANGED vars => FALSE
  BY <1>0 DEF vars
<1>11. QED
  BY <1>1, <1>2, <1>3, <1>4, <1>5, <1>6, <1>7, <1>8, <1>9, <1>10, StepCases

LEMMA TokenStep ==
    ASSUME SagaInv, [Next]_vars, ~ duplicated', NEW a \in Auths, NEW c \in Consignments,
           Starts(a, c), ConfirmedOnce(c), AtMostOne(Token(a, c))
    PROVE  AtMostOne(Token(a, c)')
<1> USE DEF kafkaVars
<1> DEFINE Goal == AtMostOne(Token(a, c)')
<1>0. /\ TypeOK /\ PcsFit /\ MessagesKnown /\ call[a] # Idle
      /\ \A m \in outbox \cup toConsume : m \in Messages /\ Known(m)
      /\ \A w \in Workers : worker[w] # Idle => Msg(w) \in Messages /\ Known(Msg(w))
  BY BusyWorker DEF SagaInv, MessagesKnown, Starts, TypeOK, InboundMessages
<1>1. UNCHANGED worker => HandlingOf(a)' \subseteq HandlingOf(a)
  BY DEF HandlingOf, Msg, Carries
<1>2. UNCHANGED <<outbox, published>> => (Recorded(c)' => Recorded(c))
  BY DEF Recorded
<1>3. (~ \E w \in Workers : RecordPayment(w) /\ Msg(w).consignment = c)
          => (Recorded(c)' => Recorded(c))
  BY <1>0, RecordedByTransaction
<1>4. ASSUME UNCHANGED <<outbox, toConsume, published, worker>>,
             call'[a].pc \in {"authorise", "publish"} => call[a].pc \in {"authorise", "publish"}
      PROVE  Goal
  BY <1>1, <1>2, <1>4, TokenStays
<1>5. ASSUME NEW b \in Auths, NEW d \in Consignments, ConfirmConsignment(b, d)
      PROVE  Goal
  <2>1. call[b] = Idle /\ \A x \in Auths \ {b} : call'[x] = call[x]
    BY <1>0, <1>5, ConfirmEffect
  <2>2. call'[a] = call[a]
    BY <1>0, <2>1
  <2>3. QED
    BY <1>0, <1>4, <1>5, <2>2, ConfirmEffect
<1>6. ASSUME NEW b \in Auths, AuthorisePayment(b)
      PROVE  Goal
  <2>1. call[b].pc = "authorise" /\ \A x \in Auths \ {b} : call'[x] = call[x]
    BY <1>0, <1>6, AuthoriseEffect DEF CallMoves
  <2>2. call'[a].pc \in {"authorise", "publish"} => call[a].pc \in {"authorise", "publish"}
    BY <2>1
  <2>3. QED
    BY <1>0, <1>4, <1>6, <2>2, AuthoriseEffect
<1>7. ASSUME NEW b \in Auths, CancelConsignment(b) \/ VoidPayment(b)
      PROVE  Goal
  <2>1. PICK label \in {"void", "voidAgain", "cancelAgain", "done"} : CallMoves(b, label)
    BY <1>0, <1>7, CancelEffect, VoidEffect
  <2>2. call'[b].pc = label /\ \A x \in Auths \ {b} : call'[x] = call[x]
    BY <2>1 DEF CallMoves
  <2>3. call'[a].pc \in {"authorise", "publish"} => call[a].pc \in {"authorise", "publish"}
    BY <2>2
  <2>4. QED
    BY <1>0, <1>4, <1>7, <2>3, CancelEffect, VoidEffect
<1>8. ASSUME NEW b \in Auths, PublishPaymentAuthorised(b)
      PROVE  Goal
  <2> DEFINE m == Authorised(call[b].consignment, b, FALSE, 0)
  <2>1. m.auth = b /\ m.topic \in SagaTopics
    BY DEF Authorised, SagaTopics
  <2>2. /\ call[b].pc = "publish"
        /\ outbox' = outbox \cup {m} \/ outbox' = outbox
        /\ UNCHANGED <<toConsume, published, worker>>
        /\ CallMoves(b, "done") \/ CallMoves(b, "cancel")
    BY <1>0, <1>8, PublishAuthorisedEffect
  <2> HIDE DEF m
  <2>3. Recorded(c)' => Recorded(c)
    <3>1. \A w \in Workers : ~ RecordPayment(w)
      <4>1. SUFFICES ASSUME NEW w \in Workers, RecordPayment(w) PROVE FALSE
        OBVIOUS
      <4>2. \E v \in Workers : worker'[v] # worker[v]
        <5>1. worker[w].pc = "tx" /\ \E label \in {"commit", "retry"} : Moves(w, label)
          BY <1>0, <4>1, RecordEffect
        <5>2. worker'[w].pc # "tx"
          BY <5>1 DEF Moves
        <5>3. QED
          BY <5>1, <5>2
      <4>3. QED
        BY <2>2, <4>2
    <3>2. QED
      BY <1>3, <3>1
  <2>4. /\ call'[b].pc \notin {"authorise", "publish"}
        /\ \A x \in Auths \ {b} : call'[x] = call[x]
    BY <2>2 DEF CallMoves
  <2>5. CASE b # a
    <3>1. \A x \in outbox' : Carries(x, a) => x \in outbox
      BY <2>1, <2>2, <2>5 DEF Carries
    <3>2. call'[a] = call[a]
      BY <2>4, <2>5
    <3>3. QED
      BY <1>1, <2>2, <2>3, <3>1, <3>2, TokenStays
  <2>6. CASE b = a
    <3>1. <<"call", a>> \in Token(a, c)
      BY <2>2, <2>6, TokenPlaces
    <3>2. ASSUME NEW z \in Token(a, c)'
          PROVE  z = <<"outbox", m>> \/ (z \in Token(a, c) /\ z # <<"call", a>>)
      <4>1. z # <<"call", a>>
        BY <2>4, <2>6, <3>2, TokenPlacesNext
      <4>2. HandlingOf(a)' \subseteq HandlingOf(a)
        BY <1>1, <2>2
      <4>3. QED
        BY <2>2, <2>3, <3>2, <4>1, <4>2, TokenPlaces, TokenPlacesNext
    <3>3. QED
      BY <3>1, <3>2, TokenMoves
  <2>7. QED
    BY <2>5, <2>6
<1>9. ASSUME NEW row \in outbox, PublishOutbox(row)
      PROVE  Goal
  <2>1. /\ outbox' = outbox \ {row}
        /\ row.topic = PaymentCapturedTopic =>
               published' = published \cup {row} /\ toConsume' = toConsume
        /\ row.topic # PaymentCapturedTopic =>
               toConsume' = toConsume \cup {row} /\ published' = published
        /\ UNCHANGED <<worker, call>>
    BY <1>0, <1>9, PublishEffect
  <2>2. Recorded(c)' => Recorded(c)
    BY <2>1 DEF Recorded
  <2>3. HandlingOf(a)' \subseteq HandlingOf(a)
    BY <1>1, <2>1
  <2>4. CASE ~ Carries(row, a)
    <3>1. \A x \in toConsume' : Carries(x, a) => x \in toConsume
      BY <2>1, <2>4
    <3>2. QED
      BY <2>1, <2>2, <2>3, <3>1, TokenStays
  <2>5. CASE Carries(row, a)
    <3>1. <<"outbox", row>> \in Token(a, c)
      BY <2>5, TokenPlaces
    <3>2. ASSUME NEW z \in Token(a, c)'
          PROVE  z = <<"topic", row>> \/ (z \in Token(a, c) /\ z # <<"outbox", row>>)
      <4>1. z # <<"outbox", row>>
        BY <2>1, <3>2, TokenPlacesNext
      <4>2. toConsume' \subseteq toConsume \cup {row}
        BY <2>1
      <4>3. QED
        BY <2>1, <2>2, <2>3, <3>2, <4>1, <4>2, TokenPlaces, TokenPlacesNext
    <3>3. QED
      BY <3>1, <3>2, TokenMoves
  <2>6. QED
    BY <2>4, <2>5
<1>10. ASSUME NEW d \in Consignments,
              CreateConsignment(d) \/ ReservationLapses(d) \/ ReservationSettled(d)
       PROVE  Goal
  BY <1>0, <1>4, <1>10, CreateEffect, LapseEffect, SettledEffect
<1>11. ASSUME NEW d \in Consignments, ReservationExpired(d)
       PROVE  Goal
  <2>1. /\ toConsume' = toConsume \cup {Notice(ReservationExpiredTopic, d)}
        /\ UNCHANGED <<outbox, worker, call>>
    BY <1>0, <1>11, ExpiredEffect
  <2>2. ~ Carries(Notice(ReservationExpiredTopic, d), a)
    BY DEF Carries, Notice, SagaTopics, ReservationExpiredTopic, ConsignmentPaymentAuthorisedTopic,
       ConsignmentConfirmationFailedTopic
  <2>3. Recorded(c)' => Recorded(c)
    <3>1. published' = published \cup {Notice(ReservationExpiredTopic, d)}
      BY <1>0, <1>11, ExpiredEffect
    <3>2. Notice(ReservationExpiredTopic, d) # Notice(PaymentCapturedTopic, c)
      BY DEF Notice, ReservationExpiredTopic, PaymentCapturedTopic
    <3>3. QED
      BY <2>1, <3>1, <3>2 DEF Recorded
  <2>4. QED
    BY <1>1, <2>1, <2>2, <2>3, TokenStays
<1>12. ASSUME NEW d \in Consignments, ReservationAnswers(d)
       PROVE  Goal
  <2>1. /\ \/ toConsume' = toConsume \cup {Notice(ReservationConfirmedTopic, d)}
           \/ toConsume' = toConsume \cup {Failed(d, NoID, TRUE)}
        /\ UNCHANGED <<outbox, published, worker, call>>
    BY <1>0, <1>12, AnswersEffect
  <2>2. ~ Carries(Notice(ReservationConfirmedTopic, d), a)
    BY DEF Carries, Notice, SagaTopics, ReservationConfirmedTopic,
       ConsignmentPaymentAuthorisedTopic, ConsignmentConfirmationFailedTopic
  <2>3. ~ Carries(Failed(d, NoID, TRUE), a)
    <3>1. Failed(d, NoID, TRUE).auth = NoID
      BY DEF Failed
    <3>2. QED
      BY <3>1 DEF Carries
  <2>4. QED
    BY <1>1, <1>2, <2>1, <2>2, <2>3, TokenStays
<1>13. ASSUME NEW w \in Workers, NEW m \in toConsume, Receive(w, m)
       PROVE  Goal
  <2>1. /\ toConsume' = toConsume \ {m}
        /\ worker'[w] = [pc |-> FirstStep(m), msg |-> m, captured |-> AlreadyCaptured(m)]
        /\ \A v \in Workers \ {w} : worker'[v] = worker[v]
        /\ UNCHANGED <<outbox, published, call>>
    BY <1>0, <1>13, ReceiveEffect
  <2>2. Msg(w)' = m
    BY <2>1 DEF Msg
  <2>3. \A v : v # w => (v \in HandlingOf(a)' <=> v \in HandlingOf(a))
    BY <1>0, <2>1, HandlingNext
  <2>4. CASE ~ Carries(m, a)
    <3>1. w \notin HandlingOf(a)'
      BY <2>2, <2>4 DEF HandlingOf, Carries
    <3>2. HandlingOf(a)' \subseteq HandlingOf(a)
      BY <2>3, <3>1
    <3>3. QED
      BY <1>2, <2>1, <3>2, TokenStays
  <2>5. CASE Carries(m, a)
    <3>1. <<"topic", m>> \in Token(a, c)
      BY <2>5, TokenPlaces
    <3>2. ASSUME NEW z \in Token(a, c)'
          PROVE  z = <<"worker", w>> \/ (z \in Token(a, c) /\ z # <<"topic", m>>)
      <4>1. z # <<"topic", m>>
        BY <2>1, <3>2, TokenPlacesNext
      <4>2. Recorded(c)' => Recorded(c)
        BY <1>2, <2>1
      <4>3. QED
        BY <2>1, <2>3, <3>2, <4>1, <4>2, TokenPlaces, TokenPlacesNext
    <3>3. QED
      BY <3>1, <3>2, TokenMoves
  <2>6. QED
    BY <2>4, <2>5
<1>14. ASSUME NEW w \in Workers, worker[w].pc \notin {"idle", "commit"},
              \A v \in Workers \ {w} : worker'[v] = worker[v],
              Msg(w)' = Msg(w) \/ worker'[w] = Idle,
              UNCHANGED <<outbox, toConsume, published, call>>
       PROVE  Goal
  <2>1. \A v : v # w => (v \in HandlingOf(a)' <=> v \in HandlingOf(a))
    BY <1>0, <1>14, HandlingNext
  <2>2. w \in HandlingOf(a)' => w \in HandlingOf(a)
    BY <1>14, HandlingMoves, HandlingRests DEF Idle
  <2>3. HandlingOf(a)' \subseteq HandlingOf(a)
    BY <2>1, <2>2
  <2>4. QED
    BY <1>2, <1>14, <2>3, TokenStays
<1>15. ASSUME NEW w \in Workers, CapturePayment(w)
       PROVE  Goal
  <2>1. PICK label \in {"tx", "retry"}, captured \in {TRUE, worker[w].captured} :
            worker'[w] = [pc |-> label, msg |-> Msg(w), captured |-> captured]
    BY <1>0, <1>15, CaptureEffect
  <2>2. Msg(w)' = Msg(w)
    BY <2>1 DEF Msg
  <2>3. worker[w].pc = "capture"
    BY <1>0, <1>15, CaptureEffect
  <2>4. /\ \A v \in Workers \ {w} : worker'[v] = worker[v]
        /\ UNCHANGED <<outbox, toConsume, published, call>>
    BY <1>0, <1>15, CaptureEffect
  <2>5. QED
    BY <1>14, <2>2, <2>3, <2>4
<1>16. ASSUME NEW w \in Workers, UndoPayment(w)
       PROVE  Goal
  <2>1. worker[w].pc = "undo" /\ Moves(w, "cancel") /\ UNCHANGED <<outbox, toConsume, published, call>>
    BY <1>0, <1>16, UndoEffect
  <2>2. Msg(w)' = Msg(w) /\ \A v \in Workers \ {w} : worker'[v] = worker[v]
    BY <2>1 DEF Moves, Msg
  <2>3. QED
    BY <1>14, <2>1, <2>2
\* The loop's message comes back, or the loop goes on.
<1>17. ASSUME NEW w \in Workers, worker[w].pc \notin {"idle", "commit"}, Rests(w),
              ReturnsOrPassesOver(w), UNCHANGED <<outbox, published, call>>
       PROVE  Goal
  <2>1. /\ \A v \in Workers \ {w} : worker'[v] = worker[v]
        /\ worker'[w] = Idle
        /\ toConsume' \subseteq toConsume \cup {Msg(w)}
    BY <1>17 DEF Rests, ReturnsOrPassesOver
  <2>2. /\ \A v : v # w => (v \in HandlingOf(a)' <=> v \in HandlingOf(a))
        /\ w \notin HandlingOf(a)'
    BY <1>0, <2>1, HandlingNext, HandlingRests DEF Idle
  <2>3. Recorded(c)' => Recorded(c)
    BY <1>2, <1>17
  <2>4. CASE ~ Carries(Msg(w), a)
    <3>1. \A x \in toConsume' : Carries(x, a) => x \in toConsume
      BY <2>1, <2>4
    <3>2. QED
      BY <1>17, <2>2, <2>3, <3>1, TokenStays
  <2>5. CASE Carries(Msg(w), a)
    <3>1. <<"worker", w>> \in Token(a, c)
      BY <1>17, <2>5, TokenPlaces DEF HandlingOf
    <3>2. ASSUME NEW z \in Token(a, c)'
          PROVE  z = <<"topic", Msg(w)>> \/ (z \in Token(a, c) /\ z # <<"worker", w>>)
      <4>1. z # <<"worker", w>>
        BY <2>2, <3>2, TokenPlacesNext
      <4>2. QED
        BY <1>17, <2>1, <2>2, <2>3, <3>2, <4>1, TokenPlaces, TokenPlacesNext
    <3>3. QED
      BY <3>1, <3>2, TokenMoves
  <2>6. QED
    BY <2>4, <2>5
<1>18. ASSUME NEW w \in Workers, NEW label, worker[w].pc \notin {"idle", "commit"},
              Moves(w, label), UNCHANGED <<outbox, toConsume, published, call>>
       PROVE  Goal
  <2>1. Msg(w)' = Msg(w) /\ \A v \in Workers \ {w} : worker'[v] = worker[v]
    BY <1>18 DEF Moves, Msg
  <2>2. QED
    BY <1>14, <1>18, <2>1
<1>19. ASSUME NEW w \in Workers, ReadConsignment(w)
       PROVE  Goal
  BY <1>0, <1>17, <1>18, <1>19, ReadEffect
<1>20. ASSUME NEW w \in Workers, Cancel(w) \/ Confirm(w)
       PROVE  Goal
  <2>1. PICK label \in {"cancel", "confirm"}, s \in {"cancelled", "confirmed"} :
            SetStatusTo(w, label, s)
    BY <1>20 DEF Cancel, Confirm
  <2>2. QED
    BY <1>0, <1>17, <1>18, <2>1, SetStatusEffect
<1>21. ASSUME NEW w \in Workers, CommitMessage(w)
       PROVE  Goal
  <2>1. Rests(w) /\ UNCHANGED <<outbox, toConsume, published, call>>
    BY <1>0, <1>21, CommitEffect
  <2>2. /\ \A v \in Workers \ {w} : worker'[v] = worker[v]
        /\ worker'[w] = Idle
    BY <2>1 DEF Rests
  <2>3. /\ \A v : v # w => (v \in HandlingOf(a)' <=> v \in HandlingOf(a))
        /\ w \notin HandlingOf(a)'
    BY <1>0, <2>2, HandlingNext, HandlingRests DEF Idle
  <2>4. HandlingOf(a)' \subseteq HandlingOf(a)
    BY <2>3
  <2>5. QED
    BY <1>2, <2>1, <2>4, TokenStays
<1>22. ASSUME NEW w \in Workers, Crash(w)
       PROVE  FALSE
  BY <1>0, <1>22, CrashEffect
\* The transaction: the confirmation goes on in payment.captured.
<1>23. ASSUME NEW w \in Workers, RecordPayment(w)
       PROVE  Goal
  <2>1. worker[w].pc = "tx"
    BY <1>0, <1>23, RecordEffect
  <2>2. CASE Moves(w, "retry") /\ UNCHANGED outbox
    BY <1>0, <1>18, <1>23, <2>1, <2>2, RecordEffect
  <2>3. CASE Moves(w, "commit") /\ outbox' = outbox \cup {Notice(PaymentCapturedTopic, Msg(w).consignment)}
    <3>1. UNCHANGED <<toConsume, published, call>>
      BY <1>0, <1>23, RecordEffect
    <3>2. /\ \A v \in Workers \ {w} : worker'[v] = worker[v]
          /\ worker'[w].pc = "commit"
      BY <2>3 DEF Moves
    <3>3. /\ \A v : v # w => (v \in HandlingOf(a)' <=> v \in HandlingOf(a))
          /\ w \notin HandlingOf(a)'
      BY <1>0, <3>2, HandlingNext, HandlingRests
    <3>4. \A x \in outbox' : Carries(x, a) => x \in outbox
      <4>1. ~ Carries(Notice(PaymentCapturedTopic, Msg(w).consignment), a)
        BY DEF Carries, Notice, SagaTopics, PaymentCapturedTopic,
           ConsignmentPaymentAuthorisedTopic, ConsignmentConfirmationFailedTopic
      <4>2. QED
        BY <2>3, <4>1
    <3>5. Msg(w) \in AuthorisedMessages /\ Msg(w).topic \in SagaTopics /\ Msg(w).auth # NoID
          /\ Known(Msg(w)) /\ Msg(w) \in Messages
      BY <1>0, <2>1, BusyWorker, TopicsDiffer DEF PcsFit, PcFits, SagaTopics, AuthorisedMessages
    <3>6. CASE Msg(w).auth = a
      <4>1. <<"worker", w>> \in Token(a, c)
        BY <2>1, <3>5, <3>6, TokenPlaces DEF HandlingOf, Carries
      <4>2. ASSUME NEW z \in Token(a, c)'
            PROVE  z = <<"recorded", c>> \/ (z \in Token(a, c) /\ z # <<"worker", w>>)
        <5>1. z # <<"worker", w>>
          BY <3>3, <4>2, TokenPlacesNext
        <5>2. QED
          BY <3>1, <3>3, <3>4, <4>2, <5>1, TokenPlaces, TokenPlacesNext
      <4>3. QED
        BY <4>1, <4>2, TokenMoves
    <3>7. CASE Msg(w).auth # a
      <4>1. Msg(w).consignment # c
        BY <3>5, <3>7, OneAuth
      <4>2. Recorded(c)' => Recorded(c)
        BY <2>3, <3>1, <4>1 DEF Recorded, Notice
      <4>3. HandlingOf(a)' \subseteq HandlingOf(a)
        BY <3>3
      <4>4. QED
        BY <3>1, <3>4, <4>2, <4>3, TokenStays
    <3>8. QED
      BY <3>6, <3>7
  <2>4. QED
    BY <1>0, <1>23, <2>2, <2>3, RecordEffect
\* The next attempt, or the DLQ: the confirmation goes on in the outbox.
<1>24. ASSUME NEW w \in Workers, ScheduleRetry(w)
       PROVE  Goal
  <2>1. worker[w].pc = "retry"
    BY <1>0, <1>24, ScheduleEffect
  <2>2. CASE Rests(w) /\ ReturnsOrPassesOver(w) /\ UNCHANGED outbox
    BY <1>0, <1>17, <1>24, <2>1, <2>2, ScheduleEffect
  <2> DEFINE m == Retry(Msg(w), worker[w].captured)
  <2>3. CASE Moves(w, "commit") /\ outbox' = outbox \cup {m} /\ UNCHANGED toConsume
    <3>1. UNCHANGED <<toConsume, published, call>>
      BY <1>0, <1>24, <2>3, ScheduleEffect
    <3>2. /\ \A v \in Workers \ {w} : worker'[v] = worker[v]
          /\ worker'[w].pc = "commit"
      BY <2>3 DEF Moves
    <3>3. /\ \A v : v # w => (v \in HandlingOf(a)' <=> v \in HandlingOf(a))
          /\ w \notin HandlingOf(a)'
      BY <1>0, <3>2, HandlingNext, HandlingRests
    <3>4. Msg(w) \in AuthorisedMessages /\ worker[w].captured \in BOOLEAN
          /\ Msg(w).topic \in SagaTopics
      BY <1>0, <2>1, BusyWorker, TopicsDiffer DEF PcsFit, PcFits, SagaTopics
    <3>5. m.topic # PaymentCapturedTopic /\ m.auth = Msg(w).auth
      BY <3>4, RetryEffect DEF ConsignmentPaymentAuthorisedTopic,
         ConsignmentConfirmationFailedTopic, PaymentCapturedTopic
    <3>6. outbox' = outbox \cup {m}
      BY <2>3
    <3> HIDE DEF m
    <3>7. Recorded(c)' => Recorded(c)
      BY <3>1, <3>5, <3>6 DEF Recorded, Notice
    <3>8. CASE Msg(w).auth = a
      <4>1. <<"worker", w>> \in Token(a, c)
        BY <2>1, <3>4, <3>8, TokenPlaces DEF HandlingOf, Carries
      <4>2. ASSUME NEW z \in Token(a, c)'
            PROVE  z = <<"outbox", m>> \/ (z \in Token(a, c) /\ z # <<"worker", w>>)
        <5>1. z # <<"worker", w>>
          BY <3>3, <4>2, TokenPlacesNext
        <5>2. QED
          BY <3>1, <3>3, <3>6, <3>7, <4>2, <5>1, TokenPlaces, TokenPlacesNext
      <4>3. QED
        BY <4>1, <4>2, TokenMoves
    <3>9. CASE Msg(w).auth # a
      <4>1. \A x \in outbox' : Carries(x, a) => x \in outbox
        BY <3>5, <3>6, <3>9 DEF Carries
      <4>2. HandlingOf(a)' \subseteq HandlingOf(a)
        BY <3>3
      <4>3. QED
        BY <3>1, <3>7, <4>1, <4>2, TokenStays
    <3>10. QED
      BY <3>8, <3>9
  <2>4. QED
    BY <1>0, <1>24, <2>2, <2>3, ScheduleEffect
<1>25. CASE UNCHANGED vars
  BY <1>4, <1>25 DEF vars
<1>26. QED
  BY <1>5, <1>6, <1>7, <1>8, <1>9, <1>10, <1>11, <1>12, <1>13, <1>15, <1>16, <1>19, <1>20, <1>21,
     <1>22, <1>23, <1>24, <1>25, StepCases

LEMMA KeyedStep ==
    ASSUME SagaInv, [Next]_vars, NEW a \in Auths, Keyed(a)
    PROVE  Keyed(a)'
<1>1. TypeOK /\ PcsFit
  BY DEF SagaInv
<1>2. ASSUME NEW w \in Workers, CapturePayment(w)
      PROVE  Msg(w).consignment # NoID
  <2>1. worker[w].pc = "capture"
    BY <1>1, <1>2, CaptureEffect
  <2>2. QED
    BY <1>1, <2>1, BusyWorker
<1>3. CASE payments'[a] = payments[a]
  BY <1>3 DEF Keyed
<1>4. CASE payments'[a].status # "captured"
  BY <1>4 DEF Keyed
<1>5. ASSUME NEW w \in Workers, CapturePayment(w),
             payments'[a] = [status |-> "captured", captureID |-> Msg(w).consignment]
      PROVE  Keyed(a)'
  <2>1. payments'[a].captureID = Msg(w).consignment
    BY <1>5
  <2>2. QED
    BY <1>2, <1>5, <2>1 DEF Keyed
<1>6. ASSUME payments'[a] = [status |-> "refunded", captureID |-> payments[a].captureID]
      PROVE  payments'[a].status # "captured"
  BY <1>6
<1>7. QED
  BY <1>1, <1>3, <1>4, <1>5, <1>6, OnePayment

(* A payment stays captured but for the handler that refunds it: of a failure of *)
(* this confirmation, or of one told by the reservation service.                 *)
LEMMA PaidStays ==
    ASSUME SagaInv, [Next]_vars, NEW a \in Auths, NEW c \in Consignments,
           Starts(a, c), ConfirmedOnce(c), Paid(a, c)
    PROVE  \/ Paid(a, c)'
           \/ "failed" \in told[c] /\ Recorded(c)
           \/ \E w \in HandlingOf(a) : worker[w].pc = "undo"
<1>0. TypeOK /\ PcsFit /\ MessagesKnown /\ RecordInv
  BY DEF SagaInv
<1>1. CASE payments'[a] = payments[a]
  BY <1>1 DEF Paid
<1>2. ASSUME NEW w \in Workers, CapturePayment(w), Msg(w).auth = a,
             payments'[a] = [status |-> "captured", captureID |-> Msg(w).consignment]
      PROVE  Paid(a, c)'
  <2>1. worker[w].pc = "capture" /\ worker[w] # Idle
    BY <1>0, <1>2, CaptureEffect, BusyWorker
  <2>2. Msg(w) \in Messages /\ Known(Msg(w)) /\ Msg(w).topic \in SagaTopics
    BY <1>0, <2>1, BusyWorker DEF MessagesKnown, PcsFit, PcFits, SagaTopics
  <2>3. Msg(w).consignment = c
    BY <1>2, <2>2, OneAuth
  <2>4. QED
    BY <1>2, <2>3 DEF Paid
<1>3. ASSUME NEW w \in Workers, UndoPayment(w), payments[a].captureID = Msg(w).consignment
      PROVE  \/ "failed" \in told[c] /\ Recorded(c)
             \/ \E v \in HandlingOf(a) : worker[v].pc = "undo"
  <2>1. worker[w].pc = "undo" /\ worker[w] # Idle
    BY <1>0, <1>3, UndoEffect, BusyWorker
  <2>2. /\ Msg(w) \in Messages /\ Known(Msg(w)) /\ Msg(w).topic \in SagaTopics
        /\ Msg(w).consignment = c
    BY <1>0, <1>3, <2>1, BusyWorker DEF MessagesKnown, RecordInv, SagaTopics, Paid
  <2>3. CASE Msg(w).auth = NoID
    <3>1. "failed" \in told[c]
      BY <2>2, <2>3 DEF Known
    <3>2. QED
      BY <1>0, <3>1 DEF RecordInv, RecordAt, Recorded
  <2>4. CASE Msg(w).auth # NoID
    <3>1. Msg(w).auth = a
      BY <2>2, <2>4, OneAuth
    <3>2. w \in HandlingOf(a)
      BY <2>1, <2>2, <3>1 DEF HandlingOf, Carries
    <3>3. QED
      BY <2>1, <3>2
  <2>5. QED
    BY <2>3, <2>4
<1>4. QED
  BY <1>0, <1>1, <1>2, <1>3, OnePayment DEF Paid

(* So it does while the one confirmation is anywhere else. *)
LEMMA PaidKept ==
    ASSUME SagaInv, [Next]_vars, NEW a \in Auths, NEW c \in Consignments,
           Starts(a, c), ConfirmedOnce(c), Paid(a, c), AtMostOne(Token(a, c)),
           NEW z \in Token(a, c),
           \A w \in HandlingOf(a) : z = <<"worker", w>> => worker[w].pc # "undo",
           z = <<"recorded", c>> => "failed" \notin told[c]
    PROVE  Paid(a, c)'
<1>1. ASSUME "failed" \in told[c], Recorded(c)
      PROVE  FALSE
  <2>1. <<"recorded", c>> \in Token(a, c)
    BY <1>1, TokenPlaces
  <2>2. QED
    BY <1>1, <2>1 DEF AtMostOne
<1>2. ASSUME NEW w \in HandlingOf(a), worker[w].pc = "undo"
      PROVE  FALSE
  <2>1. <<"worker", w>> \in Token(a, c)
    BY TokenPlaces
  <2>2. QED
    BY <1>2, <2>1 DEF AtMostOne
<1>3. QED
  BY <1>1, <1>2, PaidStays

(* A message that goes on with the confirmation is made by the handler of      *)
(* another one, when it retries, or by the call, whose payment is not captured. *)
LEMMA NewAuthorised ==
    ASSUME SagaInv, [Next]_vars, ~ duplicated', NEW m \in outbox' \cup toConsume',
           m \notin outbox \cup toConsume, m.topic = ConsignmentPaymentAuthorisedTopic
    PROVE  \/ \E w \in Workers : /\ ScheduleRetry(w)
                                 /\ Msg(w).auth = m.auth
                                 /\ m.captured => m = Msg(w) \/ worker[w].captured
           \/ \E b \in Auths : PublishPaymentAuthorised(b) /\ m.auth = b /\ ~ m.captured
<1> USE DEF kafkaVars
<1>0. TypeOK /\ PcsFit /\ m.topic = ConsignmentPaymentAuthorisedTopic
  BY DEF SagaInv
<1>1. ASSUME NEW w \in Workers, ScheduleRetry(w)
      PROVE  Msg(w).auth = m.auth /\ (m.captured => m = Msg(w) \/ worker[w].captured)
  <2>1. worker[w].pc = "retry"
    BY <1>0, <1>1, ScheduleEffect
  <2>2. Msg(w) \in AuthorisedMessages /\ worker[w].captured \in BOOLEAN
    BY <1>0, <2>1, BusyWorker, TopicsDiffer DEF PcsFit, PcFits
  <2>3. m = Msg(w) \/ m = Retry(Msg(w), worker[w].captured)
    BY <1>0, <1>1, ScheduleEffect DEF ReturnsOrPassesOver
  <2>4. QED
    BY <1>0, <2>2, <2>3, RetryEffect
<1>2. ASSUME NEW w \in Workers, ReadConsignment(w) \/ Cancel(w) \/ Confirm(w)
      PROVE  FALSE
  <2>1. worker[w].pc \in {"read", "cancel", "confirm"}
    BY <1>2 DEF ReadConsignment, Cancel, Confirm, SetStatusTo
  <2>2. Msg(w).topic # ConsignmentPaymentAuthorisedTopic
    BY <1>0, <2>1 DEF PcsFit, PcFits, SagaTopics
  <2>3. outbox' = outbox /\ toConsume' \subseteq toConsume \cup {Msg(w)}
    BY <1>0, <1>2, ReadEffect, SetStatusEffect DEF Cancel, Confirm, ReturnsOrPassesOver
  <2>4. QED
    BY <1>0, <2>2, <2>3
<1>3. ASSUME NEW w \in Workers, CommitMessage(w) \/ Crash(w)
      PROVE  FALSE
  BY <1>0, <1>3, CommitEffect, CrashEffect
<1>4. ASSUME NEW w \in Workers,
             \/ \E x \in toConsume : Receive(w, x)
             \/ CapturePayment(w) \/ UndoPayment(w)
      PROVE  FALSE
  BY <1>0, <1>4, ReceiveEffect, CaptureEffect, UndoEffect
<1>5. ASSUME NEW w \in Workers, RecordPayment(w)
      PROVE  FALSE
  <2>1. toConsume' = toConsume /\ m = Notice(PaymentCapturedTopic, Msg(w).consignment)
    BY <1>0, <1>5, RecordEffect
  <2>2. QED
    BY <1>0, <2>1 DEF Notice, PaymentCapturedTopic, ConsignmentPaymentAuthorisedTopic
<1>6. ASSUME NEW b \in Auths, PublishPaymentAuthorised(b)
      PROVE  m.auth = b /\ ~ m.captured
  <2>1. /\ outbox' = outbox \cup {Authorised(call[b].consignment, b, FALSE, 0)} \/ outbox' = outbox
        /\ toConsume' = toConsume
    BY <1>0, <1>6, PublishAuthorisedEffect
  <2>2. m = Authorised(call[b].consignment, b, FALSE, 0)
    BY <2>1
  <2>3. QED
    BY <1>0, <2>2 DEF Authorised
<1>7. ASSUME NEW b \in Auths,
             \/ \E d \in Consignments : ConfirmConsignment(b, d)
             \/ AuthorisePayment(b) \/ CancelConsignment(b) \/ VoidPayment(b)
      PROVE  FALSE
  BY <1>0, <1>7, ConfirmEffect, AuthoriseEffect, CancelEffect, VoidEffect
<1>8. ASSUME NEW row \in outbox, PublishOutbox(row)
      PROVE  FALSE
  BY <1>0, <1>8, PublishEffect
<1>9. ASSUME NEW d \in Consignments, ReservationExpired(d)
      PROVE  FALSE
  <2>1. m = Notice(ReservationExpiredTopic, d)
    BY <1>0, <1>9, ExpiredEffect
  <2>2. QED
    BY <1>0, <2>1 DEF Notice, ReservationExpiredTopic, ConsignmentPaymentAuthorisedTopic
<1>10. ASSUME NEW d \in Consignments, ReservationAnswers(d)
       PROVE  FALSE
  <2>1. /\ \/ toConsume' = toConsume \cup {Notice(ReservationConfirmedTopic, d)}
           \/ toConsume' = toConsume \cup {Failed(d, NoID, TRUE)}
        /\ outbox' = outbox
    BY <1>0, <1>10, AnswersEffect
  <2>2. m = Notice(ReservationConfirmedTopic, d) \/ m = Failed(d, NoID, TRUE)
    BY <2>1
  <2>3. QED
    BY <1>0, <2>2 DEF Notice, Failed, ReservationConfirmedTopic,
       ConsignmentConfirmationFailedTopic, ConsignmentPaymentAuthorisedTopic
<1>11. ASSUME NEW d \in Consignments,
              CreateConsignment(d) \/ ReservationLapses(d) \/ ReservationSettled(d)
       PROVE  FALSE
  BY <1>0, <1>11, CreateEffect, LapseEffect, SettledEffect
<1>12. UNCHANGED vars => FALSE
  BY <1>0 DEF vars
<1>13. QED
  BY <1>1, <1>2, <1>3, <1>4, <1>5, <1>6, <1>7, <1>8, <1>9, <1>10, <1>11, <1>12, StepCases

LEMMA OneConfirmationStep ==
    ASSUME SagaInv, [Next]_vars, ~ duplicated', NEW a \in Auths, NEW c \in Consignments,
           Anchor(a), Keyed(a), Starts(a, c), ConfirmedOnce(c), OneConfirmation(a, c)
    PROVE  OneConfirmation(a, c)'
<1>0. /\ TypeOK /\ PcsFit /\ MessagesKnown /\ RecordInv
      /\ \A w \in Workers : worker[w] # Idle => Msg(w) \in Messages /\ Known(Msg(w))
      /\ AtMostOne(Token(a, c))
  BY BusyWorker DEF SagaInv, MessagesKnown, OneConfirmation
<1>1. AtMostOne(Token(a, c)')
  BY <1>0, TokenStep
\* A loop that handles a message of the payment and does not refund it.
<1>2. ASSUME NEW w \in HandlingOf(a), worker[w].pc # "undo", KnowsPaid(w)
      PROVE  Paid(a, c)'
  <2>1. Paid(a, c)
    BY <1>2 DEF OneConfirmation
  <2>2. <<"worker", w>> \in Token(a, c)
    BY TokenPlaces
  <2>3. \A v \in HandlingOf(a) : <<"worker", w>> = <<"worker", v>> => worker[v].pc # "undo"
    BY <1>2
  <2>4. <<"worker", w>> # <<"recorded", c>>
    OBVIOUS
  <2>5. QED
    BY <1>0, <2>1, <2>2, <2>3, <2>4, PaidKept
<1>3. ASSUME NEW m \in outbox \cup toConsume, Carries(m, a), AlreadyCaptured(m)
      PROVE  Paid(a, c)'
  <2>1. Paid(a, c)
    BY <1>3 DEF OneConfirmation
  <2>2. PICK place \in {"outbox", "topic"} : <<place, m>> \in Token(a, c)
    BY <1>3, TokenPlaces
  <2>3. \A v : <<place, m>> # <<"worker", v>> /\ <<place, m>> # <<"recorded", c>>
    BY <2>2
  <2>4. QED
    BY <1>0, <2>1, <2>2, <2>3, PaidKept
<1>4. ASSUME NEW m \in outbox' \cup toConsume', Carries(m, a), AlreadyCaptured(m)
      PROVE  Paid(a, c)'
  <2>1. CASE m \in outbox \cup toConsume
    BY <1>3, <1>4, <2>1
  <2>2. CASE m \notin outbox \cup toConsume
    <3>1. m.auth = a /\ m.auth # NoID /\ m.captured
      BY <1>4 DEF Carries, AlreadyCaptured
    <3>2. PICK w \in Workers : /\ ScheduleRetry(w)
                               /\ Msg(w).auth = m.auth
                               /\ m = Msg(w) \/ worker[w].captured
      BY <1>4, <2>2, <3>1, NewAuthorised DEF AlreadyCaptured
    <3>3. worker[w].pc = "retry"
      BY <1>0, <3>2, ScheduleEffect
    <3>4. Msg(w).topic = ConsignmentPaymentAuthorisedTopic
      BY <1>0, <3>3 DEF PcsFit, PcFits
    <3>5. w \in HandlingOf(a)
      BY <3>1, <3>2, <3>3, <3>4 DEF HandlingOf, Carries, SagaTopics
    <3>6. KnowsPaid(w)
      BY <3>1, <3>2, <3>4 DEF KnowsPaid
    <3>7. QED
      BY <1>2, <3>3, <3>5, <3>6
  <2>3. QED
    BY <2>1, <2>2
<1>5. ASSUME NEW w \in HandlingOf(a)', KnowsPaid(w)'
      PROVE  Paid(a, c)'
  <2>1. w \in Workers /\ worker'[w].pc \notin {"idle", "commit"} /\ worker'[w] # Idle
    BY DEF HandlingOf, Idle
  <2>2. PICK q : q = Msg(w)'
    OBVIOUS
  <2>3. /\ Carries(q, a) /\ q.topic = ConsignmentPaymentAuthorisedTopic
        /\ worker'[w].pc = "tx" \/ worker'[w].captured \/ q.captured
    BY <1>5, <2>2 DEF HandlingOf, KnowsPaid, Carries
  <2>4. ASSUME NEW m \in toConsume, Receive(w, m), Msg(w)' = m
        PROVE  Paid(a, c)'
    <3>1. /\ worker'[w] = [pc |-> FirstStep(m), msg |-> m, captured |-> AlreadyCaptured(m)]
          /\ m.topic = ConsignmentPaymentAuthorisedTopic =>
                 FirstStep(m) = IF AlreadyCaptured(m) THEN "tx" ELSE "capture"
      BY <1>0, <2>1, <2>4, ReceiveEffect
    <3>2. worker'[w].pc = FirstStep(m) /\ worker'[w].captured = AlreadyCaptured(m)
      BY <3>1
    <3>3. m.topic = ConsignmentPaymentAuthorisedTopic /\ Carries(m, a)
      BY <2>2, <2>3, <2>4
    <3>4. AlreadyCaptured(m)
      <4>1. CASE worker'[w].pc = "tx"
        BY <3>1, <3>2, <3>3, <4>1
      <4>2. CASE worker'[w].captured
        BY <3>2, <4>2
      <4>3. CASE q.captured
        BY <2>2, <2>4, <3>3, <4>3 DEF AlreadyCaptured
      <4>4. QED
        BY <2>3, <4>1, <4>2, <4>3
    <3>5. QED
      BY <1>3, <3>3, <3>4
  <2>5. CASE worker[w] # Idle /\ Msg(w)' = Msg(w)
    <3>1. q = Msg(w) /\ Carries(Msg(w), a) /\ Msg(w).topic = ConsignmentPaymentAuthorisedTopic
      BY <2>2, <2>3, <2>5
    <3>2. worker[w].pc \in {"capture", "tx", "retry", "commit"}
      <4>1. worker[w].pc \in WorkerPcs
        BY <1>0, <2>1, <2>5, BusyWorker
      <4>2. QED
        BY <1>0, <2>1, <3>1, <4>1 DEF PcsFit, PcFits, WorkerPcs, SagaTopics
    <3>3. worker[w].pc # "commit" => w \in HandlingOf(a)
      BY <2>1, <3>1, <3>2 DEF HandlingOf
    <3>4. CASE worker'[w] = worker[w]
      <4>1. worker[w].pc # "commit" /\ KnowsPaid(w)
        BY <2>1, <2>3, <3>1, <3>4 DEF KnowsPaid
      <4>2. QED
        BY <1>2, <3>2, <3>3, <4>1
    <3>5. CASE CapturePayment(w)
      <4>1. worker[w].pc = "capture"
        BY <1>0, <2>1, <3>5, CaptureEffect
      <4>2. CASE /\ worker'[w] = [pc |-> "retry", msg |-> Msg(w), captured |-> worker[w].captured]
        <5>1. worker'[w].pc = "retry" /\ worker'[w].captured = worker[w].captured
          BY <4>2
        <5>2. KnowsPaid(w)
          BY <2>3, <3>1, <5>1 DEF KnowsPaid
        <5>3. QED
          BY <1>2, <3>3, <4>1, <5>2
      <4>3. CASE CanCapture(Msg(w).auth) /\ Capture(Msg(w).auth, Msg(w).consignment)
        <5>1. Msg(w).auth = a /\ Msg(w).consignment = c
          BY <1>0, <2>1, <2>5, <3>1, OneAuth DEF Carries
        <5>2. payments \in [Auths -> [status : PaymentStatuses, captureID : PaymentIDs \cup {NoID}]]
          BY <1>0 DEF TypeOK, PaymentsOK
        <5>3. CASE payments[a].status = "authorised"
          <6>1. payments' = [payments EXCEPT ![a] = [status |-> "captured", captureID |-> c]]
            BY <4>3, <5>1, <5>3 DEF Capture, Status
          <6>2. payments'[a] = [status |-> "captured", captureID |-> c]
            BY <5>2, <6>1
          <6>3. QED
            BY <6>2 DEF Paid
        <5>4. CASE payments[a].status = "captured"
          <6>1. payments' = payments
            BY <4>3, <5>1, <5>4 DEF Capture, Status
          <6>2. payments[a].captureID = c
            BY <5>4 DEF Anchor, Keyed, Starts
          <6>3. QED
            BY <5>4, <6>1, <6>2 DEF Paid
        <5>5. QED
          BY <4>3, <5>1, <5>3, <5>4 DEF CanCapture, Status
      <4>4. QED
        BY <1>0, <2>1, <3>5, <4>2, <4>3, CaptureEffect
    <3>6. CASE RecordPayment(w)
      <4>1. worker[w].pc = "tx"
        BY <1>0, <2>1, <3>6, RecordEffect
      <4>2. KnowsPaid(w)
        BY <3>1, <4>1 DEF KnowsPaid
      <4>3. QED
        BY <1>2, <3>3, <4>1, <4>2
    <3>7. CASE ScheduleRetry(w)
      <4>1. Moves(w, "commit") \/ Rests(w)
        BY <1>0, <2>1, <3>7, ScheduleEffect
      <4>2. Moves(w, "commit") => worker'[w].pc = "commit"
        BY DEF Moves
      <4>3. QED
        BY <2>1, <4>1, <4>2 DEF Rests
    <3>8. CASE CommitMessage(w) \/ Crash(w)
      BY <1>0, <2>1, <3>8, CommitEffect, CrashEffect DEF Rests
    <3>9. CASE UndoPayment(w) \/ ReadConsignment(w) \/ Cancel(w) \/ Confirm(w)
      <4>1. worker[w].pc \in {"undo", "read", "cancel", "confirm"}
        BY <3>9 DEF UndoPayment, ReadConsignment, Cancel, Confirm, SetStatusTo
      <4>2. QED
        BY <3>2, <4>1
    <3>10. QED
      BY <1>0, <2>1, <2>5, <3>4, <3>5, <3>6, <3>7, <3>8, <3>9, HandlerFate
  <2>6. QED
    BY <1>0, <2>1, <2>4, <2>5, HandledMessage
<1>6. ASSUME Recorded(c)', "failed" \notin told'[c]
      PROVE  Paid(a, c)'
  <2>1. "failed" \notin told[c]
    BY <1>0, <1>6, ToldStays
  <2>2. CASE Recorded(c)
    <3>1. Paid(a, c) /\ <<"recorded", c>> \in Token(a, c)
      BY <2>1, <2>2, TokenPlaces DEF OneConfirmation
    <3>2. \A v : <<"recorded", c>> # <<"worker", v>>
      OBVIOUS
    <3>3. QED
      BY <1>0, <2>1, <3>1, <3>2, PaidKept
  <2>3. CASE ~ Recorded(c)
    <3>1. PICK w \in Workers : RecordPayment(w) /\ Msg(w).consignment = c
      BY <1>0, <1>6, <2>3, RecordedByTransaction
    <3>2. worker[w].pc = "tx" /\ worker[w] # Idle
      BY <1>0, <3>1, RecordEffect, BusyWorker
    <3>3. /\ Msg(w) \in AuthorisedMessages /\ Known(Msg(w)) /\ Msg(w) \in Messages
          /\ Msg(w).topic = ConsignmentPaymentAuthorisedTopic
      BY <1>0, <3>2, TopicsDiffer DEF PcsFit, PcFits
    <3>4. Msg(w).auth # NoID
      BY <3>3 DEF AuthorisedMessages
    <3>5. Msg(w).auth = a
      BY <3>1, <3>3, <3>4, OneAuth DEF SagaTopics
    <3>6. w \in HandlingOf(a) /\ KnowsPaid(w)
      BY <3>2, <3>3, <3>5 DEF HandlingOf, Carries, SagaTopics, KnowsPaid
    <3>7. QED
      BY <1>2, <3>2, <3>6
  <2>4. QED
    BY <2>2, <2>3
<1>7. \A m \in outbox' \cup toConsume' : (Carries(m, a) /\ AlreadyCaptured(m))' <=>
          Carries(m, a) /\ AlreadyCaptured(m)
  BY DEF Carries, AlreadyCaptured
<1>8. AtMostOne(Token(a, c))' <=> AtMostOne(Token(a, c)')
  BY DEF AtMostOne
<1>9. QED
  BY <1>1, <1>4, <1>5, <1>6, <1>7, <1>8 DEF OneConfirmation

(* Only the client's call starts a confirmation. *)
LEMMA ConfirmationStarts ==
    ASSUME TypeOK, [Next]_vars, NEW a \in Auths, NEW c \in Consignments,
           ~ Starts(a, c), Starts(a, c)'
    PROVE  ConfirmConsignment(a, c)
<1> USE DEF kafkaVars
<1>1. ASSUME NEW b \in Auths, NEW label, CallMoves(b, label), call[b] # Idle
      PROVE  FALSE
  BY <1>1 DEF Starts, CallMoves
<1>2. ASSUME NEW b \in Auths,
             \/ AuthorisePayment(b) \/ PublishPaymentAuthorised(b)
             \/ CancelConsignment(b) \/ VoidPayment(b)
      PROVE  FALSE
  <2>1. call[b].pc # "idle"
    BY <1>2 DEF AuthorisePayment, PublishPaymentAuthorised, CancelConsignment, VoidPayment
  <2>2. call[b] # Idle
    BY <2>1 DEF Idle
  <2>3. \E label : CallMoves(b, label)
    BY <1>2, AuthoriseEffect, PublishAuthorisedEffect, CancelEffect, VoidEffect
  <2>4. QED
    BY <1>1, <2>2, <2>3
<1>3. ASSUME NEW b \in Auths, NEW d \in Consignments, ConfirmConsignment(b, d)
      PROVE  a = b /\ c = d
  <2>1. /\ call'[b] = [pc |-> "authorise", consignment |-> d]
        /\ \A x \in Auths \ {b} : call'[x] = call[x]
    BY <1>3, ConfirmEffect
  <2>2. QED
    BY <2>1 DEF Starts
<1>4. ASSUME UNCHANGED call
      PROVE  FALSE
  BY <1>4 DEF Starts
<1>5. ASSUME NEW d \in Consignments,
             CreateConsignment(d) \/ ReservationLapses(d) \/ ReservationExpired(d)
             \/ ReservationSettled(d) \/ ReservationAnswers(d)
      PROVE  UNCHANGED call
  BY <1>5, CreateEffect, LapseEffect, ExpiredEffect, SettledEffect, AnswersEffect
<1>6. ASSUME NEW row \in outbox, PublishOutbox(row)
      PROVE  UNCHANGED call
  BY <1>6, PublishEffect
<1>7. ASSUME NEW w \in Workers,
             \/ \E m \in toConsume : Receive(w, m)
             \/ CapturePayment(w) \/ RecordPayment(w) \/ ScheduleRetry(w) \/ UndoPayment(w)
             \/ ReadConsignment(w) \/ Cancel(w) \/ Confirm(w) \/ CommitMessage(w) \/ Crash(w)
      PROVE  UNCHANGED call
  BY <1>7 DEF Receive, CapturePayment, RecordPayment, ScheduleRetry, UndoPayment,
         ReadConsignment, Cancel, Confirm, SetStatusTo, CommitMessage, Crash
<1>8. UNCHANGED vars => UNCHANGED call
  BY DEF vars
<1>9. QED
  BY <1>2, <1>3, <1>4, <1>5, <1>6, <1>7, <1>8, StepCases

(* The client's call starts a confirmation of which there is nothing yet. *)
LEMMA NewConfirmation ==
    ASSUME SagaInv, [Next]_vars, NEW a \in Auths, NEW c \in Consignments,
           ~ Starts(a, c), Starts(a, c)', ConfirmedOnce(c)'
    PROVE  OneConfirmation(a, c)'
<1> USE DEF kafkaVars
<1>0. /\ TypeOK /\ PcsFit /\ MessagesKnown
      /\ outbox \subseteq Messages /\ toConsume \subseteq InboundMessages
  BY DEF SagaInv, TypeOK
<1>1. ConfirmConsignment(a, c)
  BY <1>0, ConfirmationStarts
<1>2. call[a] = Idle /\ UNCHANGED <<outbox, toConsume, published, worker>>
  BY <1>0, <1>1, ConfirmEffect
<1>3. \A m \in outbox \cup toConsume : ~ Carries(m, a)
  BY <1>0, <1>2 DEF MessagesKnown, Known, Carries, Starts
<1>4. \A w \in Workers : worker[w].pc # "idle" => ~ Carries(Msg(w), a)
  BY <1>0, <1>2, BusyWorker DEF MessagesKnown, Known, Carries, Starts
<1>5. \A w : w \notin HandlingOf(a)'
  BY <1>2, <1>4 DEF HandlingOf, Msg, Carries
<1>6. ~ Recorded(c)'
  <2>1. SUFFICES ASSUME Recorded(c) PROVE FALSE
    BY <1>2 DEF Recorded
  <2>2. PICK b \in Auths : Starts(b, c)
    BY <1>0, <2>1, KnownNotices DEF MessagesKnown, Recorded
  <2>3. b # a /\ Starts(b, c)'
    BY <1>0, <1>2, <2>2, StartsStays DEF Starts
  <2>4. QED
    BY <2>3 DEF ConfirmedOnce
<1>7. AtMostOne(Token(a, c)')
  <2>1. \A z \in Token(a, c)' : z = <<"call", a>>
    <3>1. SUFFICES ASSUME NEW z \in Token(a, c)' PROVE z = <<"call", a>>
      OBVIOUS
    <3>2. QED
      BY <1>2, <1>3, <1>5, <1>6, TokenPlacesNext
  <2>2. QED
    BY <2>1 DEF AtMostOne
<1>8. AtMostOne(Token(a, c))' <=> AtMostOne(Token(a, c)')
  BY DEF AtMostOne
<1>9. QED
  BY <1>2, <1>3, <1>5, <1>6, <1>7, <1>8 DEF OneConfirmation, Carries

(* What is handled twice is so for good. *)
LEMMA DuplicatedStays ==
    ASSUME TypeOK, [Next]_vars, duplicated
    PROVE  duplicated'
<1>1. ASSUME NEW c \in Consignments,
             CreateConsignment(c) \/ ReservationLapses(c) \/ ReservationExpired(c)
             \/ ReservationSettled(c) \/ ReservationAnswers(c)
      PROVE  duplicated'
  BY <1>1, CreateEffect, LapseEffect, ExpiredEffect, SettledEffect, AnswersEffect DEF Counted
<1>2. ASSUME NEW a \in Auths,
             \/ \E c \in Consignments : ConfirmConsignment(a, c)
             \/ AuthorisePayment(a) \/ PublishPaymentAuthorised(a)
             \/ CancelConsignment(a) \/ VoidPayment(a)
      PROVE  duplicated'
  BY <1>2, ConfirmEffect, AuthoriseEffect, PublishAuthorisedEffect, CancelEffect, VoidEffect
     DEF Counted
<1>3. ASSUME NEW row \in outbox, PublishOutbox(row)
      PROVE  duplicated'
  BY <1>3, PublishEffect DEF Counted
<1>4. ASSUME NEW w \in Workers,
             \/ \E m \in toConsume : Receive(w, m)
             \/ CapturePayment(w) \/ RecordPayment(w) \/ ScheduleRetry(w) \/ UndoPayment(w)
             \/ ReadConsignment(w) \/ CommitMessage(w) \/ Crash(w)
      PROVE  duplicated'
  BY <1>4, ReceiveEffect, CaptureEffect, RecordEffect, ScheduleEffect, UndoEffect, ReadEffect,
     CommitEffect, CrashEffect DEF Counted
<1>5. ASSUME NEW w \in Workers, Cancel(w) \/ Confirm(w)
      PROVE  duplicated'
  BY <1>5, SetStatusEffect DEF Counted, Cancel, Confirm
<1>6. UNCHANGED vars => duplicated'
  BY DEF vars
<1>7. QED
  BY <1>1, <1>2, <1>3, <1>4, <1>5, <1>6, StepCases

LEMMA PaidStep ==
    ASSUME SagaInv, CarriedInv, PaidInv, [Next]_vars
    PROVE  PaidInv'
<1>1. \A a \in Auths : Keyed(a)'
  BY KeyedStep DEF PaidInv
<1>2. ASSUME NEW a \in Auths, NEW c \in Consignments,
             Starts(a, c)', ConfirmedOnce(c)', ~ duplicated'
      PROVE  OneConfirmation(a, c)'
  <2>1. TypeOK
    BY DEF SagaInv
  <2>2. ~ duplicated
    BY <1>2, <2>1, DuplicatedStays
  <2>3. CASE Starts(a, c)
    <3>1. ConfirmedOnce(c)
      BY <1>2, <2>1, OnceStays
    <3>2. OneConfirmation(a, c) /\ Keyed(a) /\ Anchor(a)
      BY <2>2, <2>3, <3>1 DEF PaidInv, CarriedInv
    <3>3. QED
      BY <1>2, <2>3, <3>1, <3>2, OneConfirmationStep
  <2>4. CASE ~ Starts(a, c)
    BY <1>2, <2>4, NewConfirmation
  <2>5. QED
    BY <2>3, <2>4
<1>3. QED
  BY <1>1, <1>2 DEF PaidInv

LEMMA PaidAlways == Spec => [](SagaInv /\ PaidInv)
<1>1. Init => PaidInv
  <2> SUFFICES ASSUME Init PROVE PaidInv
    OBVIOUS
  <2>1. \A a \in Auths : payments[a].status = "none" /\ call[a] = Idle
    BY DEF Init, NoPayments
  <2>2. QED
    BY <2>1 DEF PaidInv, Keyed, Starts
<1>2. SagaInv /\ CarriedInv /\ PaidInv /\ [Next]_vars => PaidInv'
  BY PaidStep
<1>3. QED
  BY <1>1, <1>2, CarriedAlways, PTL DEF Spec

\* As long as no write and no message is handled twice, a consignment confirmed
\* once whose capacity the reservation service reports confirmed has its payment
\* captured: neither handleFailedConfirmationEvent nor
\* handleExpiredReservationEvent refunds it, whatever they race with.
THEOREM ConfirmedStaysPaid == Spec => []ConfirmedIsPaid
<1>1. SagaInv /\ PaidInv => ConfirmedIsPaid
  <2> SUFFICES ASSUME SagaInv, PaidInv, NEW c \in Consignments,
                        "confirmed" \in told[c], ConfirmedOnce(c), ~ duplicated
                 PROVE  Captured(c)
    BY DEF ConfirmedIsPaid
  <2>1. TypeOK /\ MessagesKnown /\ RecordAt(c)
    BY DEF SagaInv, RecordInv
  <2>2. told[c] = {"confirmed"}
    BY <2>1 DEF TypeOK
  <2>3. Recorded(c)
    BY <2>1, <2>2 DEF RecordAt, Recorded
  <2>4. PICK a \in Auths : Starts(a, c)
    BY <2>1, <2>3, KnownNotices DEF MessagesKnown, Recorded
  <2>5. Paid(a, c)
    BY <2>2, <2>3, <2>4 DEF PaidInv, OneConfirmation
  <2>6. QED
    BY <2>5 DEF Captured, Anchored, Status, Paid
<1>2. QED
  BY <1>1, PaidAlways, PTL

-----------------------------------------------------------------------------
(* The money is returned of a cancelled consignment only *)

Undone(a)  == payments[a].status \in {"voided", "refunded"}
Failing(a) == call[a].pc \in {"cancel", "void", "cancelAgain", "voidAgain"}
Failure(m) == m.topic = ConsignmentConfirmationFailedTopic

\* Nobody goes on with the confirmation that authorised a.
Withdrawn(a) ==
    /\ call[a].pc \notin {"authorise", "publish"}
    /\ \A m \in outbox \cup toConsume : Carries(m, a) => Failure(m)
    /\ \A w \in HandlingOf(a) : Failure(Msg(w))

\* A failed confirmation of c is yet to cancel it.
Cancelling(c) ==
    \/ \E m \in outbox \cup toConsume : Failure(m) /\ m.consignment = c
    \/ \E w \in Workers : /\ worker[w].pc \in {"undo", "cancel"}
                          /\ Failure(Msg(w)) /\ Msg(w).consignment = c

Settled(c) == status[c] = "cancelled" \/ c \in alerts \cup passedOver

\* The call that fails, and the handler that undoes the payment, end the
\* confirmation; the status follows.
Ending(a, c) ==
    /\ Failing(a) => Withdrawn(a) /\ ~ Recorded(c)
    /\ call[a].pc \in {"void", "cancelAgain", "voidAgain"} => Settled(c)
    /\ Undone(a) => Withdrawn(a) /\ (Settled(c) \/ Cancelling(c))

UndoneInv ==
    /\ \A a \in Auths : Undone(a) => call[a] # Idle
    /\ \A a \in Auths, c \in Consignments :
           Starts(a, c) /\ ConfirmedOnce(c) /\ ~ duplicated => Ending(a, c)

(* A call that has started stays where it is, or takes its next step. *)
LEMMA CallFate ==
    ASSUME TypeOK, [Next]_vars, NEW a \in Auths, call[a] # Idle
    PROVE  \/ call'[a] = call[a]
           \/ AuthorisePayment(a) \/ PublishPaymentAuthorised(a)
           \/ CancelConsignment(a) \/ VoidPayment(a)
<1>1. ASSUME NEW b \in Auths, b # a,
             \/ AuthorisePayment(b) \/ PublishPaymentAuthorised(b)
             \/ CancelConsignment(b) \/ VoidPayment(b)
      PROVE  call'[a] = call[a]
  <2>1. \E label : CallMoves(b, label)
    BY <1>1, AuthoriseEffect, PublishAuthorisedEffect, CancelEffect, VoidEffect
  <2>2. QED
    BY <1>1, <2>1 DEF CallMoves
<1>2. ASSUME NEW b \in Auths, NEW d \in Consignments, ConfirmConsignment(b, d)
      PROVE  call'[a] = call[a]
  BY <1>2, ConfirmEffect
<1>3. ASSUME NEW d \in Consignments,
             CreateConsignment(d) \/ ReservationLapses(d) \/ ReservationExpired(d)
             \/ ReservationSettled(d) \/ ReservationAnswers(d)
      PROVE  UNCHANGED call
  BY <1>3, CreateEffect, LapseEffect, ExpiredEffect, SettledEffect, AnswersEffect
<1>4. ASSUME NEW row \in outbox, PublishOutbox(row)
      PROVE  UNCHANGED call
  BY <1>4, PublishEffect
<1>5. ASSUME NEW w \in Workers,
             \/ \E m \in toConsume : Receive(w, m)
             \/ CapturePayment(w) \/ RecordPayment(w) \/ ScheduleRetry(w) \/ UndoPayment(w)
             \/ ReadConsignment(w) \/ Cancel(w) \/ Confirm(w) \/ CommitMessage(w) \/ Crash(w)
      PROVE  UNCHANGED call
  BY <1>5 DEF Receive, CapturePayment, RecordPayment, ScheduleRetry, UndoPayment,
         ReadConsignment, Cancel, Confirm, SetStatusTo, CommitMessage, Crash
<1>6. UNCHANGED vars => UNCHANGED call
  BY DEF vars
<1>7. QED
  BY <1>1, <1>2, <1>3, <1>4, <1>5, <1>6, StepCases

(* A confirmation nobody goes on with is not resumed. *)
LEMMA WithdrawnStep ==
    ASSUME SagaInv, [Next]_vars, ~ duplicated', NEW a \in Auths, call[a] # Idle, Withdrawn(a)
    PROVE  Withdrawn(a)'
<1>0. TypeOK /\ PcsFit
  BY DEF SagaInv
<1>1. call'[a].pc \notin {"authorise", "publish"}
  <2>1. ~ AuthorisePayment(a) /\ ~ PublishPaymentAuthorised(a)
    BY DEF AuthorisePayment, PublishPaymentAuthorised, Withdrawn
  <2>2. ASSUME CancelConsignment(a) \/ VoidPayment(a)
        PROVE  call'[a].pc \in {"void", "voidAgain", "cancelAgain", "done"}
    <3>1. PICK label \in {"void", "voidAgain", "cancelAgain", "done"} : CallMoves(a, label)
      BY <1>0, <2>2, CancelEffect, VoidEffect
    <3>2. QED
      BY <3>1 DEF CallMoves
  <2>3. QED
    BY <1>0, <2>1, <2>2, CallFate DEF Withdrawn
<1>2. ASSUME NEW m \in outbox' \cup toConsume', Carries(m, a), ~ Failure(m)
      PROVE  FALSE
  <2>1. m.topic = ConsignmentPaymentAuthorisedTopic /\ m.auth = a
    BY <1>2 DEF Carries, SagaTopics, Failure
  <2>2. m \notin outbox \cup toConsume
    BY <1>2 DEF Withdrawn
  <2>3. ~ PublishPaymentAuthorised(a)
    BY DEF PublishPaymentAuthorised, Withdrawn
  <2>4. PICK w \in Workers : ScheduleRetry(w) /\ Msg(w).auth = a
    BY <2>1, <2>2, <2>3, NewAuthorised
  <2>5. worker[w].pc = "retry" /\ Msg(w).topic = ConsignmentPaymentAuthorisedTopic
    BY <1>0, <2>4, ScheduleEffect DEF PcsFit, PcFits
  <2>6. w \in HandlingOf(a) /\ ~ Failure(Msg(w))
    BY <2>4, <2>5, TopicsDiffer DEF HandlingOf, Carries, SagaTopics, Failure
  <2>7. QED
    BY <2>6 DEF Withdrawn
<1>3. ASSUME NEW w \in HandlingOf(a)', NEW q, q = Msg(w)', ~ Failure(q)
      PROVE  FALSE
  <2>1. w \in Workers /\ worker'[w] # Idle /\ worker'[w].pc \notin {"idle", "commit"}
        /\ Carries(q, a)
    BY <1>3 DEF HandlingOf, Idle, Carries
  <2>2. CASE q \in toConsume
    BY <1>3, <2>1, <2>2 DEF Withdrawn
  <2>3. CASE worker[w] # Idle /\ q = Msg(w)
    <3>1. worker[w].pc \in WorkerPcs
      BY <1>0, <2>1, <2>3, BusyWorker
    <3>2. worker[w].pc # "commit"
      <4>1. CASE worker'[w] = worker[w]
        BY <2>1, <4>1
      <4>2. CASE CommitMessage(w) \/ Crash(w)
        BY <1>0, <2>1, <4>2, CommitEffect, CrashEffect DEF Rests
      <4>3. CASE \/ CapturePayment(w) \/ RecordPayment(w) \/ ScheduleRetry(w) \/ UndoPayment(w)
                 \/ ReadConsignment(w) \/ Cancel(w) \/ Confirm(w)
        BY <4>3 DEF CapturePayment, RecordPayment, ScheduleRetry, UndoPayment, ReadConsignment,
           Cancel, Confirm, SetStatusTo
      <4>4. QED
        BY <1>0, <2>1, <2>3, <4>1, <4>2, <4>3, HandlerFate
    <3>3. w \in HandlingOf(a)
      BY <2>1, <2>3, <3>1, <3>2, NoneIdle DEF HandlingOf
    <3>4. QED
      BY <1>3, <2>3, <3>3 DEF Withdrawn
  <2>4. QED
    BY <1>0, <1>3, <2>1, <2>2, <2>3, HandledMessage
<1>4. QED
  BY <1>1, <1>2, <1>3 DEF Withdrawn, Carries, Failure

(* Nobody goes on with a withdrawn confirmation: nobody records its payment. *)
LEMMA NoneRecords ==
    ASSUME SagaInv, NEW a \in Auths, NEW c \in Consignments, Starts(a, c), ConfirmedOnce(c),
           Withdrawn(a), NEW w \in Workers, RecordPayment(w)
    PROVE  Msg(w).consignment # c
<1>0. TypeOK /\ PcsFit /\ MessagesKnown
  BY DEF SagaInv
<1>1. worker[w].pc = "tx" /\ worker[w] # Idle
  BY <1>0, RecordEffect, BusyWorker
<1>2. /\ Msg(w) \in AuthorisedMessages /\ Known(Msg(w)) /\ Msg(w) \in Messages
      /\ Msg(w).topic = ConsignmentPaymentAuthorisedTopic
  BY <1>0, <1>1, BusyWorker, TopicsDiffer DEF PcsFit, PcFits, MessagesKnown
<1>3. Msg(w).auth # NoID
  BY <1>2 DEF AuthorisedMessages
<1>4. Msg(w).consignment = c => w \in HandlingOf(a)
  BY <1>1, <1>2, <1>3, OneAuth DEF HandlingOf, Carries, SagaTopics
<1>5. ~ Failure(Msg(w))
  BY <1>2, TopicsDiffer DEF Failure
<1>6. QED
  BY <1>4, <1>5 DEF Withdrawn

(* Nothing takes such a consignment out of "cancelled". *)
LEMMA SettledStays ==
    ASSUME SagaInv, [Next]_vars, NEW a \in Auths, NEW c \in Consignments, Starts(a, c),
           ConfirmedOnce(c), Withdrawn(a), "confirmed" \notin told[c], Settled(c)
    PROVE  Settled(c)'
<1>0. /\ TypeOK /\ PcsFit /\ MessagesKnown
      /\ status \in [Consignments -> {"none"} \cup Statuses]
  BY DEF SagaInv, TypeOK
<1>1. CASE c \in alerts \cup passedOver
  BY <1>0, <1>1, RecordsStay DEF Settled
<1>2. CASE status[c] = "cancelled"
  <2>1. SUFFICES status'[c] = "cancelled"
    BY DEF Settled
  <2>2. CASE UNCHANGED status
    BY <1>2, <2>2
  <2>3. ASSUME NEW d \in Consignments, CreateConsignment(d)
        PROVE  status'[c] = "cancelled"
    BY <1>0, <1>2, <2>3, CreateEffect
  <2>4. ASSUME NEW b \in Auths, CancelConsignment(b)
        PROVE  status'[c] = "cancelled"
    BY <1>0, <1>2, <2>4, CancelEffect
  <2>5. ASSUME NEW w \in Workers, RecordPayment(w)
        PROVE  status'[c] = "cancelled"
    <3>1. Msg(w).consignment # c
      BY <2>5, NoneRecords
    <3>2. QED
      BY <1>0, <1>2, <2>5, <3>1, RecordEffect
  <2>6. ASSUME NEW w \in Workers, Cancel(w)
        PROVE  status'[c] = "cancelled"
    BY <1>0, <1>2, <2>6, SetStatusEffect DEF Cancel
  <2>7. ASSUME NEW w \in Workers, Confirm(w)
        PROVE  status'[c] = "cancelled"
    <3>1. worker[w].pc = "confirm" /\ worker[w] # Idle
      BY <1>0, <2>7, SetStatusEffect, BusyWorker DEF Confirm
    <3>2. Msg(w).topic = ReservationConfirmedTopic /\ Known(Msg(w))
      BY <1>0, <3>1 DEF PcsFit, PcFits, MessagesKnown
    <3>3. Msg(w).consignment # c
      BY <3>2 DEF Known
    <3>4. QED
      BY <1>0, <1>2, <2>7, <3>3, SetStatusEffect DEF Confirm
  <2>8. ASSUME NEW d \in Consignments,
               ReservationLapses(d) \/ ReservationExpired(d)
               \/ ReservationSettled(d) \/ ReservationAnswers(d)
        PROVE  UNCHANGED status
    BY <1>0, <2>8, LapseEffect, ExpiredEffect, SettledEffect, AnswersEffect DEF storeVars
  <2>9. ASSUME NEW b \in Auths,
               \/ \E d \in Consignments : ConfirmConsignment(b, d)
               \/ AuthorisePayment(b) \/ PublishPaymentAuthorised(b) \/ VoidPayment(b)
        PROVE  UNCHANGED status
    BY <1>0, <2>9, ConfirmEffect, AuthoriseEffect, PublishAuthorisedEffect, VoidEffect
       DEF storeVars
  <2>10. ASSUME NEW row \in outbox, PublishOutbox(row)
         PROVE  UNCHANGED status
    BY <1>0, <2>10, PublishEffect DEF storeVars
  <2>11. ASSUME NEW w \in Workers,
                \/ \E m \in toConsume : Receive(w, m)
                \/ CapturePayment(w) \/ ScheduleRetry(w) \/ UndoPayment(w)
                \/ ReadConsignment(w) \/ CommitMessage(w) \/ Crash(w)
         PROVE  UNCHANGED status
    BY <2>11 DEF Receive, CapturePayment, ScheduleRetry, UndoPayment, ReadConsignment,
       CommitMessage, Crash, storeVars
  <2>12. UNCHANGED vars => UNCHANGED status
    BY DEF vars, storeVars
  <2>13. QED
    BY <2>2, <2>3, <2>4, <2>5, <2>6, <2>7, <2>8, <2>9, <2>10, <2>11, <2>12, StepCases
<1>3. QED
  BY <1>1, <1>2 DEF Settled

(* A failed confirmation cancels the consignment, or is delivered again. *)
LEMMA CancellingStays ==
    ASSUME SagaInv, [Next]_vars, ~ duplicated', NEW c \in Consignments, Cancelling(c)
    PROVE  Cancelling(c)' \/ Settled(c)'
<1>0. /\ TypeOK /\ PcsFit
      /\ status \in [Consignments -> {"none"} \cup Statuses]
  BY DEF SagaInv, TypeOK
<1>1. ASSUME NEW m \in outbox \cup toConsume, Failure(m), m.consignment = c
      PROVE  Cancelling(c)'
  <2>1. CASE m \in outbox' \cup toConsume'
    BY <1>1, <2>1 DEF Cancelling, Failure
  <2>2. ASSUME NEW w \in Workers, Receive(w, m), m \in toConsume
        PROVE  Cancelling(c)'
    <3>1. worker'[w] = [pc |-> FirstStep(m), msg |-> m, captured |-> AlreadyCaptured(m)]
          /\ FirstStep(m) = "undo"
      BY <1>0, <1>1, <2>2, ReceiveEffect DEF Failure
    <3>2. worker'[w].pc = "undo" /\ Msg(w)' = m
      BY <3>1 DEF Msg
    <3>3. QED
      BY <1>1, <3>2 DEF Cancelling, Failure
  <2>3. QED
    BY <1>0, <1>1, <2>1, <2>2, MessageFate DEF Failure, SagaTopics
<1>2. ASSUME NEW w \in Workers, worker[w].pc \in {"undo", "cancel"},
             Failure(Msg(w)), Msg(w).consignment = c
      PROVE  Cancelling(c)' \/ Settled(c)'
  <2>1. worker[w] # Idle
    BY <1>2 DEF Idle
  <2>2. ASSUME worker'[w].pc \in {"undo", "cancel"}, NEW q, q = Msg(w), Msg(w)' = q
        PROVE  Cancelling(c)'
    BY <1>2, <2>2 DEF Cancelling, Failure
  <2>3. CASE worker'[w] = worker[w]
    BY <1>2, <2>2, <2>3 DEF Msg
  <2>4. CASE UndoPayment(w)
    <3>1. Moves(w, "cancel")
      BY <1>0, <2>4, UndoEffect
    <3>2. worker'[w].pc = "cancel" /\ Msg(w)' = Msg(w)
      BY <3>1 DEF Moves, Msg
    <3>3. QED
      BY <2>2, <3>2
  <2>5. CASE Cancel(w)
    <3>1. \/ status' = [status EXCEPT ![c] = "cancelled"]
          \/ Msg(w) \in toConsume' \/ c \in passedOver'
      BY <1>0, <1>2, <2>5, SetStatusEffect DEF Cancel
    <3>2. PICK q : q = Msg(w)
      OBVIOUS
    <3>3. q \in toConsume' => Cancelling(c)'
      BY <1>2, <3>2 DEF Cancelling, Failure
    <3>4. QED
      BY <1>0, <3>1, <3>2, <3>3 DEF Settled
  <2>6. CASE CapturePayment(w) \/ RecordPayment(w) \/ ScheduleRetry(w) \/ ReadConsignment(w)
             \/ Confirm(w) \/ CommitMessage(w)
    BY <1>2, <2>6 DEF CapturePayment, RecordPayment, ScheduleRetry, ReadConsignment, Confirm,
       SetStatusTo, CommitMessage
  <2>7. CASE Crash(w)
    BY <1>0, <2>7, CrashEffect
  <2>8. QED
    BY <1>0, <2>1, <2>3, <2>4, <2>5, <2>6, <2>7, HandlerFate
<1>3. QED
  BY <1>1, <1>2 DEF Cancelling

(* A payment is voided by the call, and voided or refunded by the handler of a *)
(* failed confirmation.                                                        *)
LEMMA BecomesUndone ==
    ASSUME SagaInv, [Next]_vars, NEW a \in Auths, ~ Undone(a), Undone(a)'
    PROVE  \/ VoidPayment(a)
           \/ \E w \in Workers : /\ UndoPayment(w)
                                 /\ Msg(w).auth = a \/ payments[a].captureID = Msg(w).consignment
<1> DEFINE Goal ==
        \/ VoidPayment(a)
        \/ \E w \in Workers : /\ UndoPayment(w)
                              /\ Msg(w).auth = a \/ payments[a].captureID = Msg(w).consignment
<1>0. /\ TypeOK /\ PcsFit
      /\ payments \in [Auths -> [status : PaymentStatuses, captureID : PaymentIDs \cup {NoID}]]
      /\ payments'[a] # payments[a]
  BY DEF SagaInv, TypeOK, PaymentsOK, Undone
<1>1. ASSUME NEW b \in Auths, AuthorisePayment(b)
      PROVE  FALSE
  <2>1. SetStatus(b, "authorised")
    BY <1>0, <1>1, AuthoriseEffect DEF Authorise
  <2>2. payments'[b] = [status |-> "authorised", captureID |-> payments[b].captureID]
        /\ (a # b => payments'[a] = payments[a])
    BY <1>0, <2>1, PaymentKept
  <2>3. payments'[b].status = "authorised"
    BY <2>2
  <2>4. QED
    BY <1>0, <2>2, <2>3 DEF Undone
<1>2. ASSUME NEW b \in Auths, VoidPayment(b)
      PROVE  Goal
  <2>1. SetStatus(b, "voided")
    BY <1>0, <1>2, VoidEffect DEF Void
  <2>2. QED
    BY <1>0, <1>2, <2>1, PaymentKept
<1>3. ASSUME NEW w \in Workers, CapturePayment(w)
      PROVE  FALSE
  <2>1. \/ payments' = payments
        \/ payments' = [payments EXCEPT ![Msg(w).auth] =
                            [status |-> "captured", captureID |-> Msg(w).consignment]]
    BY <1>0, <1>3, CaptureEffect DEF Capture
  <2>2. payments'[a] = [status |-> "captured", captureID |-> Msg(w).consignment]
    BY <1>0, <2>1
  <2>3. QED
    BY <2>2 DEF Undone
<1>4. ASSUME NEW w \in Workers, UndoPayment(w)
      PROVE  Goal
  <2>1. CASE Void(Msg(w).auth)
    <3>1. payments' = [payments EXCEPT ![Msg(w).auth].status = "voided"]
      BY <2>1 DEF Void, SetStatus
    <3>2. QED
      BY <1>0, <1>4, <3>1
  <2>2. CASE Refund(Msg(w).consignment)
    <3>1. PICK b \in Auths : payments[b].captureID = Msg(w).consignment /\ SetStatus(b, "refunded")
      BY <2>2 DEF Refund, Anchored
    <3>2. a # b => payments'[a] = payments[a]
      BY <1>0, <3>1, PaymentKept
    <3>3. QED
      BY <1>0, <1>4, <3>1, <3>2
  <2>3. QED
    BY <1>0, <1>4, <2>1, <2>2, UndoEffect
<1>5. ASSUME NEW b \in Auths,
             \/ \E d \in Consignments : ConfirmConsignment(b, d)
             \/ PublishPaymentAuthorised(b) \/ CancelConsignment(b)
      PROVE  UNCHANGED payments
  BY <1>0, <1>5, ConfirmEffect, PublishAuthorisedEffect, CancelEffect
<1>6. ASSUME NEW d \in Consignments,
             CreateConsignment(d) \/ ReservationLapses(d) \/ ReservationExpired(d)
             \/ ReservationSettled(d) \/ ReservationAnswers(d)
      PROVE  UNCHANGED payments
  BY <1>0, <1>6, CreateEffect, LapseEffect, ExpiredEffect, SettledEffect, AnswersEffect
<1>7. ASSUME NEW row \in outbox, PublishOutbox(row)
      PROVE  UNCHANGED payments
  BY <1>0, <1>7, PublishEffect
<1>8. ASSUME NEW w \in Workers,
             \/ \E m \in toConsume : Receive(w, m)
             \/ RecordPayment(w) \/ ScheduleRetry(w) \/ ReadConsignment(w)
             \/ Cancel(w) \/ Confirm(w) \/ CommitMessage(w) \/ Crash(w)
      PROVE  UNCHANGED payments
  BY <1>8 DEF Receive, RecordPayment, ScheduleRetry, ReadConsignment, Cancel, Confirm,
         SetStatusTo, CommitMessage, Crash
<1>9. UNCHANGED vars => UNCHANGED payments
  BY DEF vars
<1>10. QED
  BY <1>0, <1>1, <1>2, <1>3, <1>4, <1>5, <1>6, <1>7, <1>8, <1>9, StepCases

(* Whoever undoes the payment was the one place of the confirmation, or answers *)
(* its payment.captured.                                                        *)
LEMMA UndoWithdraws ==
    ASSUME SagaInv, NEW a \in Auths, NEW c \in Consignments, Starts(a, c), ConfirmedOnce(c),
           AtMostOne(Token(a, c)), NEW w \in Workers, UndoPayment(w), Msg(w).consignment = c
    PROVE  Withdrawn(a)
<1>0. TypeOK /\ PcsFit /\ MessagesKnown /\ RecordAt(c)
  BY DEF SagaInv, RecordInv
<1>1. worker[w].pc = "undo" /\ worker[w] # Idle
  BY <1>0, UndoEffect, BusyWorker
<1>2. Failure(Msg(w)) /\ Msg(w) \in Messages /\ Known(Msg(w)) /\ Msg(w).topic \in SagaTopics
  BY <1>0, <1>1, BusyWorker DEF SagaInv, RecordInv, MessagesKnown, Failure, SagaTopics
<1>3. ASSUME NEW z \in Token(a, c),
             z = <<"recorded", c>> \/ \E v \in HandlingOf(a) : Failure(Msg(v)) /\ z = <<"worker", v>>
      PROVE  Withdrawn(a)
  <2>1. \A x \in Token(a, c) : x = z
    BY DEF AtMostOne
  <2>2. call[a].pc \notin {"authorise", "publish"}
    <3>1. <<"call", a>> # z
      BY <1>3
    <3>2. QED
      BY <2>1, <3>1, TokenPlaces
  <2>3. ASSUME NEW m \in outbox \cup toConsume, Carries(m, a)
        PROVE  FALSE
    <3>1. PICK place \in {"outbox", "topic"} : <<place, m>> \in Token(a, c)
      BY <2>3, TokenPlaces
    <3>2. <<place, m>> # z
      BY <1>3, <3>1
    <3>3. QED
      BY <2>1, <3>1, <3>2
  <2>4. ASSUME NEW v \in HandlingOf(a)
        PROVE  Failure(Msg(v))
    <3>1. <<"worker", v>> = z
      BY <2>1, TokenPlaces
    <3>2. QED
      BY <1>3, <3>1
  <2>5. QED
    BY <2>2, <2>3, <2>4 DEF Withdrawn
<1>4. CASE Msg(w).auth = a
  <2>1. w \in HandlingOf(a)
    BY <1>1, <1>2, <1>4 DEF HandlingOf, Carries
  <2>2. <<"worker", w>> \in Token(a, c)
    BY <2>1, TokenPlaces
  <2>3. QED
    BY <1>2, <1>3, <2>1, <2>2
<1>5. CASE Msg(w).auth # a
  <2>1. Msg(w).auth = NoID
    BY <1>2, <1>5, OneAuth
  <2>2. "failed" \in told[c]
    BY <1>2, <2>1 DEF Known
  <2>3. Recorded(c)
    BY <1>0, <2>2 DEF RecordAt, Recorded
  <2>4. <<"recorded", c>> \in Token(a, c)
    BY <2>3, TokenPlaces
  <2>5. QED
    BY <1>3, <2>4
<1>6. QED
  BY <1>4, <1>5

(* The handler that undoes a's payment is of the consignment a was started for. *)
LEMMA UndoOfStarted ==
    ASSUME SagaInv, NEW a \in Auths, Anchor(a), NEW w \in Workers, UndoPayment(w),
           Msg(w).auth = a \/ payments[a].captureID = Msg(w).consignment
    PROVE  Starts(a, Msg(w).consignment)
<1>0. TypeOK /\ PcsFit /\ MessagesKnown
  BY DEF SagaInv
<1>1. worker[w].pc = "undo" /\ worker[w] # Idle
  BY <1>0, UndoEffect, BusyWorker
<1>2. Known(Msg(w)) /\ Msg(w).topic \in SagaTopics /\ Msg(w).consignment # NoID
  BY <1>0, <1>1, BusyWorker DEF SagaInv, RecordInv, MessagesKnown, SagaTopics
<1>3. CASE Msg(w).auth = a
  BY <1>2, <1>3 DEF Known
<1>4. CASE payments[a].captureID = Msg(w).consignment
  BY <1>2, <1>4 DEF Anchor
<1>5. QED
  BY <1>3, <1>4

(* Nothing is confirmed to a consignment whose confirmation ends this way. *)
LEMMA NotConfirmed ==
    ASSUME SagaInv, NEW a \in Auths, NEW c \in Consignments, OneConfirmation(a, c),
           Ending(a, c), Failing(a) \/ Undone(a)
    PROVE  "confirmed" \notin told[c]
<1>1. SUFFICES ASSUME "confirmed" \in told[c] PROVE FALSE
  OBVIOUS
<1>2. told[c] = {"confirmed"}
  BY <1>1 DEF SagaInv, TypeOK
<1>3. Recorded(c)
  BY <1>2 DEF SagaInv, RecordInv, RecordAt, Recorded
<1>4. Paid(a, c)
  BY <1>2, <1>3 DEF OneConfirmation
<1>5. QED
  BY <1>3, <1>4 DEF Ending, Undone, Paid

LEMMA EndingStep ==
    ASSUME SagaInv, [Next]_vars, ~ duplicated', NEW a \in Auths, NEW c \in Consignments,
           Starts(a, c), ConfirmedOnce(c), Anchor(a), OneConfirmation(a, c), Ending(a, c)
    PROVE  Ending(a, c)'
<1>0. TypeOK /\ PcsFit /\ call[a] # Idle /\ call[a].consignment = c
      /\ status \in [Consignments -> {"none"} \cup Statuses]
  BY DEF SagaInv, Starts, TypeOK
<1>1. (Failing(a) \/ Undone(a)) /\ Settled(c) => Settled(c)'
  BY NotConfirmed, SettledStays DEF Ending
<1>2. ASSUME Failing(a)'
      PROVE  Withdrawn(a)' /\ ~ Recorded(c)'
  <2>1. CASE Failing(a)
    <3>1. Withdrawn(a) /\ ~ Recorded(c)
      BY <2>1 DEF Ending
    <3>2. Withdrawn(a)'
      BY <1>0, <3>1, WithdrawnStep
    <3>3. ~ Recorded(c)'
      BY <1>0, <3>1, RecordedByTransaction, NoneRecords
    <3>4. QED
      BY <3>2, <3>3
  <2>2. CASE ~ Failing(a)
    <3>1. ~ AuthorisePayment(a)
      <4>1. SUFFICES ASSUME AuthorisePayment(a) PROVE FALSE
        OBVIOUS
      <4>2. PICK label \in {"publish", "cancelOnly"} : CallMoves(a, label)
        BY <1>0, <4>1, AuthoriseEffect
      <4>3. QED
        BY <1>2, <4>2 DEF CallMoves, Failing
    <3>2. ~ CancelConsignment(a)
      <4>1. SUFFICES ASSUME CancelConsignment(a) PROVE FALSE
        OBVIOUS
      <4>2. call[a].pc = "cancelOnly"
        BY <1>0, <2>2, <4>1, CancelEffect DEF Failing
      <4>3. CallMoves(a, "done")
        BY <1>0, <4>1, <4>2, CancelEffect
      <4>4. QED
        BY <1>2, <4>3 DEF CallMoves, Failing
    <3>3. ~ VoidPayment(a)
      BY <2>2 DEF VoidPayment, Failing
    <3>4. PublishPaymentAuthorised(a)
      BY <1>0, <1>2, <2>2, <3>1, <3>2, <3>3, CallFate DEF Failing
    <3>5. call[a].pc = "publish" /\ UNCHANGED <<kafkaVars, worker>>
      BY <1>0, <3>4, PublishAuthorisedEffect
    <3>6. outbox' = outbox
      <4>1. CallMoves(a, "done") => call'[a].pc = "done"
        BY DEF CallMoves
      <4>2. ~ CallMoves(a, "done")
        BY <1>2, <4>1 DEF Failing
      <4>3. QED
        BY <1>0, <3>4, <4>2, PublishAuthorisedEffect
    <3>7. \A x \in Token(a, c) : x = <<"call", a>>
      <4>1. <<"call", a>> \in Token(a, c)
        BY <3>5, TokenPlaces
      <4>2. QED
        BY <4>1 DEF OneConfirmation, AtMostOne
    <3>8. \A m \in outbox \cup toConsume : ~ Carries(m, a)
      <4>1. SUFFICES ASSUME NEW m \in outbox \cup toConsume, Carries(m, a) PROVE FALSE
        OBVIOUS
      <4>2. PICK place \in {"outbox", "topic"} : <<place, m>> \in Token(a, c)
        BY <4>1, TokenPlaces
      <4>3. <<place, m>> # <<"call", a>>
        BY <4>2
      <4>4. QED
        BY <3>7, <4>2, <4>3
    <3>9. HandlingOf(a) = {} /\ ~ Recorded(c)
      <4>1. ASSUME NEW w \in HandlingOf(a) PROVE FALSE
        <5>1. <<"worker", w>> \in Token(a, c) /\ <<"worker", w>> # <<"call", a>>
          BY <4>1, TokenPlaces
        <5>2. QED
          BY <3>7, <5>1
      <4>2. ASSUME Recorded(c) PROVE FALSE
        <5>1. <<"recorded", c>> \in Token(a, c) /\ <<"recorded", c>> # <<"call", a>>
          BY <4>2, TokenPlaces
        <5>2. QED
          BY <3>7, <5>1
      <4>3. QED
        BY <4>1, <4>2
    <3>10. UNCHANGED <<outbox, toConsume, published, worker>>
      BY <3>5, <3>6 DEF kafkaVars
    <3>11. HandlingOf(a)' = {} /\ ~ Recorded(c)'
      BY <3>9, <3>10 DEF HandlingOf, Msg, Carries, Recorded
    <3>12. \A m \in outbox' \cup toConsume' : ~ Carries(m, a)'
      BY <3>8, <3>10 DEF Carries
    <3>13. QED
      BY <1>2, <3>11, <3>12 DEF Withdrawn, Failing
  <2>3. QED
    BY <2>1, <2>2
<1>3. ASSUME call'[a].pc \in {"void", "cancelAgain", "voidAgain"}
      PROVE  Settled(c)'
  <2>1. CASE CancelConsignment(a)
    BY <1>0, <2>1, CancelEffect DEF Settled
  <2>2. CASE VoidPayment(a) \/ call'[a] = call[a]
    <3>1. call[a].pc \in {"void", "cancelAgain", "voidAgain"}
      BY <1>3, <2>2 DEF VoidPayment
    <3>2. QED
      BY <1>1, <3>1 DEF Ending, Failing
  <2>3. CASE AuthorisePayment(a) \/ PublishPaymentAuthorised(a)
    <3>1. PICK label \in {"publish", "cancelOnly", "done", "cancel"} : CallMoves(a, label)
      BY <1>0, <2>3, AuthoriseEffect, PublishAuthorisedEffect
    <3>2. QED
      BY <1>3, <3>1 DEF CallMoves
  <2>4. QED
    BY <1>0, <2>1, <2>2, <2>3, CallFate
<1>4. ASSUME Undone(a)'
      PROVE  Withdrawn(a)' /\ (Settled(c)' \/ Cancelling(c)')
  <2>1. CASE Undone(a)
    <3>1. Withdrawn(a) /\ (Settled(c) \/ Cancelling(c))
      BY <2>1 DEF Ending
    <3>2. QED
      BY <1>0, <1>1, <2>1, <3>1, WithdrawnStep, CancellingStays
  <2>2. CASE VoidPayment(a)
    <3>1. call[a].pc \in {"void", "voidAgain"}
      BY <2>2 DEF VoidPayment
    <3>2. Failing(a) /\ Settled(c) /\ Withdrawn(a)
      BY <3>1 DEF Ending, Failing
    <3>3. QED
      BY <1>0, <1>1, <3>2, WithdrawnStep
  <2>3. ASSUME NEW w \in Workers, UndoPayment(w),
               Msg(w).auth = a \/ payments[a].captureID = Msg(w).consignment
        PROVE  Withdrawn(a)' /\ Cancelling(c)'
    <3>1. Msg(w).consignment = c
      BY <1>0, <2>3, UndoOfStarted DEF Starts
    <3>2. Withdrawn(a)
      BY <2>3, <3>1, UndoWithdraws DEF OneConfirmation
    <3>3. Moves(w, "cancel") /\ worker[w].pc = "undo"
      BY <1>0, <2>3, UndoEffect
    <3>4. worker'[w].pc = "cancel" /\ Msg(w)' = Msg(w)
      BY <3>3 DEF Moves, Msg
    <3>5. Failure(Msg(w))
      BY <3>3 DEF SagaInv, RecordInv, Failure
    <3>6. QED
      BY <1>0, <3>1, <3>2, <3>4, <3>5, WithdrawnStep DEF Cancelling, Failure
  <2>4. QED
    BY <1>4, <2>1, <2>2, <2>3, BecomesUndone
<1>5. QED
  BY <1>2, <1>3, <1>4 DEF Ending

LEMMA UndoneStep ==
    ASSUME SagaInv, CarriedInv, PaidInv, UndoneInv, [Next]_vars
    PROVE  UndoneInv'
<1>0. TypeOK /\ PcsFit
  BY DEF SagaInv
<1>1. ASSUME NEW a \in Auths, Undone(a)'
      PROVE  call'[a] # Idle
  <2>1. call[a] # Idle
    <3>1. CASE Undone(a)
      BY <3>1 DEF UndoneInv
    <3>2. VoidPayment(a) => call[a] # Idle
      BY DEF VoidPayment, Idle
    <3>3. ASSUME NEW w \in Workers, UndoPayment(w),
                 Msg(w).auth = a \/ payments[a].captureID = Msg(w).consignment
          PROVE  call[a] # Idle
      BY <3>3, UndoOfStarted DEF Starts, CarriedInv
    <3>4. QED
      BY <1>1, <3>1, <3>2, <3>3, BecomesUndone
  <2>2. PICK d : d = call[a].consignment
    OBVIOUS
  <2>3. Starts(a, d)'
    BY <1>0, <2>1, <2>2, StartsStays DEF Starts
  <2>4. QED
    BY <2>3 DEF Starts
<1>2. ASSUME NEW a \in Auths, NEW c \in Consignments,
             Starts(a, c)', ConfirmedOnce(c)', ~ duplicated'
      PROVE  Ending(a, c)'
  <2>1. ~ duplicated
    BY <1>0, <1>2, DuplicatedStays
  <2>2. CASE Starts(a, c)
    <3>1. ConfirmedOnce(c)
      BY <1>0, <1>2, OnceStays
    <3>2. OneConfirmation(a, c) /\ Anchor(a) /\ Ending(a, c)
      BY <2>1, <2>2, <3>1 DEF PaidInv, CarriedInv, UndoneInv
    <3>3. QED
      BY <1>2, <2>2, <3>1, <3>2, EndingStep
  <2>3. CASE ~ Starts(a, c)
    <3>1. ConfirmConsignment(a, c)
      BY <1>0, <1>2, <2>3, ConfirmationStarts
    <3>2. call[a] = Idle /\ call'[a] = [pc |-> "authorise", consignment |-> c] /\ UNCHANGED payments
      BY <1>0, <3>1, ConfirmEffect
    <3>3. call'[a].pc = "authorise" /\ ~ Undone(a)'
      BY <3>2 DEF Undone, UndoneInv
    <3>4. QED
      BY <3>3 DEF Ending, Failing
  <2>4. QED
    BY <2>2, <2>3
<1>3. QED
  BY <1>1, <1>2 DEF UndoneInv

LEMMA UndoneAlways == Spec => [](SagaInv /\ UndoneInv)
<1>1. Init => UndoneInv
  <2> SUFFICES ASSUME Init PROVE UndoneInv
    OBVIOUS
  <2>1. \A a \in Auths : payments[a].status = "none" /\ call[a] = Idle
    BY DEF Init, NoPayments
  <2>2. QED
    BY <2>1 DEF UndoneInv, Undone, Starts
<1>2. SagaInv /\ CarriedInv /\ PaidInv /\ UndoneInv /\ [Next]_vars => UndoneInv'
  BY UndoneStep
<1>3. QED
  BY <1>1, <1>2, CarriedAlways, PaidAlways, PTL DEF Spec

\* As long as nothing is handled twice, a payment that publishPaymentAuthorised
\* or handleFailedConfirmationEvent has voided or refunded is of a consignment
\* that is cancelled when everything about it has been handled, unless an ALERT
\* was logged or a message passed over: no later step of the confirmation brings
\* it back.
THEOREM UndoneStaysCancelled == Spec => []UndoneIsCancelled
<1>1. SagaInv /\ UndoneInv => UndoneIsCancelled
  <2> SUFFICES ASSUME SagaInv, UndoneInv, NEW c \in Consignments, NEW a \in Auths,
                        Starts(a, c), Status(a) \in {"voided", "refunded"},
                        ConfirmedOnce(c), ~ duplicated, Quiet(c)
                 PROVE  status[c] = "cancelled" \/ c \in alerts \cup passedOver
    BY DEF UndoneIsCancelled
  <2>1. Undone(a)
    BY DEF Undone, Status
  <2>2. Settled(c) \/ Cancelling(c)
    BY <2>1 DEF UndoneInv, Ending
  <2>3. ~ Cancelling(c)
    BY DEF Quiet, Cancelling, Idle
  <2>4. QED
    BY <2>2, <2>3 DEF Settled
<1>2. QED
  BY <1>1, UndoneAlways, PTL
=============================================================================
