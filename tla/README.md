# Shippy: TLA+ models of the confirmation saga and of the services around it

Shippy books containers on vessels. A consignment is created with vessel
capacity *reserved* for it; confirming it authorises and captures a payment,
moves the capacity from reserved to *used*, and sets the consignment's status.
The services coordinate by Kafka events, without an orchestrator; every service
keeps an outbox, retries, and compensates. Clients reach them through an HTTP
gateway, with tokens of a user service. These modules model the services,
check them with TLC on small instances, and prove the safety of several of them
with TLAPS for instances of every size.

## The system

| Component | State | Operations | Talks to |
|---|---|---|---|
| consignment gRPC server (`consignment-service/server`) | none | CreateConsignment, ConfirmConsignment, GetConsignments | reservation server (gRPC), payment service (gRPC), consignment store |
| consignment manager (`consignment-service/manager`) | none | handlers of payment.authorised, confirmation.failed, reservation.expired, reservation.confirmed; outbox publisher | payment service, Kafka, consignment store |
| consignment store and outbox (`consignment-service/storage/mongo`) | consignments, outbox documents | Create, Update, UpdateStatus, WithTransaction, CreateEvent, GetPendingEvents, MarkPublished | Mongo |
| payment service | payments by authorisation id, in memory | Authorise, Capture, Refund, Void | called by both parts of the consignment service |
| reservation gRPC server (`reservation-service/server`) | none | ReserveCapacity, ReleaseCapacity, ConfirmCapacity, RefreshReservation | vessel service (gRPC), cache |
| reservation manager (`reservation-service/manager`) | none | handlers of payment.captured, reservation.expired and the internal confirm/release/failed topics; cleanup job; outbox publisher | cache, vessel service, outbox, Kafka |
| reservation cache (`storage/redis`) | `reservation:{id}`, `reservation_data:{id}` with two TTLs | Store, Refresh, GetData, GetExpired, DeleteData, DeleteID | Redis |
| reservation outbox store (`storage/postgres`) | outbox rows, unique pending (key, topic) | CreateEvent, GetPendingEvents, MarkPublished | Postgres |
| vessel service | capacity counters, recorded operations | Create, ReserveCapacity, ReleaseCapacity, ConfirmCapacity | Mongo transactions |
| `pkg/kafka` | offsets, group membership | consume in a group, commit after the handler; produce and await the delivery report | Kafka |
| service lifecycle (every `main.go`, `manager.Start`, `GRPCServe`) | open clients and connections, goroutines, error channels | start-up with retries, serving, signals, graceful stop, deferred closing | all of the above |
| user service | users in Postgres | Create, GetAll, Auth, tokens | gateway, user-cli |
| gateway | none | POST /v1/users, POST /auth, the consignment routes behind `middleware.Auth` | user service, consignment server |
| `consignment-cli`, `user-cli` | none | a create and a list; a create, a list and logins | consignment server, user service |
| email stub, tracing, metrics | none that matters | | |

What is hard: messages are delivered at least once and in any order across
topics; several instances consume, publish and clean up; Redis, Postgres, Mongo
and the vessel service cannot share a transaction; every call may fail before or
after it was applied; two TTLs race with the cleanup job; a lease races with a
deadline; a reservation may lapse while its payment is being captured; retries
travel through the outbox and must end; a process may be told to stop, or lose a
goroutine, at any point; the clocks of the issuer and of the verifier of a token differ.

What makes each component correct:

* reservation manager: a reservation is confirmed or released, never both; the
  consignment service is never told both outcomes of a captured payment, and is
  told one, unless the reservation lapsed first; a lapsed reservation is taken over.
* reservation server: a refused reservation holds nothing, unless the reply of an
  attempt was lost or an alert asks for its release; an accepted one holds what
  it asked for; a confirmed one is safe from the cleanup job once its data is deleted.
* reservation cache: data outlives its id long enough to be found; nothing
  that was active when a scan began, and still is, is reported by it.
* vessel service: the counters are the sum of the recorded operations; nothing is overbooked.
* consignment service: captured money is passed on or given back, and given back
  only of cancelled consignments; confirmed capacity is paid for; the status
  moves along the documented state machine.
* outboxes: one instance at a time produces a row; a row is marked only when
  Kafka has it; every row is published in the end.
* Kafka consumer: a group passes no message over that no handler has settled;
  every message is tried while its service comes up again.
* lifecycle: a process that should stop does; what it has accepted it answers;
  it closes nothing that is in use.
* gateway and user service: what clients are told is true; an account stays
  its creator's; sessions last as long as their tokens.

## Modules

| Module | Models | State and actions |
|---|---|---|
| `ReservationManager` | reservation manager, its outbox, the consumer's delivery, and the cache as the manager sees it | `idKey`, `dataKey`: the Redis keys; `applied`: operations the vessel recorded; `outbox`: pending rows; `published`, `toConsume`: Kafka; `worker[w]`: the program counter of a consuming loop. A handler is cut at each external call: `Receive`, `DeleteData`, `CallVessel`, `DeleteID`, `PublishReservationConfirmed`, `PublishConfirmationFailed`, `ScheduleRetry`, `CommitMessage`; the cleanup job is `ScanIDs`, `ScanData`, `PublishReservationExpired`. Two history variables: `lapsed`, the reservations whose data key a release of the cleanup job's event has deleted, and `alerted`, those an exhausted release has logged an ALERT for |
| `ReservationOutcome` | the abstract specification of a reservation: held, then confirmed or released, and told consistently | `outcome`, `told` |
| `ReservationCache` | the two keys with a clock in ticks, and GetExpired's two scans key by key | `id`, `data`: remaining TTLs; `scan`: the run under way; `reported` |
| `VesselCapacities` | the quantities that the two modules below share | constants only |
| `VesselRepository` | the vessel service: one Mongo transaction per step | `reserved`, `used`, `capacityOps` |
| `ReservationServer` | the reservation gRPC server over `VesselRepository` (INSTANCE `VS`) and the keys | `call`: a ReserveCapacity with its attempts and its compensation; `action`: a Release- or ConfirmCapacity; `late`: vessel requests executed after their caller gave up |
| `PaymentService` | the payment service, one call per step | `payments` |
| `ConsignmentManager` | the consignment gRPC server and manager over `PaymentService`; the reservation service by its promise, `ReservationOutcome` (INSTANCE `RS`) | `status`, `paymentID`: Mongo; `outbox`, `toConsume`; `worker[w]`: a handler; `call[a]`: a ConfirmConsignment; `alerts`: consignments an ALERT was logged for |
| `Outbox` | the outbox publishers of both services, on either store, with leases, claims, deadlines and delivery reports | `row`, `lease`, `holder`: the rows; `pass[i]`: a pass of `publishOutbox`, with its age; `delivered`, `late`: Kafka and the producers' queues |
| `KafkaConsumer` | `StartConsuming` on the members of a group, with the group's offset | `committed`, `position`, `owner`; `consumer[i]`: the loop; `handled`, `failed` |
| `ServiceLifecycle` | the main functions of the six services, `manager.Start` and `GRPCServe`, around `KafkaConsumer` (EXTENDS) | `kind`: which service; `main[i]`, `step[i]`: main and its start-up; `open[i]`: what is still to be closed; `worker[i]`: the goroutines; `errCh[i]`, `server[i]`, `rpc` |
| `UserService` | the user service, one RPC per step | `users`, `clock` |
| `Gateway` | the gateway, its middleware, the command line clients and the consignment server's RPCs as they see them, over `UserService` (EXTENDS) | `request[c]`: what client c has under way; `token`, `answer`, `told`; `stored`, `reservation`, `scheduled` |
| `ReservationManagerProofs`, `ReservationCacheProofs`, `VesselRepositoryProofs`, `ReservationServerProofs`, `ConsignmentManagerProofs`, `OutboxProofs`, `ServiceLifecycleProofs`, `GatewayProofs` | theorems and proofs about the modules they are named after; `ServiceLifecycleProofs` has those about `KafkaConsumer` too | |

The modules `MC...` only add symmetry sets and constants for TLC.

How they fit together. `ReservationManager` implements `ReservationOutcome`
(checked as a PROPERTY of `RM_Outages`, and proved), and `ConsignmentManager` assumes no more
of the reservation service than `ReservationOutcome`. `ReservationServer`
composes the vessel service with its callers, and implements `VesselRepository`.
`ServiceLifecycle` composes the consumer with the process around it, and
implements `KafkaConsumer`. `Gateway` composes the gateway, the user service and
the entry points of the consignment service up to the event that starts the
saga. The managers take the outbox as a set of rows and Kafka as a set of
messages; `Outbox` and `KafkaConsumer` say what these sets stand for.

### What `ReservationOutcome` promises

A reservation that is held is confirmed or released. A confirmation may be
undone (`Undo`) as long as nobody was told of it: a handler whose vessel call was
applied but reported as failed may exhaust its retries, and its DLQ handler
releases what was confirmed. What was told is never contradicted: `failed` and
`confirmed` exclude each other, and `confirmed` is told of confirmed capacity,
which stays so. `ConsignmentManager` uses exactly these actions (`ReservationSettled`,
`ReservationAnswers`), so its properties hold with an `Undo` at any allowed moment.

### Abstractions

* A reservation id stands for its consignment and payment ids: they are made for
  each other, and the payloads take no part in the control.
* A loop of immediate attempts (`backoff.Retry`) against an idempotent service is
  one step that succeeds, fails unapplied, or is applied and reported as
  failed. `ReservationServer` keeps the attempts apart, because there the
  requests are executed late and compete for capacity.
* In the managers, Kafka and the outboxes are sets: messages may be reordered
  anyway, and a copy is a message that is put back ("redelivery"). A failed
  handler leaves its message uncommitted: it may come back, or be passed over by
  a later commit. Which of the two happens depends on offsets, and is a free
  choice there; `ConsignmentManager` keeps in `passedOver` the consignments it
  has happened to. `KafkaConsumer` has the offsets.
* In the managers an outbox row is produced and marked in one step, or produced and left pending.
* `Outbox` numbers the rows in the order of `created_at`, and counts time in
  ticks; a pass knows its age, from which the deadline and the lease follow.
* All topics have one partition (`admin.go`), so `KafkaConsumer` has one log.
* `ServiceLifecycle` keeps of a request that it is under way, and of a handler
  that it runs; the resources each depends on are `Uses`.
* In `Gateway` a password stands for its hash and a token for its claims: only
  bcrypt and the HMAC make this an abstraction. A client has one request under
  way at a time. What `ConfirmConsignment` does behind the event it schedules is
  `ConsignmentManager`'s.
* Malformed payloads, which are only logged, are left out.
* The 30-day TTL of recorded vessel operations is left out: nothing is repeated that late.

Three assumptions about the surroundings are built into the modules:

* One clock. `processing_until` is taken from the clock of the instance that claims
  a row, and compared with that of another instance (`storage/mongo/outbox.go:78`)
  or with the database's `NOW()` (`storage/postgres/outbox.go:62,100`). `Outbox`
  has one clock for all of them, so `OnePublisher` holds as far as they agree to
  within the slack between deadline and lease, 10 s in the code.
* `Create` of the vessel service stores what the request says
  (`vessel-service/repository.go:278`): an id that exists already, or counters that
  do not start at zero, are taken as they come. `VesselRepository` assumes requests
  with an id of their own and nothing reserved or in use.
* In `ReservationServer` the manager may release a reservation at any time while
  its data is in the cache, lapsed or not: a scan that passed the ids before this
  one was stored reports it, and its event may be consumed arbitrarily late.

## Runs

Every behaviour contains at most `MaxFaults` injected failures, of the kinds a
configuration lists in `Faults` (and `ServiceLifecycle` at most `MaxMishaps` of
`Mishaps`). All bounds are CONSTANTS.

| Run | Bounds | Shows |
|---|---|---|
| `RM_AtLeastOnce` | 1 reservation, 2 instances, MaxRetries 2, 3 failures: Redis, lost Redis replies, Postgres, crashes, redelivery, data lapse | `TypeOK`; `NoConflictingOps`: the Redis DEL is a token, and without vessel failures it suffices |
| `RM_Outages` | 1 reservation, 2 instances, MaxRetries 2, 3 failures: Redis, vessel, lost vessel replies | `ConfirmedImpliesVesselConfirm`, `NotBothOutcomes`, `CapturedNeverForgotten`: a captured payment is answered with a confirmation or a failure, except as said below; refinement `ImplementsOutcome`; liveness `CapturedIsAnswered`, `LapsedIsTakenOver` |
| `RM_DuplicateRetry` | 1 instance, MaxRetries 3, redelivery and vessel failures | violation of `NoConflictingOps` |
| `RS_Calls` | 2 vessels, 2 reservations competing for them, 1 further attempt, 2 failures | `CountersMatchOperations`, `NeverOverbooked`, `WithinLimits`, `FailureIsCompensated`, `AcceptedIsHeld`, `ConfirmedNotCleanedUp` |
| `RC_Cleanup` | TTLs 2 and 8 ticks, cleanup every 2, scans of up to 1, 1 failed run, 1 refresh | `NeverLapsesUnreported`, `ActiveNeverReported` |
| `RC_RefreshLapse` | `docker-compose.yaml`: TTLs 180 s and 300 s, cleanup every 30 s, one tick being 30 s; no failed run, 1 refresh | violation of `NeverLapsesUnreported` |
| `CM_Faults` | 1 consignment, 2 instances, MaxRetries 1, 2 failures of every kind | `CapturedIsPassedOn`, `UndoneIsCancelled`, `ConfirmedIsPaid`; liveness `LeavesPending` |
| `CM_LateCapture` | 1 instance, no failure | violation of `FollowsStatusOrder` |
| `OB_Leases` | 2 instances, 2 rows, both stores, lease 3, deadline 2, interval 1, 3 failures of all seven kinds | `OnePublisher`, `MarkedIsDelivered`; liveness `EventuallyPublished` |
| `SL_Shutdown` | 1 instance that restarts, all six services, 2 messages, 1 repeated Ping, 1 failure and 2 mishaps of all kinds | `UsesOnlyOpen`, `PassedOverHasFailed`, `RepliesBeforeExit`; liveness `StoppingEnds`, `EveryMessageIsTried`; refinement `ImplementsConsumer` |
| `GW_Sessions` | 2 clients, 2 emails, 2 passwords, 1 consignment, 3 requests, 1 failure of any kind, tokens of 1 tick, clocks up to 3 and 1 apart | `CreatedCanLogIn`, `AnswersAreTrue`, `SessionsExpire`, `SessionsLast` |
| `KC_PassedOver` | 2 instances, 2 messages, 1 failing handler | violation of `FailedIsRedelivered` |

Why the bounds are enough:

* One reservation in `ReservationManager` and one consignment in
  `ConsignmentManager`: no handler reads or writes a key, a row or a record of
  another, so reservations interact only by occupying instances, and two
  instances with one reservation already allow every interleaving of two handlers.
* Failures: the budget has to exhaust the retries and leave one failure for
  what follows. `RM_Outages` has 3 for 2 retries: two send a message to the DLQ,
  the third hits the DLQ handler's release. `CM_Faults` has 2 for 1 retry, and
  its safety properties were also checked, without liveness, with 2 retries and
  3 failures, without a violation. With 1 retry and 4 failures no violation was
  found either; there `UndoneIsCancelled` ran to the end only with the faults
  that make no second copy of a message or a call.
* `RC_Cleanup` is tight: with a data TTL of 7 instead of 8 TLC finds a lapse.
  With the values of `docker-compose.yaml` and no refresh, two failed runs in a
  row are survived and a third is not.
* In `RS_Calls` the demands are chosen so that one vessel holds either
  reservation but not both.
* `OB_Leases`: two instances are enough for a row to be claimed twice, two rows
  for one to be held up by the other. The lease exceeds the deadline by the least
  that the assumption allows, where the code's 30 s and 20 s leave more; a pass is
  slow up to three times, which takes it past its lease.
* `SL_Shutdown` has one instance because instances meet only in the consumer
  group, which `NothingPassedOver` covers for any number of members;
  `KafkaConsumer` alone was also checked with 2 instances, 2 messages and 3
  failures of every kind (`PassedOverHasFailed`; without shutdowns,
  `EveryMessageIsTried`). Two mishaps let a process fail and be signalled while
  it goes down.
* `GW_Sessions`: two clients race for one email; three requests are a creation, a
  login and a guarded route; the clocks run past the life of a token plus the skew.

The runs without deadlock checking are those of systems that come to rest: all
events handled or messages consumed, the failure budget spent, no client calling
or no request left. `OB_Leases`, `SL_Shutdown` and `RC_Cleanup` check for deadlock.

### Faults left out of a passing run, and why

`RM_AtLeastOnce` has no vessel failures and `RM_Outages` no redelivery because
the two together are the violations below.

`CapturedNeverForgotten` and `CapturedIsAnswered` take only reservation.confirmed and
confirmation.failed for an answer: the consignment service drops a
reservation.expired once it has captured (`consignment-service/manager/event.go:205`).
They except two kinds of reservations:

* `lapsed`: the release of the lapsed reservation deleted the data key before the
  captured payment's handler came to it. The handler takes payment.captured for a
  duplicate and nobody answers. `docs/saga-overview.md:222-232` describes this
  state as stuck, and `docs/known-limitations.md` (4) and
  `docs/reconciliation-job.md` name it; `docs/saga-overview.md:155` says that the
  saga "will resolve itself".
* `alerted`: a release was given up with an ALERT in the DLQ. It needs both
  events to exhaust their retries without reaching Redis, 2 MaxRetries failures,
  which is beyond `RM_Outages` (see the disagreements below).
  With 1 retry and 4 failures, and with 2 and 4, which reach it, the property was
  checked apart, and `NeverForgotten` proves it for any bounds.

`ConfirmedIsPaid` and `UndoneIsCancelled` speak of behaviours
in which nothing has been handled twice (`duplicated`): a copy of
payment.authorised whose transaction fails until its retries are exhausted has
the payment of a confirmed consignment refunded, and one that is handled after
the cancellation brings the consignment back to confirmation_pending.
`CapturedIsPassedOn` and `LeavesPending` except consignments of which a failed
message was passed over: the error line of `consumer.go:108` promises that it
will be redelivered, and the code keeps that promise only after a restart and
only if no later offset was committed (`KC_PassedOver`).
`CM_Faults` has one authorisation per consignment; a second ConfirmConsignment
authorises and captures a second payment under the same payment id, and a
refund finds either of them (listed as a hazard). With two authorisations TLC
finds the refund of one giving back the other, which `CapturedIsPassedOn` and
`ConfirmedIsPaid` do not survive: the properties about payments speak of consignments of which the client
has started one confirmation (`ConfirmedOnce`), however many others are confirmed.
In `SL_Shutdown` a handler that fails because its context was cancelled is not
counted as failed: the process goes down without a further commit, so the
message comes back, which `PassedOverHasFailed` includes.

### Violations found

* `RM_DuplicateRetry`: an event with `cache_cleared` bypasses the token
  (`event.go:157`). Delivered twice, it is processed twice; if the vessel fails
  for the copy, its DLQ releases what the original confirmed. The vessel's index
  keeps an operation from being applied twice, not both operations from being applied.
* `RC_RefreshLapse`: `Refresh` extends only the id's TTL (`redis.go:164`).
* `CM_LateCapture`: `handlePaymentAuthorisedEvent` does not look at the status
  (`event.go:57`). When the reservation expires before the event is handled, the
  cancelled consignment is charged and becomes `confirmation_pending`; the
  reservation is gone, so nothing answers. `docs/known-limitations.md` (4)
  describes outages of the broker and of the database; this needs neither.
* `KC_PassedOver`: after a handler's error the loop reads the next message
  (`consumer.go:108`), and the failed one does not come back while the consumer
  keeps its assignment; nor later, once a higher offset is committed.

Four more disagreements were met while modelling. They follow from the models
with other constants, and keep no run of their own:

* Two handlers of one reservation.expired, one of which found Redis down, write
  retries with the same outbox key; the second is swallowed
  (`storage/postgres/outbox.go:28`) although it is the one that carries
  `cache_cleared`. The surviving retry finds no data and stops: the capacity
  stays reserved. (`ReservationManager`, 1 instance, Redis and vessel failures.)
* A duplicate that never reached Redis ends in the DLQ, whose handler reports a
  failure although the original was confirmed (`event.go:270`).
  (`ReservationManager`, redelivery and Redis failures: `NotBothOutcomes`.)
* `ReserveCapacity` looks for a vessel that fits before it looks for the
  recorded operation (`repository.go:133`), so the retry of a reservation that
  filled the vessel is told that there is none. The handler returns that error
  without compensating (`reservation-service/server/handler.go:53,60`): the call is
  refused, and what its first attempt reserved stays reserved. (`ReservationServer`,
  a lost reply.)
* When Redis is down until both the release of a lapsed reservation and the
  confirmation of its captured payment have exhausted their retries, both go to
  the DLQ's topic under the same key, and the row of the confirmation is swallowed by
  the release's as long as that is pending (`storage/postgres/outbox.go:28`). The DLQ
  handler then logs an ALERT about the release only: the captured payment is
  neither confirmed nor refunded, although the compensation table of
  `docs/saga-overview.md` says "`payment.captured` exhausts retries → DLQ and
  refunded". (`ReservationManager` with MaxRetries 1, MaxFaults 2, `redisDown`:
  `CapturedNeverForgotten` without `alerted`.)

Observations from `Gateway`, which contradict no document: a failing database is
answered like wrong credentials by Auth (401) and like an unknown id by
ConfirmConsignment (404); `user-cli` stops at the first listed user with another
password; a client whose create was stored but lost its answer can only get
500s for the same email.

## Fairness

* `ReservationManager!Fairness`: weak fairness of each consuming loop, of the
  outbox publisher (a ticker) and of the cleanup job (a ticker);
  `ConsignmentManager` the same without the cleanup job. These loops run until
  the process is stopped, and each step of theirs is a call with a timeout. That
  failures are finitely many (`MaxFaults`) stands for outages that end. Nothing
  is assumed of clients, of TTLs, or, in `ConsignmentManager`, of the reservation
  service: an answer may never come, which is why `LeavesPending` does not
  promise a final status.
* `Outbox!Fairness`: weak fairness of the ticker that starts a pass, of the steps
  of a pass, and of time. Nothing is assumed of late deliveries.
* `KafkaConsumer!ConsumerFairness`: weak fairness of the loop, of starting a
  member and of its end. `Assign` and `ReadMessage` have strong fairness, since
  `ReadMessage` of the client library times out again and again (`ReadNothing`)
  while the group coordinator makes up its mind: a member that keeps polling is
  given the partition, and what it holds.
* `ServiceLifecycle!Fairness`: the same for the consumer inside of a service, and
  weak fairness of main, of the goroutines and of the answers to requests. No
  fairness of failures, of signals or of clients. `StoppingEnds` needs that
  requests end: `GracefulStop` waits for them without a limit.
* `Gateway` has no liveness property, and no fairness.

## Proofs

All proofs hold for constants of any size, under the named ASSUMEs of the modules.

`ReservationManagerProofs`, for any reservations and instances, any
`MaxRetries > 0` and any failure budget:

* `TypeCorrect`: `Spec => []TypeOK`. The interesting part is that an event with
  exhausted retries occurs in the DLQ topic only.
* `ConfirmationIsReal`: `Spec => []ConfirmedImpliesVesselConfirm`, with every
  kind of failure. The invariant `ConfirmInv` adds what a handler knows between
  the vessel call and the insert: at "deleteID" and "confirmed" its operation has
  been applied, and only a confirmation gets to "confirmed".
* `OneOperation`: `Spec => []NoConflictingOps` if `Faults` contains neither
  `vesselDown` nor `vesselReplyLost`. The invariant `TokenInv` says where the
  token, the data key, is: in Redis, with exactly one worker about to call the
  vessel (and then no operation of the reservation has been applied), or spent.
  It needs that no message carries `cache_cleared`: without vessel failures no
  retry is scheduled after the deletion.
* `OneOutcome` (`NotBothOutcomes`) and `RefinesOutcome` (`ImplementsOutcome`)
  under `SingleDelivery`: `Faults` has no `crash`, `redelivery` or `postgresDown`,
  each of which has a handler run twice. Redis, its replies, the vessel and its
  replies may fail, and data may lapse. Here retries do carry `cache_cleared`, so
  the token is followed through them: `Token(r)` is the set of the messages and
  loops that hold it, `Chain(r)` the set of those that stand for the payment.captured
  of `r`. `OneChain` and `OneToken` say that each has at most one element, that a
  chain ends when its outcome is told, that whoever acts after a release goes on
  to release. With them every step is one of `ReservationOutcome` or a stutter
  (`OutcomeRefinesStep`). Without the assumption there are two chains, and the
  first is false (see "Violations found").
* `NeverForgotten` (`CapturedNeverForgotten`) under `Outages`: failures are of
  `redisDown`, `vesselDown` and `vesselReplyLost` only. `CapturedInv` says that
  whoever deleted the data key answers, is the chain of the payment, or was the
  release of the lapsed reservation (`lapsed`); and that a chain whose last row is
  swallowed was swallowed by an alert that is still on its way (`AlertPending`). A DEL whose reply is lost, or data that
  lapses, leaves the key gone by nobody's hand; the handlers then take the event
  for a duplicate and drop it.

`ReservationCacheProofs`, for any reservations, TTLs and intervals:

* `CacheTyped` (`TypeOK`), and `RunsSpareActive` (`ActiveNeverReported`), an action
  property: a reservation that was active when the run began, and is, has been
  seen by the first scan or has yet to be (`SeenActive`). It rests on that an id
  key which has lapsed never comes back.
* `DataOutlastsCleanup` (`NeverLapsesUnreported`) under `DataTTLCoversWait`:
  DataTTL >= TTL + MaxRefreshes (TTL - 1) + (MaxFailedRuns + 1) Interval + MaxScanTime.
  `WaitInv` compares what is left of the data with the ticks a reservation may yet
  have to wait, `WaitOf`: until its key lapses, until the next run starts unless
  the present one finds it (`Finds`), until that run ends. `RC_Cleanup` meets the
  assumption with equality, and with a tick less TLC finds a lapse, so it is the
  exact bound there. The values of `docker-compose.yaml` (6, 10 and 1 in ticks of 30 s,
  a run of up to a tick) meet it for no refresh and two failed runs, and do not
  for one refresh, which is `RC_RefreshLapse`.

`VesselRepositoryProofs`:

* `BooksWithinLimits`: the counters of a vessel never exceed its limits, whatever
  its callers do. `Fits` is checked in the transaction that reserves; a
  confirmation moves a demand from one counter to the other, and a release takes
  it away, so the bound is inductive by itself with the types of the counters and
  `Demand \in Nat`.
* `BooksMatchOperations` (`CountersMatchOperations`): the counters are sums over
  the recorded operations. `Ordered` adds that a release or a confirmation follows
  a reservation on the same vessel, and that the operations of a vessel are
  finitely many. That a sum over a finite set grows by what is inserted is proved
  by the smallest counterexample among the finite sets, ordered by inclusion.
* `BooksNeverOverbooked` (`NeverOverbooked`) follows from the two.

`ReservationServerProofs` carries this over to the service. `ImplementsRepository`
shows that every step of `ReservationServer` is a transaction of
`VesselRepository` or leaves the books alone; the only invariant it needs is that
the requests left behind by a handler name reservations (`LateRequests`).
`ServiceWithinLimits`, `ServiceMatchesOperations` and `ServiceNeverOverbooked`,
which `RS_Calls` checks, follow from the repository's theorems, and `ServiceTyped`
adds the handlers' variables. `AcceptedStaysHeld` (`AcceptedIsHeld`),
`FailuresCompensated` (`FailureIsCompensated`) and `ConfirmedStays`
(`ConfirmedNotCleanedUp`, an action property) rest on `CallInv`: what the state of a
call says of the vessel's record (`BookedAt`, `ReleasedAt`), of the data key and the
manager (`StoredAt`, `ActionAt`), and that nothing is recorded behind the call's
back unless a reply was lost (`KnownAt`).

`ConsignmentManagerProofs`, for any consignments, authorisations, instances and
`MaxRetries`, and failures of every kind:

* `ConsignmentsTyped` (`TypeOK`), with `PcsFit`: a loop is in the handler of its message.
* `RecordInv`, on which the rest is built: payment_id takes a consignment out of
  "pending" for good, so that the expiry handler has never anything to refund, and
  an answer follows a payment.captured. `MessagesKnown` says what a message tells of its origin: it names the
  authorisation the client's call has started, or was answered by the reservation service.
* `CapturedNeverLost` (`CapturedIsPassedOn`). `CarriedInv` says who looks after a
  captured payment: a message that carries its authorisation, a loop that has not
  dealt with such a message, payment.captured, an ALERT, or a message passed over.
* `ConfirmedStaysPaid` (`ConfirmedIsPaid`). As long as nothing is handled twice, the
  confirmation is in at most one place (`Token`): the call, a message, a loop, or
  payment.captured. `PaidInv` adds that whoever takes the payment for captured is
  right; a refund would need a loop with a failed confirmation, a second place, or
  a failure told by the reservation service, which excludes a confirmation.
* `UndoneStaysCancelled` (`UndoneIsCancelled`). `UndoneInv` follows the confirmation
  that a failing call or a compensation ends (`Ending`): whoever still carries its
  authorisation carries a failure (`Withdrawn`), so nobody records it or goes on with
  it; and once the payment is voided or refunded, the consignment is cancelled or
  excepted (`Settled`), or a failure that cancels it is queued or at work (`Cancelling`).

`OutboxProofs`, for any rows, instances and intervals, either store, and any
lease above the deadline:

* `TypeCorrect`: in particular no claim leaves a lease longer than the configured one.
* `OnePublisherAlways`: `Spec => []OnePublisher`. `Held` relates a lease to the
  age of the pass that took it: as long as the pass is younger than the lease,
  its rows are its own, and what is left of their lease is at least the rest of
  that age. A pass that produces is younger than the deadline, so of two passes
  with the same row one is past it.
* `MarkingIsSafe`: `Spec => []MarkedIsDelivered`. `MarkSeesDelivery` adds that a
  pass about to mark a row has seen its delivery report.

`ServiceLifecycleProofs`, for any group, any number of instances and messages:

* `ConsumerTypeCorrect` and `NothingPassedOver`, of `KafkaConsumer`. That committed
  offsets are settled is not inductive: `InOrder` adds that whoever holds a message
  has settled those before it, and that an owner about to read has settled all it
  has read. An owner whose handler was interrupted by its context is not about to
  read, because its loop looks at the context first; this is where `CheckContext` matters.
* `ServiceImplementsConsumer`: every step of a service is a step of `KafkaConsumer`
  or leaves it alone. `ProcessAt` says where main is while the consumer is off,
  runs, or has returned. With `NothingPassedOver` it gives `ServicePassesNothingOver`.
* `ServiceTyped` (`TypeOK`), `ServiceUsesOnlyOpen` (`UsesOnlyOpen`) and `ServiceReplies`
  (`RepliesBeforeExit`, an action property). `Stages` says, for each place of main,
  which resources are still to be closed (`OpenAt`), which goroutines have ended
  (`WorkersAt`), and what the server is doing (`ServerAt`).

`GatewayProofs`, for any clients, accounts, consignments, token lives and skews:

* `GatewayTypeCorrect`, `AccountsStay` (`CreatedCanLogIn`), `AnswersStayTrue`
  (`AnswersAreTrue`). What a client is told is decided some steps before it is
  told, so `Knows` says what each request under way has learnt; `Grows`, that no
  step takes such a fact back.
* `SessionsEnd` (`SessionsExpire`), `SessionsStand` (`SessionsLast`): only the
  middleware moves a request that is at the middleware (`OnlyMiddleware`), what it
  decides is `Admits` (`MiddlewareDecides`), and the clocks are never further
  apart than `MaxSkew` (`ClocksAgree`), which turns the gateway's time into the issuer's.

Every safety and action property of a passing run, and both refinements of a
specification by a component, are stated by a theorem. Only model-checked is
liveness (`CapturedIsAnswered`, `LapsedIsTakenOver`, `LeavesPending`,
`EventuallyPublished`, `StoppingEnds`, `EveryMessageIsTried`), which is out of
reach of the prover. What `SingleDelivery` and `Outages` exclude is excluded
because it is false, not because it is unproved: with Redis and vessel failures and
any one of the excluded kinds, TLC finds a counterexample to `NotBothOutcomes`
(MaxRetries 1, 4 failures) and to `CapturedNeverForgotten` (MaxRetries 2, 3 failures).

## Not modelled

* Email stub, tracing and metrics: no state that anything depends on. That a
  failing metrics server ends its process is part of `Crash`.
* `Get` and `ValidateToken` of the user service, which nothing in the repository calls.
* Parsing of arguments, files and payloads; a vessel id that is no UUID,
  after which ReserveCapacity returns without giving back what the vessel has
  reserved (`reservation-service/server/handler.go:65`);
  a negative weight, which no check refuses.
* The bodies of answers: `GetConsignments` is followed for its status only.
* A second ConfirmConsignment of one consignment: `ConsignmentManager` allows
  it (more authorisations than consignments), but no run has it, and the
  properties about payments are stated for one (`ConfirmedOnce`). Further, the
  payment service's loss of its map when it restarts (it is a mock); Mongo's
  transactions below their atomicity; the internals of Kafka beyond the
  assignment of a partition and the committed offset.

## Plan

Done: all services, with the consumer, the outboxes, the lifecycle and the
gateway around them; abstract specifications of a reservation and of the vessel's
books; refinements of both and of the consumer; proofs of all safety and action
properties of the passing runs.

Next, in this order:

1. `ConsignmentManager`: that the service keeps to `ReservationOutcome` from its
   side, i.e. that outcome and told change only as that module allows.
2. `ReservationManager`: `CapturedNeverForgotten` beyond `Outages`, with what exactly
   a lost DEL reply loses as a hypothesis on the behaviour instead of on `Faults`.
3. `ConfirmationSaga`: `ConsignmentManager` and `ReservationManager` on shared
   topics, with an abstract saga (nothing, charged and confirmed, or given back)
   as the specification to implement. What the two assume of each other is
   `ReservationOutcome`, which one implements and the other is built on; the
   composition would show the topics between them.
