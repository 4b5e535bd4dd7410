------------------------- MODULE ServiceLifecycle -------------------------
(***************************************************************************)
(* How the services start, run and stop: the main functions under cmd/,    *)
(* manager.Start and GRPCServe, around the Kafka consumer.                 *)
(*                                                                         *)
(* Main opens its resources one by one and defers their closing.  The      *)
(* consignment and the reservation service then start their goroutines,    *)
(* wait for a signal or for one of them to fail, stop the gRPC server      *)
(* gracefully, wait for the goroutines and return.  The vessel, payment    *)
(* and user service serve from main, and stop from a goroutine that waits  *)
(* for a signal; the gateway does not handle signals.                      *)
(*                                                                         *)
(* The goroutine "events" runs StartConsuming of KafkaConsumer.  A process *)
(* that is down is started again by its deployment.                        *)
(***************************************************************************)
EXTENDS KafkaConsumer, Sequences

CONSTANTS
    Kinds,          \* the services to look at
    ConnectRetries, \* how often a failed first Ping of a database is repeated
    Mishaps,        \* which mishaps may befall a process
    MaxMishaps      \* bound: how many of them one behaviour may contain

ManagerKinds == {"consignment", "reservation"}

MishapKinds ==
    { "startup",    \* a step of main fails
      "listen",     \* the address cannot be listened on
      "serve",      \* the listener fails while it is served
      "shutdown" }  \* SIGTERM

ASSUME KindsAssumption ==
    Kinds \subseteq ManagerKinds \cup {"vessel", "payment", "user", "gateway"}
ASSUME RetriesAssumption == ConnectRetries \in Nat
ASSUME MishapsAssumption == Mishaps \subseteq MishapKinds /\ MaxMishaps \in Nat
ASSUME ShutdownAssumption == "shutdown" \in Faults \* contexts are cancelled

VARIABLES
    kind,      \* which service this is
    main,      \* where main is on each instance
    step,      \* the step of the start-up it has reached
    retry,     \* the repetitions of a Ping so far
    open,      \* the resources whose deferred closing is pending
    worker,    \* the goroutines
    errCh,     \* the error channels that hold an error
    server,    \* the gRPC or HTTP server
    rpc,       \* the instances that are in the middle of a request
    mishaps    \* how many mishaps have befallen

processVars == <<main, step, retry, open, worker, errCh, server, rpc>>
vars        == <<consumerVars, kind, processVars, mishaps>>

Goroutines == {"outbox", "cleanup", "events", "grpc", "signal"}

MainPcs ==
    {"down", "starting", "launch", "select", "serve", "serving", "graceful", "wait", "close"}
WorkerPcs == {"none", "running", "serving", "stopping", "sending", "done"}

-----------------------------------------------------------------------------
(* The services *)

\* The steps of main before its goroutines, in order.
ConsignmentStartup ==
    <<"tracer", "db", "reservationConn", "paymentConn", "topics", "producer", "consumer">>
ReservationStartup ==
    <<"tracer", "vesselConn", "db", "topics", "producer", "consumer">>
VesselStartup  == <<"db", "indexes", "tracer", "listener">>
PaymentStartup == <<"tracer", "listener">>
UserStartup    == <<"db", "listener">>
GatewayStartup == <<"tracer", "userConn", "consignmentConn">>

Startup ==
    CASE kind = "consignment" -> ConsignmentStartup
      [] kind = "reservation" -> ReservationStartup
      [] kind = "vessel"      -> VesselStartup
      [] kind = "payment"     -> PaymentStartup
      [] kind = "user"        -> UserStartup
      [] kind = "gateway"     -> GatewayStartup

\* What main defers closing; the reservation service never closes its database,
\* and nobody a producer.
Deferred ==
    {"tracer", "reservationConn", "paymentConn", "vesselConn", "userConn", "consignmentConn"}
        \cup (IF kind = "reservation" THEN {} ELSE {"db"})

\* CreateClient, CreateMongoClient and CreatePostgresClient repeat the first
\* Ping; NewDB of the reservation service does not.
Retried == IF kind = "reservation" THEN {} ELSE {"db"}

\* Where an error ends the process at once, the deferred calls are not made:
\* log.Fatal, but neither log.Panic nor an error returned from run.
Fatal ==
    CASE kind \in ManagerKinds -> {}
      [] kind = "gateway"      -> {"tracer", "userConn", "consignmentConn"}
      [] OTHER                 -> {"tracer", "listener"}

Workers ==
    CASE kind = "consignment" -> {"outbox", "events", "grpc"}
      [] kind = "reservation" -> {"outbox", "cleanup", "events", "grpc"}
      [] kind = "gateway"     -> {}
      [] OTHER                -> {"signal"}

\* The resources a request, or a goroutine at work, depends on.
Uses(who) ==
    CASE kind = "consignment" /\ who = "rpc"    -> {"tracer", "db", "reservationConn", "paymentConn"}
      [] kind = "consignment" /\ who = "outbox" -> {"tracer", "db"}
      [] kind = "consignment"                   -> {"tracer", "db", "paymentConn"}
      [] kind = "reservation" /\ who \in {"rpc", "events"} -> {"tracer", "vesselConn"}
      [] kind = "gateway"                       -> {"tracer", "userConn", "consignmentConn"}
      [] kind = "vessel"                        -> {"db", "tracer"}
      [] kind = "user"                          -> {"db"}
      [] OTHER                                  -> {"tracer"}

TypeOK ==
    /\ ConsumerTypeOK
    /\ kind \in Kinds
    /\ main \in [Instances -> MainPcs]
    /\ step \in [Instances -> Nat]
    /\ retry \in [Instances -> 0..ConnectRetries]
    /\ open \in [Instances -> SUBSET Deferred]
    /\ worker \in [Instances -> [Goroutines -> WorkerPcs]]
    /\ errCh \in [Instances -> SUBSET {"manager", "grpc"}]
    /\ server \in [Instances -> {"new", "serving", "broken", "draining", "stopped"}]
    /\ rpc \subseteq Instances
    /\ mishaps \in 0..MaxMishaps

NoWorkers == [g \in Goroutines |-> "none"]

Init ==
    /\ ConsumerInit
    /\ kind \in Kinds
    /\ main = [i \in Instances |-> "down"]
    /\ step = [i \in Instances |-> 0]
    /\ retry = [i \in Instances |-> 0]
    /\ open = [i \in Instances |-> {}]
    /\ worker = [i \in Instances |-> NoWorkers]
    /\ errCh = [i \in Instances |-> {}]
    /\ server = [i \in Instances |-> "new"]
    /\ rpc = {}
    /\ mishaps = 0

Mishap(k) == k \in Mishaps /\ mishaps < MaxMishaps /\ mishaps' = mishaps + 1

GoMain(i, pc)      == main' = [main EXCEPT ![i] = pc]
GoWorker(i, g, pc) == worker' = [worker EXCEPT ![i][g] = pc]

-----------------------------------------------------------------------------
(* Start-up *)

Boot(i) ==
    /\ main[i] = "down"
    /\ GoMain(i, "starting")
    /\ step' = [step EXCEPT ![i] = 1]
    /\ UNCHANGED <<consumerVars, kind, retry, open, worker, errCh, server, rpc, mishaps>>

Resource(i) == Startup[step[i]]

\* A step succeeds.
Advance(i) ==
    /\ main[i] = "starting"
    /\ open' = [open EXCEPT ![i] = @ \cup ({Resource(i)} \cap Deferred)]
    /\ retry' = [retry EXCEPT ![i] = 0]
    /\ step' = [step EXCEPT ![i] = @ + 1]
    /\ GoMain(i, IF step[i] = Len(Startup) THEN "launch" ELSE "starting")
    /\ UNCHANGED <<consumerVars, kind, worker, errCh, server, rpc, mishaps>>

\* Mutant: the number of repetitions is compared after it is counted up.
RetryConnect_OffByOne(i) ==
    /\ main[i] = "starting"
    /\ Resource(i) \in Retried
    /\ retry[i] <= ConnectRetries
    /\ Mishap("startup")
    /\ retry' = [retry EXCEPT ![i] = @ + 1]
    /\ UNCHANGED <<consumerVars, kind, main, step, open, worker, errCh, server, rpc>>

\* The database does not answer the Ping; it is tried again two seconds later.
RetryConnect(i) ==
    /\ main[i] = "starting"
    /\ Resource(i) \in Retried
    /\ retry[i] < ConnectRetries
    /\ Mishap("startup")
    /\ retry' = [retry EXCEPT ![i] = @ + 1]
    /\ UNCHANGED <<consumerVars, kind, main, step, open, worker, errCh, server, rpc>>

\* A step fails for good: main returns through its deferred calls, or ends.
StartupFails(i) ==
    /\ main[i] = "starting"
    /\ Resource(i) \in Retried => retry[i] = ConnectRetries
    /\ Resource(i) \notin Fatal
    /\ Mishap("startup")
    /\ GoMain(i, "close")
    /\ UNCHANGED <<consumerVars, kind, step, retry, open, worker, errCh, server, rpc>>

\* The process is gone, and nothing of it remains.
Gone(i) ==
    /\ GoMain(i, "down")
    /\ step' = [step EXCEPT ![i] = 0]
    /\ retry' = [retry EXCEPT ![i] = 0]
    /\ open' = [open EXCEPT ![i] = {}]
    /\ worker' = [worker EXCEPT ![i] = NoWorkers]
    /\ errCh' = [errCh EXCEPT ![i] = {}]
    /\ server' = [server EXCEPT ![i] = "new"]
    /\ rpc' = rpc \ {i}

StartupFatal(i) ==
    /\ main[i] = "starting"
    /\ Resource(i) \in Fatal
    /\ Mishap("startup")
    /\ Gone(i)
    /\ UNCHANGED <<consumerVars, kind>>

\* The manager's goroutines and the server's are started, and main waits.
Launch(i) ==
    /\ main[i] = "launch"
    /\ worker' = [worker EXCEPT ![i] = [g \in Goroutines |->
                     IF g \in Workers THEN "running" ELSE "none"]]
    /\ IF kind \in ManagerKinds
       THEN StartConsumer(i) /\ GoMain(i, "select")
       ELSE UNCHANGED consumerVars /\ GoMain(i, "serve")
    /\ UNCHANGED <<kind, step, retry, open, errCh, server, rpc, mishaps>>

-----------------------------------------------------------------------------
(* Goroutines *)

\* The outbox publisher and the cleanup job are at work until their select
\* finds the context done, which it may miss for some ticks; the calls of a tick
\* return at once when the context is cancelled.
TickerStops(i, g) ==
    /\ g \in {"outbox", "cleanup"}
    /\ worker[i][g] = "running"
    /\ cancelled[i]
    /\ GoWorker(i, g, "done")
    /\ UNCHANGED <<consumerVars, kind, main, step, retry, open, errCh, server, rpc, mishaps>>

\* processEvents returns the error of StartConsuming, ctx.Err() included.
EventsReturn(i) ==
    /\ worker[i]["events"] = "running"
    /\ At(i, "returned")
    /\ GoWorker(i, "events", "sending")
    /\ UNCHANGED <<consumerVars, kind, main, step, retry, open, errCh, server, rpc, mishaps>>

\* GRPCServe: Listen and Serve.  A server that was stopped before says so.
Serve(i) ==
    /\ worker[i]["grpc"] = "running"
    /\ IF server[i] = "new"
       THEN GoWorker(i, "grpc", "serving") /\ server' = [server EXCEPT ![i] = "serving"]
       ELSE GoWorker(i, "grpc", "sending") /\ UNCHANGED server
    /\ UNCHANGED <<consumerVars, kind, main, step, retry, open, errCh, rpc, mishaps>>

ListenFails(i) ==
    /\ worker[i]["grpc"] = "running"
    /\ Mishap("listen")
    /\ GoWorker(i, "grpc", "sending")
    /\ UNCHANGED <<consumerVars, kind, main, step, retry, open, errCh, server, rpc>>

\* Accept fails: Serve returns, while requests go on.
ServeFails(i) ==
    /\ worker[i]["grpc"] = "serving"
    /\ server[i] = "serving"
    /\ Mishap("serve")
    /\ GoWorker(i, "grpc", "sending")
    /\ server' = [server EXCEPT ![i] = "broken"]
    /\ UNCHANGED <<consumerVars, kind, main, step, retry, open, errCh, rpc>>

\* Serve waits for GracefulStop, and returns no error.
ServeReturns(i) ==
    /\ worker[i]["grpc"] = "serving"
    /\ server[i] = "stopped"
    /\ GoWorker(i, "grpc", "done")
    /\ UNCHANGED <<consumerVars, kind, main, step, retry, open, errCh, server, rpc, mishaps>>

Channel(g) == IF g = "events" THEN "manager" ELSE "grpc"

\* Mutant: the channel has no buffer.
CanSend_Unbuffered(i, g) == main[i] = "select"

\* Both channels are made with room for one error.
CanSend(i, g) == Channel(g) \notin errCh[i]

SendError(i, g) ==
    /\ worker[i][g] = "sending"
    /\ CanSend(i, g)
    /\ errCh' = [errCh EXCEPT ![i] = @ \cup {Channel(g)}]
    /\ GoWorker(i, g, "done")
    /\ UNCHANGED <<consumerVars, kind, main, step, retry, open, server, rpc, mishaps>>

-----------------------------------------------------------------------------
(* Requests *)

Accept(i) ==
    /\ server[i] = "serving"
    /\ i \notin rpc
    /\ rpc' = rpc \cup {i}
    /\ UNCHANGED <<consumerVars, kind, main, step, retry, open, worker, errCh, server, mishaps>>

Reply(i) ==
    /\ i \in rpc
    /\ rpc' = rpc \ {i}
    /\ UNCHANGED <<consumerVars, kind, main, step, retry, open, worker, errCh, server, mishaps>>

-----------------------------------------------------------------------------
(* The end of the consignment and the reservation service *)

\* SIGTERM cancels the context.
Signal(i) ==
    /\ main[i] = "select"
    /\ Mishap("shutdown")
    /\ CancelContext(i)
    /\ UNCHANGED <<kind, processVars>>

SelectDone(i) ==
    /\ main[i] = "select"
    /\ cancelled[i]
    /\ GoMain(i, "graceful")
    /\ UNCHANGED <<consumerVars, kind, step, retry, open, worker, errCh, server, rpc, mishaps>>

\* A goroutine has failed: main cancels the context of the others.
SelectError(i, ch) ==
    /\ main[i] = "select"
    /\ ch \in errCh[i]
    /\ errCh' = [errCh EXCEPT ![i] = @ \ {ch}]
    /\ GoMain(i, "graceful")
    /\ IF cancelled[i] THEN UNCHANGED consumerVars ELSE CancelContext(i)
    /\ UNCHANGED <<kind, step, retry, open, worker, server, rpc, mishaps>>

\* GracefulStop, of main or of the goroutine that waits for a signal, closes
\* the listener and lets requests finish.
GracefulStop(i) ==
    /\ main[i] = "graceful" \/ worker[i]["signal"] = "stopping"
    /\ server[i] \in {"new", "serving", "broken"}
    /\ server' = [server EXCEPT ![i] = "draining"]
    /\ UNCHANGED <<consumerVars, kind, main, step, retry, open, worker, errCh, rpc, mishaps>>

\* Mutant: the server is stopped without waiting for its requests.
Drained_Stops(i) ==
    /\ server[i] = "draining"
    /\ server' = [server EXCEPT ![i] = "stopped"]
    /\ IF main[i] = "graceful"
       THEN GoMain(i, "wait") /\ UNCHANGED worker
       ELSE GoWorker(i, "signal", "done") /\ UNCHANGED main
    /\ UNCHANGED <<consumerVars, kind, step, retry, open, errCh, rpc, mishaps>>

Drained(i) ==
    /\ server[i] = "draining"
    /\ i \notin rpc
    /\ server' = [server EXCEPT ![i] = "stopped"]
    /\ IF main[i] = "graceful"
       THEN GoMain(i, "wait") /\ UNCHANGED worker
       ELSE GoWorker(i, "signal", "done") /\ UNCHANGED main
    /\ UNCHANGED <<consumerVars, kind, step, retry, open, errCh, rpc, mishaps>>

\* Mutant: the goroutines are not waited for.
Wait_Forgets(i) ==
    /\ main[i] = "wait"
    /\ GoMain(i, "close")
    /\ UNCHANGED <<consumerVars, kind, step, retry, open, worker, errCh, server, rpc, mishaps>>

\* wg.Wait.
Wait(i) ==
    /\ main[i] = "wait"
    /\ \A g \in Workers : worker[i][g] = "done"
    /\ GoMain(i, "close")
    /\ UNCHANGED <<consumerVars, kind, step, retry, open, worker, errCh, server, rpc, mishaps>>

\* The deferred calls, the last one first.
Close(i) ==
    \E n \in 1..Len(Startup) :
        /\ main[i] = "close"
        /\ Startup[n] \in open[i]
        /\ \A k \in n+1..Len(Startup) : Startup[k] \notin open[i]
        /\ open' = [open EXCEPT ![i] = @ \ {Startup[n]}]
        /\ UNCHANGED <<consumerVars, kind, main, step, retry, worker, errCh, server, rpc, mishaps>>

\* Main returns, and with it the process ends.
Exit(i) ==
    /\ main[i] = "close"
    /\ open[i] = {}
    /\ Gone(i)
    /\ IF At(i, "off") THEN UNCHANGED consumerVars ELSE StopConsumer(i) /\ UNCHANGED faults
    /\ UNCHANGED <<kind, mishaps>>

-----------------------------------------------------------------------------
(* The end of the other services *)

\* SIGTERM wakes up the goroutine.
SignalGoroutine(i) ==
    /\ worker[i]["signal"] = "running"
    /\ Mishap("shutdown")
    /\ GoWorker(i, "signal", "stopping")
    /\ UNCHANGED <<consumerVars, kind, main, step, retry, open, errCh, server, rpc>>

\* Main calls Serve.
ServeFromMain(i) ==
    /\ main[i] = "serve"
    /\ server[i] = "new"
    /\ GoMain(i, "serving")
    /\ server' = [server EXCEPT ![i] = "serving"]
    /\ UNCHANGED <<consumerVars, kind, step, retry, open, worker, errCh, rpc, mishaps>>

\* A server that was stopped before says so, and main ends the process.
ServerStopped(i) ==
    /\ main[i] = "serve"
    /\ server[i] # "new"
    /\ Gone(i)
    /\ UNCHANGED <<consumerVars, kind, mishaps>>

\* Serve returns an error to main, which ends the process.
ServeFatal(i) ==
    /\ main[i] = "serving"
    /\ server[i] = "serving"
    /\ Mishap("serve")
    /\ Gone(i)
    /\ UNCHANGED <<consumerVars, kind>>

\* Serve waits for GracefulStop, and returns no error.
ServeEnds(i) ==
    /\ main[i] = "serving"
    /\ server[i] = "stopped"
    /\ GoMain(i, "close")
    /\ UNCHANGED <<consumerVars, kind, step, retry, open, worker, errCh, server, rpc, mishaps>>

\* SIGTERM where it is not handled: while main starts, and in the gateway.
Killed(i) ==
    /\ \/ main[i] \in {"starting", "launch"}
       \/ kind = "gateway" /\ main[i] = "serving"
    /\ Mishap("shutdown")
    /\ Gone(i)
    /\ UNCHANGED <<consumerVars, kind>>

\* The process dies; so it does when the metrics server fails.
Crash(i) ==
    /\ ~ At(i, "off")
    /\ Fault("crash")
    /\ StopConsumer(i)
    /\ Gone(i)
    /\ UNCHANGED <<kind, mishaps>>

-----------------------------------------------------------------------------
Group(i) == (Assign(i) \/ Revoke(i) \/ ConsumerStep(i) \/ SubscribeFails(i))
                /\ UNCHANGED <<kind, processVars, mishaps>>

ProcessStep(i) ==
    \/ Boot(i) \/ Advance(i) \/ Launch(i)
    \/ \E g \in {"outbox", "cleanup"} : TickerStops(i, g)
    \/ EventsReturn(i) \/ Serve(i) \/ ServeReturns(i)
    \/ \E g \in {"events", "grpc"} : SendError(i, g)
    \/ SelectDone(i) \/ \E ch \in {"manager", "grpc"} : SelectError(i, ch)
    \/ GracefulStop(i) \/ Drained(i) \/ Wait(i) \/ Close(i) \/ Exit(i)
    \/ ServeFromMain(i) \/ ServeEnds(i) \/ ServerStopped(i)

Next ==
    \/ Produce /\ kind \in ManagerKinds /\ UNCHANGED <<kind, processVars, mishaps>>
    \/ \E i \in Instances :
          \/ Group(i) \/ ProcessStep(i) \/ Accept(i) \/ Reply(i)
          \/ RetryConnect(i) \/ StartupFails(i) \/ StartupFatal(i)
          \/ ListenFails(i) \/ ServeFails(i) \/ ServeFatal(i)
          \/ Signal(i) \/ SignalGoroutine(i) \/ Killed(i) \/ Crash(i)

Spec == Init /\ [][Next]_vars

\* Goroutines are scheduled, calls and requests end, and the group gives the
\* partition to a member that polls.
Fairness ==
    \A i \in Instances :
        /\ WF_vars(ProcessStep(i))
        /\ WF_vars(Reply(i))
        /\ WF_vars(ConsumerStep(i) /\ UNCHANGED <<kind, processVars, mishaps>>)
        /\ SF_vars(ReadMessage(i) /\ UNCHANGED <<kind, processVars, mishaps>>)
        /\ SF_vars(Assign(i) /\ UNCHANGED <<kind, processVars, mishaps>>)

FairSpec == Spec /\ Fairness

-----------------------------------------------------------------------------
(* Properties *)

AtWork(i) ==
    {g \in {"outbox", "cleanup"} : worker[i][g] = "running"}
        \cup {g \in {"events"} : At(i, "handle")}
        \cup {g \in {"rpc"} : i \in rpc}

\* Nothing that is at work uses a client or a connection that main has closed:
\* the deferred calls come after GracefulStop and wg.Wait.
UsesOnlyOpen ==
    \A i \in Instances : \A who \in AtWork(i) : Uses(who) \subseteq open[i]

\* A request that a server has accepted is answered before its process ends,
\* unless the process dies.
RepliesBeforeExit ==
    [][\A i \in rpc : main'[i] = "down" => mishaps' > mishaps \/ faults' > faults]_vars

Stopping(i) ==
    \/ cancelled[i] /\ ~ At(i, "off")
    \/ \E g \in Goroutines : worker[i][g] = "sending"
    \/ worker[i]["signal"] = "stopping"

\* A process that is told to stop, or one of whose goroutines has failed, ends:
\* no goroutine is stuck on a channel nobody reads any more, and none is
\* waited for that does not see its context done.
StoppingEnds == \A i \in Instances : Stopping(i) ~> main[i] = "down"

\* The consumer inside of a service behaves as KafkaConsumer says.
ImplementsConsumer == ConsumerSpec

=============================================================================
