--------------------------- MODULE KafkaConsumer ---------------------------
(***************************************************************************)
(* pkg/kafka/consumer.go: the loop that reads a partition, hands each      *)
(* message to a handler and commits its offset when the handler succeeds.  *)
(* All topics have one partition, so one log and one committed offset are  *)
(* modelled, and the instances of a service that share it as a group.      *)
(*                                                                         *)
(* Offsets count from one: committed is the last offset that the group     *)
(* will not read again, position the last one its owner has read.          *)
(* Starting, stopping and crashing the instances is the environment here;  *)
(* ServiceLifecycle says how a service does it.                            *)
(***************************************************************************)
EXTENDS Naturals

CONSTANTS
    Instances,    \* the members of the consumer group
    NumMessages,  \* bound: how many messages are produced
    Faults,       \* which failures the environment may inject
    MaxFaults     \* bound: how many of them one behaviour may contain

Nobody == "nobody"

ASSUME GroupAssumption    == Nobody \notin Instances
ASSUME MessagesAssumption == NumMessages \in Nat
ASSUME BoundAssumption    == MaxFaults \in Nat

Messages == 1..NumMessages

VARIABLES
    written,    \* how many messages the partition holds
    committed,  \* the group's committed offset
    owner,      \* the instance the partition is assigned to
    position,   \* the last offset its owner has read
    consumer,   \* where StartConsuming is on each instance
    cancelled,  \* whether the context of an instance is cancelled
    handled,    \* the messages some handler has finished
    failed,     \* the messages whose handler has failed on a running instance
    faults      \* how many failures have been injected

groupVars    == <<committed, owner, position>>
outcomeVars  == <<handled, failed>>
consumerVars == <<written, groupVars, consumer, cancelled, outcomeVars, faults>>

\* A consumer that is off does not run; one that has returned has closed its
\* client, or never subscribed.
Consumers == [pc  : {"off", "subscribe", "check", "read", "handle", "commit", "returned"},
              msg : {0} \cup Messages]

ConsumerTypeOK ==
    /\ written \in 0..NumMessages
    /\ committed \in 0..written
    /\ owner \in Instances \cup {Nobody}
    /\ position \in 0..written
    /\ consumer \in [Instances -> Consumers]
    /\ cancelled \in [Instances -> BOOLEAN]
    /\ handled \subseteq 1..written
    /\ failed \subseteq 1..written
    /\ faults \in 0..MaxFaults

ConsumerInit ==
    /\ written = 0
    /\ committed = 0
    /\ owner = Nobody
    /\ position = 0
    /\ consumer = [i \in Instances |-> [pc |-> "off", msg |-> 0]]
    /\ cancelled = [i \in Instances |-> FALSE]
    /\ handled = {}
    /\ failed = {}
    /\ faults = 0

Fault(kind) == kind \in Faults /\ faults < MaxFaults /\ faults' = faults + 1

At(i, pc)   == consumer[i].pc = pc
Goto(i, pc) == consumer' = [consumer EXCEPT ![i].pc = pc]
Hold(i, m)  == consumer' = [consumer EXCEPT ![i] = [pc |-> "handle", msg |-> m]]
Drop(i, pc) == consumer' = [consumer EXCEPT ![i] = [pc |-> pc, msg |-> 0]]

\* The group gives the partition up when its owner leaves or is evicted.
Leave(i) == owner' = IF owner = i THEN Nobody ELSE owner

-----------------------------------------------------------------------------
(* Kafka *)

Produce ==
    /\ written < NumMessages
    /\ written' = written + 1
    /\ UNCHANGED <<groupVars, consumer, cancelled, outcomeVars, faults>>

\* Mutant: without a committed offset, reading begins at the end of the log.
Assign_Latest(i) ==
    /\ owner = Nobody
    /\ At(i, "read")
    /\ owner' = i
    /\ position' = IF committed = 0 THEN written ELSE committed
    /\ UNCHANGED <<written, committed, consumer, cancelled, outcomeVars, faults>>

\* A member that polls is assigned the partition, and reads on from what is
\* committed; OffsetReset is "earliest" while nothing is.
Assign(i) ==
    /\ owner = Nobody
    /\ At(i, "read")
    /\ owner' = i
    /\ position' = committed
    /\ UNCHANGED <<written, committed, consumer, cancelled, outcomeVars, faults>>

\* A rebalance takes the partition from a member that polls; a member that has
\* not polled for too long, because its handler runs, is evicted.
Revoke(i) ==
    /\ owner = i
    /\ consumer[i].pc \in {"read", "handle", "commit"}
    /\ owner' = Nobody
    /\ Fault("rebalance")
    /\ UNCHANGED <<written, committed, position, consumer, cancelled, outcomeVars>>

-----------------------------------------------------------------------------
(* StartConsuming *)

SubscribeTopics(i) ==
    /\ At(i, "subscribe")
    /\ Goto(i, "check")
    /\ UNCHANGED <<written, groupVars, cancelled, outcomeVars, faults>>

SubscribeFails(i) ==
    /\ At(i, "subscribe")
    /\ Goto(i, "returned")
    /\ Fault("subscribe")
    /\ UNCHANGED <<written, groupVars, cancelled, outcomeVars>>

\* Mutant: the context is looked at once, before the loop.
CheckContext_Never(i) ==
    /\ At(i, "check")
    /\ Goto(i, "read")
    /\ UNCHANGED <<written, groupVars, cancelled, outcomeVars, faults>>

\* The head of the loop: ctx.Done, or the next ReadMessage.
CheckContext(i) ==
    /\ At(i, "check")
    /\ ~ cancelled[i]
    /\ Goto(i, "read")
    /\ UNCHANGED <<written, groupVars, cancelled, outcomeVars, faults>>

\* The deferred Close leaves the group.
ContextDone(i) ==
    /\ At(i, "check")
    /\ cancelled[i]
    /\ Drop(i, "returned")
    /\ Leave(i)
    /\ UNCHANGED <<written, committed, position, cancelled, outcomeVars, faults>>

\* A message may still be read when the context is cancelled in the meantime.
ReadMessage(i) ==
    /\ At(i, "read")
    /\ owner = i
    /\ position < written
    /\ position' = position + 1
    /\ Hold(i, position + 1)
    /\ UNCHANGED <<written, committed, owner, cancelled, outcomeVars, faults>>

\* ReadMessage times out, or fails: the loop begins again.
ReadNothing(i) ==
    /\ At(i, "read")
    /\ Goto(i, "check")
    /\ UNCHANGED <<written, groupVars, cancelled, outcomeVars, faults>>

HandlerSucceeds(i) ==
    /\ At(i, "handle")
    /\ handled' = handled \cup {consumer[i].msg}
    /\ Goto(i, "commit")
    /\ UNCHANGED <<written, groupVars, cancelled, failed, faults>>

\* The handler returns an error, of its own or because its calls were cancelled
\* with the context: the offset is not committed, and the loop goes on.
HandlerFails(i) ==
    /\ At(i, "handle")
    /\ \/ cancelled[i] /\ UNCHANGED <<failed, faults>>
       \/ failed' = failed \cup {consumer[i].msg} /\ Fault("handler")
    /\ Drop(i, "check")
    /\ UNCHANGED <<written, groupVars, cancelled, handled>>

\* CommitMessage.  The offset of a member that has lost the partition is
\* refused, unless nobody else is in the group.  An error is only logged.
CommitMessage(i) ==
    /\ At(i, "commit")
    /\ \/ owner \in {i, Nobody} /\ committed' = consumer[i].msg /\ UNCHANGED faults
       \/ owner # i /\ UNCHANGED <<committed, faults>>
       \/ UNCHANGED committed /\ Fault("commit")
    /\ Drop(i, "check")
    /\ UNCHANGED <<written, owner, position, cancelled, outcomeVars>>

ConsumerStep(i) ==
    \/ SubscribeTopics(i) \/ CheckContext(i) \/ ContextDone(i)
    \/ ReadMessage(i) \/ ReadNothing(i)
    \/ HandlerSucceeds(i) \/ HandlerFails(i) \/ CommitMessage(i)

-----------------------------------------------------------------------------
(* The instances *)

StartConsumer(i) ==
    /\ At(i, "off")
    /\ Goto(i, "subscribe")
    /\ cancelled' = [cancelled EXCEPT ![i] = FALSE]
    /\ UNCHANGED <<written, groupVars, outcomeVars, faults>>

CancelContext(i) ==
    /\ ~ At(i, "off")
    /\ ~ cancelled[i]
    /\ cancelled' = [cancelled EXCEPT ![i] = TRUE]
    /\ UNCHANGED <<written, groupVars, consumer, outcomeVars, faults>>

\* The process ends, or dies: the group notices when its heartbeats stop.
StopConsumer(i) ==
    /\ Drop(i, "off")
    /\ Leave(i)
    /\ UNCHANGED <<written, committed, position, cancelled, outcomeVars>>

ConsumerNext ==
    \/ Produce
    \/ \E i \in Instances :
          \/ Assign(i) \/ Revoke(i) \/ ConsumerStep(i) \/ SubscribeFails(i)
          \/ StartConsumer(i)
          \/ CancelContext(i) /\ "shutdown" \in Faults
          \/ StopConsumer(i) /\ At(i, "returned") /\ UNCHANGED faults
          \/ StopConsumer(i) /\ ~ At(i, "off") /\ Fault("crash")

ConsumerSpec == ConsumerInit /\ [][ConsumerNext]_consumerVars

\* The members run, poll and are assigned the partition, and handlers return.
ConsumerFairness ==
    \A i \in Instances :
        /\ WF_consumerVars(StartConsumer(i))
        /\ WF_consumerVars(StopConsumer(i) /\ At(i, "returned") /\ UNCHANGED faults)
        /\ SF_consumerVars(Assign(i))
        /\ SF_consumerVars(ReadMessage(i))
        /\ WF_consumerVars(ConsumerStep(i))

FairConsumerSpec == ConsumerSpec /\ ConsumerFairness

-----------------------------------------------------------------------------
(* Properties *)

Settled(m) == m \in handled \/ m \in failed

\* What the group will not read again was handled, or has failed on a running
\* instance: neither a crash nor a shutdown, a rebalance or a lost commit in
\* the middle of a message makes the group pass it over.
PassedOverHasFailed == \A m \in 1..committed : Settled(m)

\* Every message is handed to a handler until one finishes it or fails.
EveryMessageIsTried == \A m \in Messages : written >= m ~> Settled(m)

\* The message of a failed handler is delivered again.
\* consumer.go:108: "handler failed - offset not committed, message will be
\* redelivered".
FailedIsRedelivered ==
    \A m \in Messages :
        m \in failed ~> m \in handled \/ \E i \in Instances : consumer[i].msg = m
=============================================================================
