----------------------- MODULE ServiceLifecycleProofs -----------------------
(***************************************************************************)
(* Proofs about KafkaConsumer, for every number of instances, messages and *)
(* failures of every kind, and about ServiceLifecycle, whose processes run *)
(* such a consumer each.                                                   *)
(*                                                                         *)
(* That the group passes over a message only if its handler failed is not  *)
(* inductive: it says nothing of the messages between the committed offset *)
(* and the position.  The invariant adds that whoever holds a message has  *)
(* settled those before it, and that an owner about to read has settled    *)
(* all it has read; an owner whose handler was interrupted is not about to *)
(* read, since its loop looks at the context first.                        *)
(*                                                                         *)
(* The consumer inside of a service then behaves as KafkaConsumer says:    *)
(* whatever main does with its goroutines, a process that ends by itself   *)
(* has a consumer that has returned or was never started, and no process   *)
(* starts a second one.  What the consumer guarantees, the service does.   *)
(*                                                                         *)
(* What a process has open is proved from where main and its goroutines    *)
(* are in their code: nothing is closed that a goroutine could still use,  *)
(* and a server that stops answers what it has accepted.                   *)
(***************************************************************************)
EXTENDS ServiceLifecycle, TLAPS

-----------------------------------------------------------------------------
(* The consumer *)

SettledUpTo(n) == \A m \in Messages : m <= n => Settled(m)

InOrderAt(i) ==
    /\ consumer[i].pc \in {"handle", "commit"} =>
           consumer[i].msg \in 1..written /\ SettledUpTo(consumer[i].msg - 1)
    /\ consumer[i].pc = "commit" => consumer[i].msg \in handled
    /\ owner = i =>
           /\ consumer[i].pc \in {"check", "read", "handle", "commit"}
           /\ consumer[i].pc \in {"handle", "commit"} => consumer[i].msg = position
           /\ consumer[i].pc = "read" \/ (consumer[i].pc = "check" /\ ~ cancelled[i])
                  => SettledUpTo(position)

InOrder == SettledUpTo(committed) /\ \A i \in Instances : InOrderAt(i)

ConsumerInv == ConsumerTypeOK /\ InOrder

USE DEF Messages

LEMMA ConsumerTypeInit == ConsumerInit => ConsumerTypeOK
  BY MessagesAssumption, BoundAssumption DEF ConsumerInit, ConsumerTypeOK, Consumers

LEMMA ConsumerFields ==
    ASSUME ConsumerTypeOK, NEW i \in Instances
    PROVE  /\ consumer[i] \in Consumers
           /\ consumer[i].pc \in {"off", "subscribe", "check", "read", "handle", "commit", "returned"}
           /\ consumer[i].msg \in {0} \cup Messages
  BY DEF ConsumerTypeOK, Consumers

\* What Goto, Hold and Drop make of the consumers.
LEMMA ConsumerMoves ==
    ASSUME ConsumerTypeOK, NEW i \in Instances,
           NEW pc \in {"off", "subscribe", "check", "read", "handle", "commit", "returned"},
           NEW m \in {0} \cup Messages,
           \/ Goto(i, pc) /\ m = consumer[i].msg
           \/ Drop(i, pc) /\ m = 0
           \/ Hold(i, m) /\ pc = "handle"
    PROVE  /\ consumer' \in [Instances -> Consumers]
           /\ consumer'[i].pc = pc /\ consumer'[i].msg = m
           /\ \A j \in Instances \ {i} : consumer'[j] = consumer[j]
  <1>1. consumer \in [Instances -> Consumers]
    BY DEF ConsumerTypeOK
  <1>2. CASE Goto(i, pc) /\ m = consumer[i].msg
    <2>1. consumer' = [consumer EXCEPT ![i] = [consumer[i] EXCEPT !.pc = pc]]
      BY <1>2 DEF Goto
    <2>2. /\ [consumer[i] EXCEPT !.pc = pc] \in Consumers
          /\ [consumer[i] EXCEPT !.pc = pc].pc = pc
          /\ [consumer[i] EXCEPT !.pc = pc].msg = consumer[i].msg
      BY ConsumerFields DEF Consumers
    <2>3. QED
      BY <1>1, <1>2, <2>1, <2>2
  <1>3. CASE consumer' = [consumer EXCEPT ![i] = [pc |-> pc, msg |-> m]]
    <2>1. [pc |-> pc, msg |-> m] \in Consumers
      BY DEF Consumers
    <2>2. QED
      BY <1>1, <1>3, <2>1
  <1>4. CASE Drop(i, pc) /\ m = 0
    BY <1>3, <1>4 DEF Drop
  <1>5. CASE Hold(i, m) /\ pc = "handle"
    BY <1>3, <1>5 DEF Hold
  <1>6. QED
    BY <1>2, <1>4, <1>5

\* The initial states satisfy the invariant.
LEMMA ConsumerInitInv == ConsumerInit => ConsumerInv
  BY ConsumerTypeInit, MessagesAssumption, GroupAssumption
     DEF ConsumerInit, ConsumerInv, InOrder, InOrderAt, SettledUpTo

\* A step of one instance leaves what holds of the others.
LEMMA StepOfOne ==
    ASSUME ConsumerInv, NEW i \in Instances, ConsumerTypeOK',
           \A j \in Instances \ {i} :
               /\ consumer'[j] = consumer[j]
               /\ cancelled[j] => cancelled'[j]
               /\ owner' = j => owner = j /\ position' = position,
           handled \subseteq handled', failed \subseteq failed', written <= written',
           SettledUpTo(committed)', InOrderAt(i)'
    PROVE  ConsumerInv'
  <1>1. ASSUME NEW j \in Instances \ {i}
        PROVE  InOrderAt(j)'
    <2>1. /\ InOrderAt(j) /\ consumer'[j] = consumer[j]
          /\ cancelled[j] => cancelled'[j]
          /\ owner' = j => owner = j /\ position' = position
      BY DEF ConsumerInv, InOrder
    <2>2. /\ written \in Nat /\ written' \in Nat
          /\ consumer[j].msg \in Nat /\ position \in Nat
      BY ConsumerFields, MessagesAssumption DEF ConsumerInv, ConsumerTypeOK
    <2>3. (consumer[j].pc \in {"handle", "commit"} =>
              consumer[j].msg \in 1..written /\ SettledUpTo(consumer[j].msg - 1))'
      BY <2>1, <2>2 DEF InOrderAt, SettledUpTo, Settled
    <2>4. (consumer[j].pc = "commit" => consumer[j].msg \in handled)'
      BY <2>1 DEF InOrderAt
    <2>5. (owner = j =>
           /\ consumer[j].pc \in {"check", "read", "handle", "commit"}
           /\ consumer[j].pc \in {"handle", "commit"} => consumer[j].msg = position
           /\ consumer[j].pc = "read" \/ (consumer[j].pc = "check" /\ ~ cancelled[j])
                  => SettledUpTo(position))'
      BY <2>1, <2>2 DEF InOrderAt, SettledUpTo, Settled
    <2>6. QED
      BY <2>3, <2>4, <2>5 DEF InOrderAt
  <1>2. QED
    BY <1>1 DEF ConsumerInv, InOrder

\* Messages are written at the end of the log.
LEMMA ProduceInv == ConsumerInv /\ Produce => ConsumerInv'
  <1> SUFFICES ASSUME ConsumerInv, Produce PROVE ConsumerInv'
    OBVIOUS
  <1>1. ConsumerTypeOK'
    BY MessagesAssumption
       DEF ConsumerInv, ConsumerTypeOK, Produce, groupVars, outcomeVars
  <1>2. InOrder'
    BY MessagesAssumption
       DEF ConsumerInv, ConsumerTypeOK, InOrder, InOrderAt, SettledUpTo, Settled, Produce,
           groupVars, outcomeVars
  <1>3. QED
    BY <1>1, <1>2 DEF ConsumerInv

\* A new owner reads on from the committed offset, up to which all is settled.
LEMMA AssignInv ==
    ASSUME ConsumerInv, NEW i \in Instances, Assign(i)
    PROVE  ConsumerInv'
  <1>1. consumer' = consumer
    BY DEF Assign
  <1>2. ConsumerTypeOK'
    BY <1>1, ConsumerFields, MessagesAssumption
       DEF ConsumerInv, ConsumerTypeOK, InOrder, InOrderAt, At, Assign, outcomeVars
  <1>3. SettledUpTo(committed)'
    BY <1>1, ConsumerFields
       DEF ConsumerInv, ConsumerTypeOK, InOrder, InOrderAt, SettledUpTo, Settled,
           At, Assign, outcomeVars
  <1>4. InOrderAt(i)'
    BY <1>1, ConsumerFields, MessagesAssumption, GroupAssumption
       DEF ConsumerInv, ConsumerTypeOK, InOrder, InOrderAt, SettledUpTo, Settled,
           At, Assign, outcomeVars
  <1>5. QED
    BY <1>1, <1>2, <1>3, <1>4, StepOfOne, GroupAssumption
       DEF ConsumerInv, ConsumerTypeOK, Assign, outcomeVars

\* Without an owner, nothing is asked of the position.
LEMMA RevokeInv ==
    ASSUME ConsumerInv, NEW i \in Instances, Revoke(i)
    PROVE  ConsumerInv'
  <1>1. consumer' = consumer
    BY DEF Revoke
  <1>2. ConsumerTypeOK'
    BY <1>1, ConsumerFields, MessagesAssumption, BoundAssumption
       DEF ConsumerInv, ConsumerTypeOK, InOrder, InOrderAt, Revoke, Fault,
           outcomeVars
  <1>3. SettledUpTo(committed)'
    BY <1>1, ConsumerFields
       DEF ConsumerInv, ConsumerTypeOK, InOrder, InOrderAt, SettledUpTo, Settled,
           Revoke, outcomeVars
  <1>4. InOrderAt(i)'
    BY <1>1, ConsumerFields, MessagesAssumption, GroupAssumption
       DEF ConsumerInv, ConsumerTypeOK, InOrder, InOrderAt, SettledUpTo, Settled,
           Revoke, outcomeVars
  <1>5. QED
    BY <1>1, <1>2, <1>3, <1>4, StepOfOne, GroupAssumption
       DEF ConsumerInv, ConsumerTypeOK, Revoke, outcomeVars

\* A consumer that has just subscribed owns nothing.
LEMMA SubscribeTopicsInv ==
    ASSUME ConsumerInv, NEW i \in Instances, SubscribeTopics(i)
    PROVE  ConsumerInv'
  <1>1. /\ consumer' \in [Instances -> Consumers]
        /\ consumer'[i].pc = "check" /\ consumer'[i].msg = consumer[i].msg
        /\ \A j \in Instances \ {i} : consumer'[j] = consumer[j]
    BY ConsumerMoves, ConsumerFields, MessagesAssumption
       DEF ConsumerInv, ConsumerTypeOK, SubscribeTopics
  <1>2. ConsumerTypeOK'
    BY <1>1, ConsumerFields, MessagesAssumption
       DEF ConsumerInv, ConsumerTypeOK, InOrder, InOrderAt, At, SubscribeTopics,
           groupVars, outcomeVars
  <1>3. SettledUpTo(committed)'
    BY <1>1, ConsumerFields
       DEF ConsumerInv, ConsumerTypeOK, InOrder, InOrderAt, SettledUpTo, Settled,
           At, SubscribeTopics, groupVars, outcomeVars
  <1>4. InOrderAt(i)'
    BY <1>1, ConsumerFields, MessagesAssumption, GroupAssumption
       DEF ConsumerInv, ConsumerTypeOK, InOrder, InOrderAt, SettledUpTo, Settled,
           At, SubscribeTopics, groupVars, outcomeVars
  <1>5. QED
    BY <1>1, <1>2, <1>3, <1>4, StepOfOne, GroupAssumption
       DEF ConsumerInv, ConsumerTypeOK, SubscribeTopics, groupVars, outcomeVars

\* Nor does one whose subscription failed.
LEMMA SubscribeFailsInv ==
    ASSUME ConsumerInv, NEW i \in Instances, SubscribeFails(i)
    PROVE  ConsumerInv'
  <1>1. /\ consumer' \in [Instances -> Consumers]
        /\ consumer'[i].pc = "returned" /\ consumer'[i].msg = consumer[i].msg
        /\ \A j \in Instances \ {i} : consumer'[j] = consumer[j]
    BY ConsumerMoves, ConsumerFields, MessagesAssumption
       DEF ConsumerInv, ConsumerTypeOK, SubscribeFails
  <1>2. ConsumerTypeOK'
    BY <1>1, ConsumerFields, MessagesAssumption, BoundAssumption
       DEF ConsumerInv, ConsumerTypeOK, InOrder, InOrderAt, At, SubscribeFails,
           Fault, groupVars, outcomeVars
  <1>3. SettledUpTo(committed)'
    BY <1>1, ConsumerFields
       DEF ConsumerInv, ConsumerTypeOK, InOrder, InOrderAt, SettledUpTo, Settled,
           At, SubscribeFails, groupVars, outcomeVars
  <1>4. InOrderAt(i)'
    BY <1>1, ConsumerFields, MessagesAssumption, GroupAssumption
       DEF ConsumerInv, ConsumerTypeOK, InOrder, InOrderAt, SettledUpTo, Settled,
           At, SubscribeFails, groupVars, outcomeVars
  <1>5. QED
    BY <1>1, <1>2, <1>3, <1>4, StepOfOne, GroupAssumption
       DEF ConsumerInv, ConsumerTypeOK, SubscribeFails, groupVars, outcomeVars

\* Only a consumer whose context is live comes to read.
LEMMA CheckContextInv ==
    ASSUME ConsumerInv, NEW i \in Instances, CheckContext(i)
    PROVE  ConsumerInv'
  <1>1. /\ consumer' \in [Instances -> Consumers]
        /\ consumer'[i].pc = "read" /\ consumer'[i].msg = consumer[i].msg
        /\ \A j \in Instances \ {i} : consumer'[j] = consumer[j]
    BY ConsumerMoves, ConsumerFields, MessagesAssumption
       DEF ConsumerInv, ConsumerTypeOK, CheckContext
  <1>2. ConsumerTypeOK'
    BY <1>1, ConsumerFields, MessagesAssumption
       DEF ConsumerInv, ConsumerTypeOK, InOrder, InOrderAt, At, CheckContext,
           groupVars, outcomeVars
  <1>3. SettledUpTo(committed)'
    BY <1>1, ConsumerFields
       DEF ConsumerInv, ConsumerTypeOK, InOrder, InOrderAt, SettledUpTo, Settled,
           At, CheckContext, groupVars, outcomeVars
  <1>4. InOrderAt(i)'
    BY <1>1, ConsumerFields, MessagesAssumption, GroupAssumption
       DEF ConsumerInv, ConsumerTypeOK, InOrder, InOrderAt, SettledUpTo, Settled,
           At, CheckContext, groupVars, outcomeVars
  <1>5. QED
    BY <1>1, <1>2, <1>3, <1>4, StepOfOne, GroupAssumption
       DEF ConsumerInv, ConsumerTypeOK, CheckContext, groupVars, outcomeVars

\* A consumer that returns gives the partition up.
LEMMA ContextDoneInv ==
    ASSUME ConsumerInv, NEW i \in Instances, ContextDone(i)
    PROVE  ConsumerInv'
  <1>1. /\ consumer' \in [Instances -> Consumers]
        /\ consumer'[i].pc = "returned" /\ consumer'[i].msg = 0
        /\ \A j \in Instances \ {i} : consumer'[j] = consumer[j]
    BY ConsumerMoves, ConsumerFields, MessagesAssumption
       DEF ConsumerInv, ConsumerTypeOK, ContextDone
  <1>2. ConsumerTypeOK'
    BY <1>1, ConsumerFields, MessagesAssumption
       DEF ConsumerInv, ConsumerTypeOK, InOrder, InOrderAt, At, ContextDone, Leave,
           outcomeVars
  <1>3. SettledUpTo(committed)'
    BY <1>1, ConsumerFields
       DEF ConsumerInv, ConsumerTypeOK, InOrder, InOrderAt, SettledUpTo, Settled,
           At, ContextDone, outcomeVars
  <1>4. InOrderAt(i)'
    BY <1>1, ConsumerFields, MessagesAssumption, GroupAssumption
       DEF ConsumerInv, ConsumerTypeOK, InOrder, InOrderAt, SettledUpTo, Settled,
           At, ContextDone, Leave, outcomeVars
  <1>5. QED
    BY <1>1, <1>2, <1>3, <1>4, StepOfOne, GroupAssumption
       DEF ConsumerInv, ConsumerTypeOK, ContextDone, Leave, outcomeVars

\* The owner has settled all it has read when it reads the next message.
LEMMA ReadMessageInv ==
    ASSUME ConsumerInv, NEW i \in Instances, ReadMessage(i)
    PROVE  ConsumerInv'
  <1>1. /\ consumer' \in [Instances -> Consumers]
        /\ consumer'[i].pc = "handle" /\ consumer'[i].msg = position + 1
        /\ \A j \in Instances \ {i} : consumer'[j] = consumer[j]
    BY ConsumerMoves, ConsumerFields, MessagesAssumption
       DEF ConsumerInv, ConsumerTypeOK, ReadMessage
  <1>2. ConsumerTypeOK'
    BY <1>1, ConsumerFields, MessagesAssumption
       DEF ConsumerInv, ConsumerTypeOK, InOrder, InOrderAt, At, ReadMessage,
           outcomeVars
  <1>3. SettledUpTo(committed)'
    BY <1>1, ConsumerFields
       DEF ConsumerInv, ConsumerTypeOK, InOrder, InOrderAt, SettledUpTo, Settled,
           At, ReadMessage, outcomeVars
  <1>4. InOrderAt(i)'
    BY <1>1, ConsumerFields, MessagesAssumption, GroupAssumption
       DEF ConsumerInv, ConsumerTypeOK, InOrder, InOrderAt, SettledUpTo, Settled,
           At, ReadMessage, outcomeVars
  <1>5. QED
    BY <1>1, <1>2, <1>3, <1>4, StepOfOne, GroupAssumption
       DEF ConsumerInv, ConsumerTypeOK, ReadMessage, outcomeVars

\* Reading nothing changes no offset.
LEMMA ReadNothingInv ==
    ASSUME ConsumerInv, NEW i \in Instances, ReadNothing(i)
    PROVE  ConsumerInv'
  <1>1. /\ consumer' \in [Instances -> Consumers]
        /\ consumer'[i].pc = "check" /\ consumer'[i].msg = consumer[i].msg
        /\ \A j \in Instances \ {i} : consumer'[j] = consumer[j]
    BY ConsumerMoves, ConsumerFields, MessagesAssumption
       DEF ConsumerInv, ConsumerTypeOK, ReadNothing
  <1>2. ConsumerTypeOK'
    BY <1>1, ConsumerFields, MessagesAssumption
       DEF ConsumerInv, ConsumerTypeOK, InOrder, InOrderAt, At, ReadNothing,
           groupVars, outcomeVars
  <1>3. SettledUpTo(committed)'
    BY <1>1, ConsumerFields
       DEF ConsumerInv, ConsumerTypeOK, InOrder, InOrderAt, SettledUpTo, Settled,
           At, ReadNothing, groupVars, outcomeVars
  <1>4. InOrderAt(i)'
    BY <1>1, ConsumerFields, MessagesAssumption, GroupAssumption
       DEF ConsumerInv, ConsumerTypeOK, InOrder, InOrderAt, SettledUpTo, Settled,
           At, ReadNothing, groupVars, outcomeVars
  <1>5. QED
    BY <1>1, <1>2, <1>3, <1>4, StepOfOne, GroupAssumption
       DEF ConsumerInv, ConsumerTypeOK, ReadNothing, groupVars, outcomeVars

\* A handler that succeeds has handled its message.
LEMMA HandlerSucceedsInv ==
    ASSUME ConsumerInv, NEW i \in Instances, HandlerSucceeds(i)
    PROVE  ConsumerInv'
  <1>1. /\ consumer' \in [Instances -> Consumers]
        /\ consumer'[i].pc = "commit" /\ consumer'[i].msg = consumer[i].msg
        /\ \A j \in Instances \ {i} : consumer'[j] = consumer[j]
    BY ConsumerMoves, ConsumerFields, MessagesAssumption
       DEF ConsumerInv, ConsumerTypeOK, HandlerSucceeds
  <1>2. ConsumerTypeOK'
    BY <1>1, ConsumerFields, MessagesAssumption
       DEF ConsumerInv, ConsumerTypeOK, InOrder, InOrderAt, At, HandlerSucceeds,
           groupVars
  <1>3. SettledUpTo(committed)'
    BY <1>1, ConsumerFields
       DEF ConsumerInv, ConsumerTypeOK, InOrder, InOrderAt, SettledUpTo, Settled,
           At, HandlerSucceeds, groupVars
  <1>4. InOrderAt(i)'
    BY <1>1, ConsumerFields, MessagesAssumption, GroupAssumption
       DEF ConsumerInv, ConsumerTypeOK, InOrder, InOrderAt, SettledUpTo, Settled,
           At, HandlerSucceeds, groupVars
  <1>5. QED
    BY <1>1, <1>2, <1>3, <1>4, StepOfOne, GroupAssumption
       DEF ConsumerInv, ConsumerTypeOK, HandlerSucceeds, groupVars

\* A handler that fails has failed its message, or is not to read on.
LEMMA HandlerFailsInv ==
    ASSUME ConsumerInv, NEW i \in Instances, HandlerFails(i)
    PROVE  ConsumerInv'
  <1>1. /\ consumer' \in [Instances -> Consumers]
        /\ consumer'[i].pc = "check" /\ consumer'[i].msg = 0
        /\ \A j \in Instances \ {i} : consumer'[j] = consumer[j]
    BY ConsumerMoves, ConsumerFields, MessagesAssumption
       DEF ConsumerInv, ConsumerTypeOK, HandlerFails
  <1>2. ConsumerTypeOK'
    <2>1. consumer[i].msg \in 1..written
      BY DEF ConsumerInv, InOrder, InOrderAt, HandlerFails, At
    <2>2. failed' \subseteq 1..written
      BY <2>1 DEF ConsumerInv, ConsumerTypeOK, HandlerFails
    <2>3. faults' \in 0..MaxFaults
      BY BoundAssumption DEF ConsumerInv, ConsumerTypeOK, HandlerFails, Fault
    <2>4. QED
      BY <1>1, <2>2, <2>3 DEF ConsumerInv, ConsumerTypeOK, HandlerFails, groupVars
  <1>3. SettledUpTo(committed)'
    BY <1>1, ConsumerFields
       DEF ConsumerInv, ConsumerTypeOK, InOrder, InOrderAt, SettledUpTo, Settled,
           At, HandlerFails, groupVars
  <1>4. InOrderAt(i)'
    BY <1>1, ConsumerFields, MessagesAssumption, GroupAssumption
       DEF ConsumerInv, ConsumerTypeOK, InOrder, InOrderAt, SettledUpTo, Settled,
           At, HandlerFails, groupVars
  <1>5. QED
    BY <1>1, <1>2, <1>3, <1>4, StepOfOne, GroupAssumption
       DEF ConsumerInv, ConsumerTypeOK, HandlerFails, groupVars

\* The committed message is handled, and those before it are settled.
LEMMA CommitMessageInv ==
    ASSUME ConsumerInv, NEW i \in Instances, CommitMessage(i)
    PROVE  ConsumerInv'
  <1>1. /\ consumer' \in [Instances -> Consumers]
        /\ consumer'[i].pc = "check" /\ consumer'[i].msg = 0
        /\ \A j \in Instances \ {i} : consumer'[j] = consumer[j]
    BY ConsumerMoves, ConsumerFields, MessagesAssumption
       DEF ConsumerInv, ConsumerTypeOK, CommitMessage
  <1>2. ConsumerTypeOK'
    BY <1>1, ConsumerFields, MessagesAssumption, BoundAssumption
       DEF ConsumerInv, ConsumerTypeOK, InOrder, InOrderAt, At, CommitMessage,
           Fault, outcomeVars
  <1>3. SettledUpTo(committed)'
    BY <1>1, ConsumerFields
       DEF ConsumerInv, ConsumerTypeOK, InOrder, InOrderAt, SettledUpTo, Settled,
           At, CommitMessage, outcomeVars
  <1>4. InOrderAt(i)'
    BY <1>1, ConsumerFields, MessagesAssumption, GroupAssumption
       DEF ConsumerInv, ConsumerTypeOK, InOrder, InOrderAt, SettledUpTo, Settled,
           At, CommitMessage, outcomeVars
  <1>5. QED
    BY <1>1, <1>2, <1>3, <1>4, StepOfOne, GroupAssumption
       DEF ConsumerInv, ConsumerTypeOK, CommitMessage, outcomeVars

\* A consumer that is off owns nothing, so its context may be renewed.
LEMMA StartConsumerInv ==
    ASSUME ConsumerInv, NEW i \in Instances, StartConsumer(i)
    PROVE  ConsumerInv'
  <1>1. /\ consumer' \in [Instances -> Consumers]
        /\ consumer'[i].pc = "subscribe" /\ consumer'[i].msg = consumer[i].msg
        /\ \A j \in Instances \ {i} : consumer'[j] = consumer[j]
    BY ConsumerMoves, ConsumerFields, MessagesAssumption
       DEF ConsumerInv, ConsumerTypeOK, StartConsumer
  <1>2. ConsumerTypeOK'
    BY <1>1, ConsumerFields, MessagesAssumption
       DEF ConsumerInv, ConsumerTypeOK, InOrder, InOrderAt, At, StartConsumer,
           groupVars, outcomeVars
  <1>3. SettledUpTo(committed)'
    BY <1>1, ConsumerFields
       DEF ConsumerInv, ConsumerTypeOK, InOrder, InOrderAt, SettledUpTo, Settled,
           At, StartConsumer, groupVars, outcomeVars
  <1>4. InOrderAt(i)'
    BY <1>1, ConsumerFields, MessagesAssumption, GroupAssumption
       DEF ConsumerInv, ConsumerTypeOK, InOrder, InOrderAt, SettledUpTo, Settled,
           At, StartConsumer, groupVars, outcomeVars
  <1>5. QED
    BY <1>1, <1>2, <1>3, <1>4, StepOfOne, GroupAssumption
       DEF ConsumerInv, ConsumerTypeOK, StartConsumer, groupVars, outcomeVars

\* Cancelling a context asks less of the owner.
LEMMA CancelContextInv ==
    ASSUME ConsumerInv, NEW i \in Instances, CancelContext(i)
    PROVE  ConsumerInv'
  <1>1. consumer' = consumer
    BY DEF CancelContext
  <1>2. ConsumerTypeOK'
    BY <1>1, ConsumerFields, MessagesAssumption
       DEF ConsumerInv, ConsumerTypeOK, InOrder, InOrderAt, At, CancelContext,
           groupVars, outcomeVars
  <1>3. SettledUpTo(committed)'
    BY <1>1, ConsumerFields
       DEF ConsumerInv, ConsumerTypeOK, InOrder, InOrderAt, SettledUpTo, Settled,
           At, CancelContext, groupVars, outcomeVars
  <1>4. InOrderAt(i)'
    BY <1>1, ConsumerFields, MessagesAssumption, GroupAssumption
       DEF ConsumerInv, ConsumerTypeOK, InOrder, InOrderAt, SettledUpTo, Settled,
           At, CancelContext, groupVars, outcomeVars
  <1>5. QED
    BY <1>1, <1>2, <1>3, <1>4, StepOfOne, GroupAssumption
       DEF ConsumerInv, ConsumerTypeOK, CancelContext, groupVars, outcomeVars

\* A consumer that stops gives the partition up.
LEMMA StopConsumerInv ==
    ASSUME ConsumerInv, NEW i \in Instances, StopConsumer(i), UNCHANGED faults \/ Fault("crash")
    PROVE  ConsumerInv'
  <1>1. /\ consumer' \in [Instances -> Consumers]
        /\ consumer'[i].pc = "off" /\ consumer'[i].msg = 0
        /\ \A j \in Instances \ {i} : consumer'[j] = consumer[j]
    BY ConsumerMoves, ConsumerFields, MessagesAssumption
       DEF ConsumerInv, ConsumerTypeOK, StopConsumer
  <1>2. ConsumerTypeOK'
    BY <1>1, ConsumerFields, MessagesAssumption, BoundAssumption
       DEF ConsumerInv, ConsumerTypeOK, InOrder, InOrderAt, StopConsumer, Fault,
           Leave, outcomeVars
  <1>3. SettledUpTo(committed)'
    BY <1>1, ConsumerFields
       DEF ConsumerInv, ConsumerTypeOK, InOrder, InOrderAt, SettledUpTo, Settled,
           StopConsumer, outcomeVars
  <1>4. InOrderAt(i)'
    BY <1>1, ConsumerFields, MessagesAssumption, GroupAssumption
       DEF ConsumerInv, ConsumerTypeOK, InOrder, InOrderAt, SettledUpTo, Settled,
           StopConsumer, Leave, outcomeVars
  <1>5. QED
    BY <1>1, <1>2, <1>3, <1>4, StepOfOne, GroupAssumption
       DEF ConsumerInv, ConsumerTypeOK, StopConsumer, Leave, outcomeVars

LEMMA ConsumerNextInv == ConsumerInv /\ [ConsumerNext]_consumerVars => ConsumerInv'
  <1> SUFFICES ASSUME ConsumerInv, [ConsumerNext]_consumerVars PROVE ConsumerInv'
    OBVIOUS
  <1>1. CASE UNCHANGED consumerVars
    BY <1>1 DEF ConsumerInv, ConsumerTypeOK, InOrder, InOrderAt, SettledUpTo, Settled,
                consumerVars, groupVars, outcomeVars
  <1>2. CASE Produce
    BY <1>2, ProduceInv
  <1>3. ASSUME NEW i \in Instances, ConsumerStep(i) PROVE ConsumerInv'
    BY <1>3, SubscribeTopicsInv, CheckContextInv, ContextDoneInv, ReadMessageInv,
       ReadNothingInv, HandlerSucceedsInv, HandlerFailsInv, CommitMessageInv
       DEF ConsumerStep
  <1>4. ASSUME NEW i \in Instances,
               \/ StopConsumer(i) /\ At(i, "returned") /\ UNCHANGED faults
               \/ StopConsumer(i) /\ ~ At(i, "off") /\ Fault("crash")
        PROVE  ConsumerInv'
    BY <1>4, StopConsumerInv
  <1>5. ASSUME NEW i \in Instances,
               \/ Assign(i) \/ Revoke(i) \/ SubscribeFails(i) \/ StartConsumer(i)
               \/ CancelContext(i) /\ "shutdown" \in Faults
        PROVE  ConsumerInv'
    BY <1>5, AssignInv, RevokeInv, SubscribeFailsInv, StartConsumerInv, CancelContextInv
  <1>6. QED
    BY <1>1, <1>2, <1>3, <1>4, <1>5 DEF ConsumerNext

LEMMA ConsumerInvariant == ConsumerSpec => []ConsumerInv
  <1>1. QED
    BY ConsumerInitInv, ConsumerNextInv, PTL DEF ConsumerSpec

\* Offsets stay within what is written, and every variable has its type: what
\* a consumer commits it has read, whoever owns the partition by then.
THEOREM ConsumerTypeCorrect == ConsumerSpec => []ConsumerTypeOK
  <1>1. ConsumerInv => ConsumerTypeOK
    BY DEF ConsumerInv
  <1>2. QED
    BY ConsumerInvariant, <1>1, PTL

\* StartConsuming commits an offset only when the handlers of all messages up
\* to it have finished or failed: no interleaving of rebalances, shutdowns and
\* crashes with a handler makes the group pass over a message it never tried.
THEOREM NothingPassedOver == ConsumerSpec => []PassedOverHasFailed
  <1>1. ConsumerInv => PassedOverHasFailed
    BY MessagesAssumption
       DEF ConsumerInv, ConsumerTypeOK, InOrder, SettledUpTo, PassedOverHasFailed
  <1>2. QED
    BY ConsumerInvariant, <1>1, PTL

-----------------------------------------------------------------------------
(* The consumer in a service *)

\* Where the consumer is, while main and the goroutine "events" are where they are.
ProcessAt(i) ==
    /\ main[i] \in {"down", "starting", "launch", "serve", "serving"} => At(i, "off")
    /\ main[i] = "close" => At(i, "off") \/ At(i, "returned")
    /\ main[i] \in {"select", "graceful", "wait"} => kind \in ManagerKinds
    /\ worker[i]["events"] \in {"sending", "done"} => At(i, "returned")

LifecycleInv ==
    /\ ConsumerInv
    /\ main \in [Instances -> MainPcs]
    /\ worker \in [Instances -> [Goroutines -> WorkerPcs]]
    /\ \A i \in Instances : ProcessAt(i)

LEMMA LifecycleInit == Init => LifecycleInv
  <1> SUFFICES ASSUME Init PROVE LifecycleInv
    OBVIOUS
  <1>1. ConsumerInv
    BY ConsumerInitInv DEF Init
  <1>2. /\ main \in [Instances -> MainPcs]
        /\ worker \in [Instances -> [Goroutines -> WorkerPcs]]
    BY DEF Init, MainPcs, WorkerPcs, NoWorkers
  <1>3. \A i \in Instances : ProcessAt(i)
    BY DEF Init, ConsumerInit, ProcessAt, At, NoWorkers, Goroutines
  <1>4. QED
    BY <1>1, <1>2, <1>3 DEF LifecycleInv

\* A step that moves neither main nor a goroutine nor the consumer.
LEMMA Unmoved ==
    ASSUME LifecycleInv, UNCHANGED <<consumerVars, kind, main, worker>>
    PROVE  LifecycleInv'
  <1>1. consumer' = consumer /\ ConsumerInv'
    BY ConsumerNextInv DEF LifecycleInv, consumerVars
  <1>2. QED
    BY <1>1 DEF LifecycleInv, ProcessAt, At

\* Main moves on, where the consumer allows it.
LEMMA MainMoves ==
    ASSUME LifecycleInv, NEW i \in Instances, NEW pc \in MainPcs, GoMain(i, pc),
           UNCHANGED <<consumerVars, kind, worker>>,
           pc \in {"down", "starting", "launch", "serve", "serving"} => At(i, "off"),
           pc = "close" => At(i, "off") \/ At(i, "returned"),
           pc \in {"select", "graceful", "wait"} => kind \in ManagerKinds
    PROVE  LifecycleInv'
  <1>1. /\ main' \in [Instances -> MainPcs]
        /\ main'[i] = pc
        /\ \A j \in Instances \ {i} : main'[j] = main[j]
    BY DEF LifecycleInv, GoMain
  <1>2. consumer' = consumer /\ ConsumerInv'
    BY ConsumerNextInv DEF LifecycleInv, consumerVars
  <1>3. \A j \in Instances : ProcessAt(j)'
    BY <1>1, <1>2 DEF LifecycleInv, ProcessAt, At
  <1>4. QED
    BY <1>1, <1>2, <1>3 DEF LifecycleInv

\* A goroutine moves on; "events" only when the consumer has returned.
LEMMA WorkerMoves ==
    ASSUME LifecycleInv, NEW i \in Instances, NEW g \in Goroutines, NEW pc \in WorkerPcs,
           GoWorker(i, g, pc), UNCHANGED <<consumerVars, kind, main>>,
           g = "events" /\ pc \in {"sending", "done"} => At(i, "returned")
    PROVE  LifecycleInv'
  <1>1. worker' = [worker EXCEPT ![i] = [worker[i] EXCEPT ![g] = pc]]
    BY DEF LifecycleInv, GoWorker
  <1>2. /\ worker' \in [Instances -> [Goroutines -> WorkerPcs]]
        /\ worker'[i] = [worker[i] EXCEPT ![g] = pc]
        /\ \A j \in Instances \ {i} : worker'[j] = worker[j]
    BY <1>1 DEF LifecycleInv
  <1>3. worker'[i]["events"] \in {"sending", "done"} => At(i, "returned")
    <2>1. CASE g = "events"
      BY <1>2, <2>1 DEF LifecycleInv
    <2>2. CASE g # "events"
      BY <1>2, <2>2 DEF LifecycleInv, ProcessAt, Goroutines
    <2>3. QED
      BY <2>1, <2>2
  <1>4. consumer' = consumer /\ ConsumerInv'
    BY ConsumerNextInv DEF LifecycleInv, consumerVars
  <1>5. \A j \in Instances : ProcessAt(j)'
    BY <1>2, <1>3, <1>4 DEF LifecycleInv, ProcessAt, At
  <1>6. QED
    BY <1>2, <1>4, <1>5 DEF LifecycleInv

\* A process without a consumer ends.
LEMMA ProcessGone ==
    ASSUME LifecycleInv, NEW i \in Instances, Gone(i), kind' = kind,
           [ConsumerNext]_consumerVars,
           At(i, "off")', \A j \in Instances \ {i} : consumer'[j] = consumer[j]
    PROVE  LifecycleInv'
  <1>1. /\ main' \in [Instances -> MainPcs]
        /\ main'[i] = "down"
        /\ \A j \in Instances \ {i} : main'[j] = main[j]
    BY DEF LifecycleInv, Gone, GoMain, MainPcs
  <1>2. /\ NoWorkers \in [Goroutines -> WorkerPcs]
        /\ NoWorkers["events"] = "none"
    BY DEF NoWorkers, Goroutines, WorkerPcs
  <1>3. /\ worker' \in [Instances -> [Goroutines -> WorkerPcs]]
        /\ worker'[i]["events"] = "none"
        /\ \A j \in Instances \ {i} : worker'[j] = worker[j]
    BY <1>2 DEF LifecycleInv, Gone
  <1>4. ConsumerInv'
    BY ConsumerNextInv DEF LifecycleInv
  <1>5. \A j \in Instances : ProcessAt(j)'
    BY <1>1, <1>3 DEF LifecycleInv, ProcessAt, At
  <1>6. QED
    BY <1>1, <1>3, <1>4, <1>5 DEF LifecycleInv

\* The start-up of a process, from Boot to the launch of its goroutines.
LEMMA StartupSteps ==
    ASSUME LifecycleInv, NEW i \in Instances,
           \/ Boot(i) \/ Advance(i) \/ RetryConnect(i) \/ StartupFails(i) \/ StartupFatal(i)
           \/ Killed(i)
    PROVE  LifecycleInv' /\ UNCHANGED consumerVars
  <1> USE DEF LifecycleInv, ProcessAt
  <1>1. CASE Boot(i)
    BY <1>1, MainMoves DEF Boot, MainPcs
  <1>2. CASE Advance(i)
    BY <1>2, MainMoves DEF Advance, MainPcs
  <1>3. CASE RetryConnect(i)
    BY <1>3, Unmoved DEF RetryConnect
  <1>4. CASE StartupFails(i)
    BY <1>4, MainMoves DEF StartupFails, MainPcs
  <1>5. CASE StartupFatal(i)
    <2>1. At(i, "off")
      BY <1>5 DEF StartupFatal
    <2>2. Gone(i) /\ kind' = kind /\ consumer' = consumer /\ UNCHANGED consumerVars
      BY <1>5 DEF StartupFatal, consumerVars
    <2>3. QED
      BY <2>1, <2>2, ProcessGone DEF At
  <1>6. CASE Killed(i)
    <2>1. At(i, "off")
      BY <1>6 DEF Killed
    <2>2. Gone(i) /\ kind' = kind /\ consumer' = consumer /\ UNCHANGED consumerVars
      BY <1>6 DEF Killed, consumerVars
    <2>3. QED
      BY <2>1, <2>2, ProcessGone DEF At
  <1>7. QED
    BY <1>1, <1>2, <1>3, <1>4, <1>5, <1>6

\* The goroutines, requests, and the stopping of the server.
LEMMA GoroutineSteps ==
    ASSUME LifecycleInv, NEW i \in Instances,
           \/ \E g \in {"outbox", "cleanup"} : TickerStops(i, g)
           \/ EventsReturn(i) \/ Serve(i) \/ ListenFails(i) \/ ServeFails(i) \/ ServeReturns(i)
           \/ \E g \in {"events", "grpc"} : SendError(i, g)
           \/ Accept(i) \/ Reply(i) \/ GracefulStop(i) \/ SignalGoroutine(i)
    PROVE  LifecycleInv' /\ UNCHANGED consumerVars
  <1> USE DEF Goroutines, WorkerPcs
  <1>1. ASSUME NEW g \in {"outbox", "cleanup"}, TickerStops(i, g)
        PROVE  LifecycleInv' /\ UNCHANGED consumerVars
    BY <1>1, WorkerMoves DEF TickerStops
  <1>2. CASE EventsReturn(i)
    BY <1>2, WorkerMoves DEF EventsReturn
  <1>3. CASE Serve(i)
    BY <1>3, WorkerMoves DEF Serve
  <1>4. CASE ListenFails(i)
    BY <1>4, WorkerMoves DEF ListenFails
  <1>5. CASE ServeFails(i)
    BY <1>5, WorkerMoves DEF ServeFails
  <1>6. CASE ServeReturns(i)
    BY <1>6, WorkerMoves DEF ServeReturns
  <1>7. ASSUME NEW g \in {"events", "grpc"}, SendError(i, g)
        PROVE  LifecycleInv' /\ UNCHANGED consumerVars
    <2>1. g = "events" => At(i, "returned")
      BY <1>7 DEF SendError, LifecycleInv, ProcessAt
    <2>2. QED
      BY <1>7, <2>1, WorkerMoves DEF SendError
  <1>8. CASE Accept(i) \/ Reply(i) \/ GracefulStop(i)
    BY <1>8, Unmoved DEF Accept, Reply, GracefulStop
  <1>9. CASE SignalGoroutine(i)
    BY <1>9, WorkerMoves DEF SignalGoroutine
  <1>10. QED
    BY <1>1, <1>2, <1>3, <1>4, <1>5, <1>6, <1>7, <1>8, <1>9

\* Main on its way to the deferred calls: wg.Wait has seen "events" end.
LEMMA StoppingSteps ==
    ASSUME LifecycleInv, NEW i \in Instances,
           \/ SelectDone(i) \/ Drained(i) \/ Wait(i) \/ Close(i)
           \/ ServeFromMain(i) \/ ServerStopped(i) \/ ServeFatal(i) \/ ServeEnds(i)
    PROVE  LifecycleInv' /\ UNCHANGED consumerVars
  <1> USE DEF LifecycleInv, ProcessAt
  <1>1. CASE SelectDone(i)
    BY <1>1, MainMoves DEF SelectDone, MainPcs
  <1>2. CASE Drained(i)
    <2>1. CASE main[i] = "graceful"
      BY <1>2, <2>1, MainMoves DEF Drained, MainPcs
    <2>2. CASE main[i] # "graceful"
      BY <1>2, <2>2, WorkerMoves DEF Drained, Goroutines, WorkerPcs
    <2>3. QED
      BY <2>1, <2>2
  <1>3. CASE Wait(i)
    <2>1. kind \in ManagerKinds => "events" \in Workers
      BY DEF ManagerKinds, Workers
    <2>2. At(i, "returned")
      BY <1>3, <2>1 DEF Wait
    <2>3. QED
      BY <1>3, <2>2, MainMoves DEF Wait, MainPcs
  <1>4. CASE Close(i)
    BY <1>4, Unmoved DEF Close
  <1>5. CASE ServeFromMain(i)
    BY <1>5, MainMoves DEF ServeFromMain, MainPcs
  <1>6. CASE ServerStopped(i) \/ ServeFatal(i)
    <2>1. At(i, "off")
      BY <1>6 DEF ServerStopped, ServeFatal
    <2>2. Gone(i) /\ kind' = kind /\ consumer' = consumer /\ UNCHANGED consumerVars
      BY <1>6 DEF ServerStopped, ServeFatal, consumerVars
    <2>3. QED
      BY <2>1, <2>2, ProcessGone DEF At
  <1>7. CASE ServeEnds(i)
    BY <1>7, MainMoves DEF ServeEnds, MainPcs
  <1>8. QED
    BY <1>1, <1>2, <1>3, <1>4, <1>5, <1>6, <1>7

\* A manager's consumer is started with its other goroutines.
LEMMA LaunchStep ==
    ASSUME LifecycleInv, NEW i \in Instances, Launch(i)
    PROVE  LifecycleInv' /\ [ConsumerNext]_consumerVars
  <1>1. [ConsumerNext]_consumerVars
    BY DEF Launch, ConsumerNext
  <1>2. ConsumerInv'
    BY <1>1, ConsumerNextInv DEF LifecycleInv
  <1>3. /\ worker' \in [Instances -> [Goroutines -> WorkerPcs]]
        /\ worker'[i]["events"] \in {"running", "none"}
        /\ \A j \in Instances \ {i} : worker'[j] = worker[j]
    BY DEF LifecycleInv, Launch, Goroutines, WorkerPcs
  <1>4. CASE kind \in ManagerKinds
    <2>1. /\ main' \in [Instances -> MainPcs]
          /\ main'[i] = "select"
          /\ \A j \in Instances \ {i} : main'[j] = main[j]
      BY <1>4 DEF LifecycleInv, Launch, GoMain, MainPcs
    <2>2. \A j \in Instances \ {i} : consumer'[j] = consumer[j]
      BY <1>4 DEF Launch, StartConsumer, Goto, LifecycleInv, ConsumerInv, ConsumerTypeOK
    <2>3. \A j \in Instances : ProcessAt(j)'
      BY <1>3, <1>4, <2>1, <2>2 DEF LifecycleInv, ProcessAt, At, Launch
    <2>4. QED
      BY <1>1, <1>2, <1>3, <2>1, <2>3 DEF LifecycleInv
  <1>5. CASE kind \notin ManagerKinds
    <2>1. /\ main' \in [Instances -> MainPcs]
          /\ main'[i] = "serve"
          /\ \A j \in Instances \ {i} : main'[j] = main[j]
      BY <1>5 DEF LifecycleInv, Launch, GoMain, MainPcs
    <2>2. consumer' = consumer /\ main[i] = "launch"
      BY <1>5 DEF Launch, consumerVars
    <2>3. \A j \in Instances : ProcessAt(j)'
      BY <1>3, <2>1, <2>2 DEF LifecycleInv, ProcessAt, At, Launch
    <2>4. QED
      BY <1>1, <1>2, <1>3, <2>1, <2>3 DEF LifecycleInv
  <1>6. QED
    BY <1>4, <1>5

\* The context is cancelled, by a signal or because a goroutine has failed.
LEMMA CancelSteps ==
    ASSUME LifecycleInv, NEW i \in Instances,
           Signal(i) \/ \E ch \in {"manager", "grpc"} : SelectError(i, ch)
    PROVE  LifecycleInv' /\ [ConsumerNext]_consumerVars
  <1>1. CancelContext(i) \/ UNCHANGED consumerVars
    BY DEF Signal, SelectError
  <1>2. [ConsumerNext]_consumerVars
    BY <1>1, ShutdownAssumption DEF ConsumerNext
  <1>3. consumer' = consumer /\ ConsumerInv'
    BY <1>1, <1>2, ConsumerNextInv DEF LifecycleInv, CancelContext, consumerVars
  <1>4. /\ main' \in [Instances -> MainPcs]
        /\ main'[i] \in {"select", "graceful"} /\ main[i] = "select"
        /\ \A j \in Instances \ {i} : main'[j] = main[j]
        /\ worker' = worker /\ kind' = kind
    BY DEF LifecycleInv, Signal, SelectError, GoMain, MainPcs, processVars
  <1>5. \A j \in Instances : ProcessAt(j)'
    BY <1>3, <1>4 DEF LifecycleInv, ProcessAt, At
  <1>6. QED
    BY <1>2, <1>3, <1>4, <1>5 DEF LifecycleInv

\* What StopConsumer makes of the consumers.
LEMMA StopMoves ==
    ASSUME ConsumerInv, NEW i \in Instances, StopConsumer(i)
    PROVE  At(i, "off")' /\ \A j \in Instances \ {i} : consumer'[j] = consumer[j]
  <1>1. 0 \in {0} \cup Messages
    OBVIOUS
  <1>2. QED
    BY <1>1, ConsumerMoves DEF ConsumerInv, StopConsumer, At

\* Main returns when its consumer has returned.
LEMMA ExitStep ==
    ASSUME LifecycleInv, NEW i \in Instances, Exit(i)
    PROVE  LifecycleInv' /\ [ConsumerNext]_consumerVars
  <1>1. CASE At(i, "off")
    BY <1>1, ProcessGone DEF Exit, At, consumerVars
  <1>2. CASE ~ At(i, "off")
    <2>1. StopConsumer(i) /\ UNCHANGED faults /\ At(i, "returned")
      BY <1>2 DEF Exit, LifecycleInv, ProcessAt
    <2>2. [ConsumerNext]_consumerVars
      BY <2>1 DEF ConsumerNext
    <2>3. QED
      BY <2>1, <2>2, StopMoves, ProcessGone DEF Exit, LifecycleInv
  <1>3. QED
    BY <1>1, <1>2

LEMMA CrashStep ==
    ASSUME LifecycleInv, NEW i \in Instances, Crash(i)
    PROVE  LifecycleInv' /\ [ConsumerNext]_consumerVars
  <1>1. [ConsumerNext]_consumerVars
    BY DEF Crash, ConsumerNext
  <1>2. QED
    BY <1>1, StopMoves, ProcessGone DEF Crash, LifecycleInv

\* The consumer moves: it neither runs when it is off, nor leaves "returned".
LEMMA GroupStep ==
    ASSUME LifecycleInv, NEW i \in Instances, Group(i)
    PROVE  LifecycleInv' /\ [ConsumerNext]_consumerVars
  <1>1. [ConsumerNext]_consumerVars
    BY DEF Group, ConsumerNext
  <1>2. ConsumerInv'
    BY <1>1, ConsumerNextInv DEF LifecycleInv
  <1>3. \/ consumer' = consumer
        \/ /\ ~ At(i, "off") /\ ~ At(i, "returned")
           /\ \A j \in Instances \ {i} : consumer'[j] = consumer[j]
    BY DEF Group, Assign, Revoke, ConsumerStep, SubscribeFails, SubscribeTopics, CheckContext,
           ContextDone, ReadMessage, ReadNothing, HandlerSucceeds, HandlerFails, CommitMessage,
           At, Goto, Drop, Hold, LifecycleInv, ConsumerInv, ConsumerTypeOK
  <1>4. kind' = kind /\ main' = main /\ worker' = worker
    BY DEF Group, processVars
  <1>5. \A j \in Instances : ProcessAt(j)'
    BY <1>3, <1>4 DEF LifecycleInv, ProcessAt, At, MainPcs
  <1>6. QED
    BY <1>1, <1>2, <1>4, <1>5 DEF LifecycleInv

LEMMA LifecycleStep == LifecycleInv /\ [Next]_vars => LifecycleInv' /\ [ConsumerNext]_consumerVars
  <1> SUFFICES ASSUME LifecycleInv, [Next]_vars
               PROVE  LifecycleInv' /\ [ConsumerNext]_consumerVars
    OBVIOUS
  <1>1. CASE UNCHANGED vars
    BY <1>1, Unmoved DEF vars, processVars
  <1>2. CASE Produce /\ kind \in ManagerKinds /\ UNCHANGED <<kind, processVars, mishaps>>
    <2>1. [ConsumerNext]_consumerVars /\ consumer' = consumer
      BY <1>2 DEF ConsumerNext, Produce
    <2>2. ConsumerInv'
      BY <2>1, ConsumerNextInv DEF LifecycleInv
    <2>3. QED
      BY <1>2, <2>1, <2>2 DEF LifecycleInv, ProcessAt, At, processVars
  <1>3. ASSUME NEW i \in Instances, ProcessStep(i)
        PROVE  LifecycleInv' /\ [ConsumerNext]_consumerVars
    BY <1>3, StartupSteps, LaunchStep, GoroutineSteps, CancelSteps, StoppingSteps, ExitStep
       DEF ProcessStep
  <1>4. ASSUME NEW i \in Instances,
               \/ Group(i) \/ Accept(i) \/ Reply(i)
               \/ RetryConnect(i) \/ StartupFails(i) \/ StartupFatal(i)
               \/ ListenFails(i) \/ ServeFails(i) \/ ServeFatal(i)
               \/ Signal(i) \/ SignalGoroutine(i) \/ Killed(i) \/ Crash(i)
        PROVE  LifecycleInv' /\ [ConsumerNext]_consumerVars
    BY <1>4, StartupSteps, GoroutineSteps, CancelSteps, StoppingSteps, CrashStep, GroupStep
  <1>5. QED
    BY <1>1, <1>2, <1>3, <1>4 DEF Next

\* The goroutine "events" of a service runs the consumer of KafkaConsumer, from
\* Launch to the end of the process, and its main starts, cancels and stops it
\* only as KafkaConsumer allows.
THEOREM ServiceImplementsConsumer == Spec => ImplementsConsumer
  <1>1. Init => ConsumerInit
    BY DEF Init
  <1>2. QED
    BY <1>1, LifecycleInit, LifecycleStep, PTL DEF Spec, ConsumerSpec, ImplementsConsumer

\* No start-up, shutdown, failure or crash of a service makes its group pass
\* over a message whose handler has neither finished nor failed.
THEOREM ServicePassesNothingOver == Spec => []PassedOverHasFailed
  <1>1. QED
    BY ServiceImplementsConsumer, NothingPassedOver, PTL DEF ImplementsConsumer

-----------------------------------------------------------------------------
(* The resources and the server *)

\* The deferred closing of a start-up's first n steps is pending.
Pending(i, n) == \A k \in 1..n : Startup[k] \in Deferred => Startup[k] \in open[i]

\* How far a process is: what it has opened,
OpenAt(i) ==
    /\ main[i] = "starting" => step[i] \in 1..Len(Startup) /\ Pending(i, step[i] - 1)
    /\ main[i] \in {"launch", "select", "serve", "serving", "graceful", "wait"}
          => Pending(i, Len(Startup))

\* its goroutines, which wg.Wait or the end of the process has seen end,
WorkersAt(i) ==
    /\ \A g \in Goroutines : g \notin Workers => worker[i][g] = "none"
    /\ main[i] \in {"down", "starting", "launch"} => worker[i] = NoWorkers
    /\ main[i] \in {"serve", "serving", "close"}
          => \A g \in {"outbox", "cleanup", "grpc"} : worker[i][g] \in {"none", "done"}

\* and its server, which takes requests after the start-up and before the end.
ServerAt(i) ==
    /\ main[i] \in {"down", "starting", "launch"} => server[i] = "new"
    /\ main[i] = "serve" => server[i] \in {"new", "draining", "stopped"}
    /\ main[i] = "wait" => server[i] = "stopped"
    /\ main[i] = "close"
          => server[i] = "stopped" \/ (server[i] = "new" /\ worker[i]["signal"] = "none")
    /\ server[i] = "draining" => main[i] = "graceful" \/ worker[i]["signal"] = "stopping"
    /\ i \in rpc => /\ main[i] \in {"select", "graceful", "serving"}
                    /\ server[i] \in {"serving", "broken", "draining"}

StageAt(i) == OpenAt(i) /\ WorkersAt(i) /\ ServerAt(i)

Stages == \A i \in Instances : StageAt(i)

ProcessTyped ==
    /\ kind \in Kinds
    /\ main \in [Instances -> MainPcs]
    /\ step \in [Instances -> Nat]
    /\ retry \in [Instances -> 0..ConnectRetries]
    /\ open \in [Instances -> SUBSET Deferred]
    /\ worker \in [Instances -> [Goroutines -> WorkerPcs]]
    /\ errCh \in [Instances -> SUBSET {"manager", "grpc"}]
    /\ server \in [Instances -> {"new", "serving", "broken", "draining", "stopped"}]
    /\ rpc \subseteq Instances
    /\ mishaps \in 0..MaxMishaps

\* What the services have in common.
LEMMA ServiceFacts ==
    ASSUME kind \in Kinds
    PROVE  /\ Len(Startup) \in Nat \ {0}
           /\ kind \in ManagerKinds => "signal" \notin Workers
           /\ kind \notin ManagerKinds => Workers \subseteq {"signal"}
  <1>1. kind \in {"consignment", "reservation", "vessel", "payment", "user", "gateway"}
    BY KindsAssumption DEF ManagerKinds
  <1>2. Len(Startup) \in Nat \ {0}
    BY <1>1 DEF Startup, ConsignmentStartup, ReservationStartup, VesselStartup, PaymentStartup,
                UserStartup, GatewayStartup
  <1>4. /\ kind \in ManagerKinds => "signal" \notin Workers
        /\ kind \notin ManagerKinds => Workers \subseteq {"signal"}
    BY <1>1 DEF Workers, ManagerKinds
  <1>5. QED
    BY <1>2, <1>4

\* A service opens what its requests and its goroutines use.
LEMMA UsesWhatIsOpened ==
    ASSUME kind \in Kinds, NEW i \in Instances, Pending(i, Len(Startup)),
           NEW who \in {"rpc", "outbox", "cleanup", "events"}
    PROVE  Uses(who) \subseteq open[i]
  <1>1. CASE kind = "consignment"
    <2>1. {"tracer", "db", "reservationConn", "paymentConn"} \subseteq open[i]
      BY <1>1 DEF Pending, Startup, ConsignmentStartup, Deferred
    <2>2. QED
      BY <1>1, <2>1 DEF Uses
  <1>2. CASE kind = "reservation"
    <2>1. {"tracer", "vesselConn"} \subseteq open[i]
      BY <1>2 DEF Pending, Startup, ReservationStartup, Deferred
    <2>2. QED
      BY <1>2, <2>1 DEF Uses
  <1>3. CASE kind = "vessel"
    <2>1. {"db", "tracer"} \subseteq open[i]
      BY <1>3 DEF Pending, Startup, VesselStartup, Deferred
    <2>2. QED
      BY <1>3, <2>1 DEF Uses
  <1>4. CASE kind = "payment"
    <2>1. "tracer" \in open[i]
      BY <1>4 DEF Pending, Startup, PaymentStartup, Deferred
    <2>2. QED
      BY <1>4, <2>1 DEF Uses
  <1>5. CASE kind = "user"
    <2>1. "db" \in open[i]
      BY <1>5 DEF Pending, Startup, UserStartup, Deferred
    <2>2. QED
      BY <1>5, <2>1 DEF Uses
  <1>6. CASE kind = "gateway"
    <2>1. {"tracer", "userConn", "consignmentConn"} \subseteq open[i]
      BY <1>6 DEF Pending, Startup, GatewayStartup, Deferred
    <2>2. QED
      BY <1>6, <2>1 DEF Uses
  <1>7. QED
    BY <1>1, <1>2, <1>3, <1>4, <1>5, <1>6, KindsAssumption DEF ManagerKinds

LEMMA ServiceStays ==
    ASSUME kind' = kind
    PROVE  Startup' = Startup /\ Deferred' = Deferred /\ Workers' = Workers
  BY DEF Startup, Deferred, Workers, ConsignmentStartup, ReservationStartup, VesselStartup,
         PaymentStartup, UserStartup, GatewayStartup, ManagerKinds

LEMMA MishapsCounted ==
    ASSUME mishaps \in 0..MaxMishaps
    PROVE  \A k : Mishap(k) => mishaps' \in 0..MaxMishaps /\ mishaps' > mishaps
  BY MishapsAssumption DEF Mishap

\* A step of one instance leaves the others where they are.
LEMMA OneMoves ==
    ASSUME Stages, NEW i \in Instances, kind' = kind, StageAt(i)',
           \A j \in Instances \ {i} :
               /\ main'[j] = main[j] /\ worker'[j] = worker[j] /\ server'[j] = server[j]
               /\ open'[j] = open[j] /\ step'[j] = step[j] /\ (j \in rpc' => j \in rpc)
    PROVE  Stages'
  <1> SUFFICES ASSUME NEW j \in Instances \ {i} PROVE StageAt(j)'
    BY DEF Stages
  <1>1. \A n : Pending(j, n)' <=> Pending(j, n)
    BY ServiceStays DEF Pending
  <1>2. QED
    BY <1>1, ServiceStays DEF Stages, StageAt, OpenAt, WorkersAt, ServerAt, NoWorkers

\* The pending closings are those of the same start-up as long as nothing is
\* closed.
LEMMA PendingStays ==
    ASSUME kind' = kind, NEW i \in Instances, open'[i] = open[i], NEW n
    PROVE  Pending(i, n)' <=> Pending(i, n)
  BY ServiceStays DEF Pending

\* The start-up: a step of it opens what it defers closing.
LEMMA StartupStages ==
    ASSUME LifecycleInv, ProcessTyped, Stages, NEW i \in Instances,
           Boot(i) \/ Advance(i) \/ RetryConnect(i) \/ StartupFails(i)
    PROVE  ProcessTyped' /\ Stages'
  <1>0. /\ StageAt(i) /\ Len(Startup) \in Nat \ {0}
        /\ kind' = kind /\ Startup' = Startup /\ Deferred' = Deferred /\ Workers' = Workers
    BY ServiceFacts, ServiceStays
    DEF Stages, ProcessTyped, Boot, Advance, RetryConnect, StartupFails
  <1>1. CASE Boot(i)
    <2>1. /\ main' = [main EXCEPT ![i] = "starting"] /\ step' = [step EXCEPT ![i] = 1]
          /\ UNCHANGED <<kind, retry, open, worker, errCh, server, rpc, mishaps>>
          /\ main[i] = "down"
      BY <1>1 DEF Boot, GoMain
    <2>2. ProcessTyped'
      BY <1>0, <2>1 DEF ProcessTyped, MainPcs
    <2>3. StageAt(i)'
      BY <1>0, <2>1 DEF ProcessTyped, StageAt, OpenAt, Pending, WorkersAt, ServerAt, NoWorkers
    <2>4. QED
      BY <2>1, <2>2, <2>3, OneMoves DEF ProcessTyped
  <1>2. CASE Advance(i)
    <2> DEFINE pc == IF step[i] = Len(Startup) THEN "launch" ELSE "starting"
    <2>1. /\ main' = [main EXCEPT ![i] = pc] /\ step' = [step EXCEPT ![i] = @ + 1]
          /\ open' = [open EXCEPT ![i] = @ \cup ({Startup[step[i]]} \cap Deferred)]
          /\ retry' = [retry EXCEPT ![i] = 0]
          /\ UNCHANGED <<kind, worker, errCh, server, rpc, mishaps>>
          /\ main[i] = "starting"
      BY <1>2 DEF Advance, GoMain, Resource
    <2>2. ProcessTyped'
      BY <1>0, <2>1, RetriesAssumption DEF ProcessTyped, MainPcs
    <2>3. PICK n \in 1..Len(Startup) : step[i] = n /\ Pending(i, n - 1)
      BY <1>0, <2>1 DEF StageAt, OpenAt
    <2>4. Pending(i, n)'
      <3> SUFFICES ASSUME NEW k \in 1..n, Startup[k] \in Deferred
                   PROVE  Startup[k] \in open'[i]
        BY <1>0 DEF Pending
      <3>1. open'[i] = open[i] \cup ({Startup[n]} \cap Deferred)
        BY <2>1, <2>3 DEF ProcessTyped
      <3>2. CASE k = n
        BY <3>1, <3>2
      <3>3. CASE k # n
        BY <2>3, <3>1, <3>3 DEF Pending
      <3>4. QED
        BY <3>2, <3>3
    <2>5. OpenAt(i)'
      <3>1. CASE n = Len(Startup)
        <4>1. main'[i] = "launch"
          BY <2>1, <2>3, <3>1 DEF ProcessTyped
        <4>2. Pending(i, Len(Startup))'
          BY <1>0, <2>4, <3>1
        <4>3. QED
          BY <4>1, <4>2 DEF OpenAt
      <3>2. CASE n # Len(Startup)
        <4>1. main'[i] = "starting" /\ step'[i] = n + 1
          BY <2>1, <2>3, <3>2 DEF ProcessTyped
        <4>2. step'[i] - 1 = n /\ step'[i] \in 1..Len(Startup')
          BY <1>0, <3>2, <4>1
        <4>3. Pending(i, step[i] - 1)'
          BY <2>4, <4>2
        <4>4. QED
          BY <4>1, <4>2, <4>3 DEF OpenAt
      <3>3. QED
        BY <3>1, <3>2
    <2>6. WorkersAt(i)' /\ ServerAt(i)'
      BY <1>0, <2>1 DEF ProcessTyped, StageAt, WorkersAt, ServerAt, NoWorkers
    <2>7. QED
      BY <2>1, <2>2, <2>5, <2>6, OneMoves DEF ProcessTyped, StageAt
  <1>3. CASE RetryConnect(i)
    <2>1. ProcessTyped'
      BY <1>0, <1>3, MishapsCounted, RetriesAssumption DEF ProcessTyped, RetryConnect
    <2>2. StageAt(i)'
      BY <1>0, <1>3, PendingStays
      DEF RetryConnect, StageAt, OpenAt, WorkersAt, ServerAt, NoWorkers
    <2>3. QED
      BY <1>3, <2>1, <2>2, OneMoves DEF RetryConnect
  <1>4. CASE StartupFails(i)
    <2>1. /\ main' = [main EXCEPT ![i] = "close"] /\ main[i] = "starting"
          /\ UNCHANGED <<kind, step, retry, open, worker, errCh, server, rpc>>
          /\ mishaps' \in 0..MaxMishaps
      BY <1>4, MishapsCounted DEF StartupFails, GoMain, ProcessTyped
    <2>2. ProcessTyped'
      BY <1>0, <2>1 DEF ProcessTyped, MainPcs
    <2>3. StageAt(i)'
      BY <1>0, <2>1
      DEF ProcessTyped, StageAt, OpenAt, WorkersAt, ServerAt, NoWorkers, Goroutines
    <2>4. QED
      BY <2>1, <2>2, <2>3, OneMoves DEF ProcessTyped
  <1>5. QED
    BY <1>1, <1>2, <1>3, <1>4

\* A process ends and leaves nothing behind.
LEMMA GoneStage ==
    ASSUME ProcessTyped, Stages, NEW i \in Instances, Gone(i), kind' = kind,
           mishaps' \in 0..MaxMishaps
    PROVE  ProcessTyped' /\ Stages'
  <1>1. /\ main' = [main EXCEPT ![i] = "down"] /\ step' = [step EXCEPT ![i] = 0]
        /\ retry' = [retry EXCEPT ![i] = 0] /\ open' = [open EXCEPT ![i] = {}]
        /\ worker' = [worker EXCEPT ![i] = NoWorkers] /\ errCh' = [errCh EXCEPT ![i] = {}]
        /\ server' = [server EXCEPT ![i] = "new"] /\ rpc' = rpc \ {i}
    BY DEF Gone, GoMain
  <1>2. NoWorkers \in [Goroutines -> WorkerPcs] /\ \A g \in Goroutines : NoWorkers[g] = "none"
    BY DEF NoWorkers, WorkerPcs
  <1>3. ProcessTyped'
    BY <1>1, <1>2, ServiceStays, RetriesAssumption DEF ProcessTyped, MainPcs
  <1>4. StageAt(i)'
    BY <1>1, <1>2 DEF ProcessTyped, StageAt, OpenAt, WorkersAt, ServerAt, NoWorkers
  <1>5. QED
    BY <1>1, <1>3, <1>4, OneMoves DEF ProcessTyped

LEMMA GoneStages ==
    ASSUME ProcessTyped, Stages, NEW i \in Instances,
           StartupFatal(i) \/ Killed(i) \/ ServeFatal(i) \/ ServerStopped(i) \/ Crash(i) \/ Exit(i)
    PROVE  ProcessTyped' /\ Stages'
  <1>1. Gone(i) /\ kind' = kind
    BY DEF StartupFatal, Killed, ServeFatal, ServerStopped, Crash, Exit
  <1>2. mishaps' \in 0..MaxMishaps
    BY MishapsCounted
    DEF StartupFatal, Killed, ServeFatal, ServerStopped, Crash, Exit, ProcessTyped
  <1>3. QED
    BY <1>1, <1>2, GoneStage

LEMMA LaunchStage ==
    ASSUME LifecycleInv, ProcessTyped, Stages, NEW i \in Instances, Launch(i)
    PROVE  ProcessTyped' /\ Stages'
  <1>0. /\ StageAt(i)
        /\ kind' = kind /\ Startup' = Startup /\ Deferred' = Deferred /\ Workers' = Workers
        /\ kind \notin ManagerKinds => Workers \subseteq {"signal"}
    BY ServiceFacts, ServiceStays DEF Stages, ProcessTyped, Launch
  <1>1. PICK w : w = [g \in Goroutines |-> IF g \in Workers THEN "running" ELSE "none"]
    OBVIOUS
  <1>2. /\ w \in [Goroutines -> WorkerPcs]
        /\ \A g \in Goroutines : w[g] = IF g \in Workers THEN "running" ELSE "none"
    BY <1>1 DEF WorkerPcs
  <1>3. /\ worker' = [worker EXCEPT ![i] = w] /\ main[i] = "launch"
        /\ main' = [main EXCEPT ![i] = IF kind \in ManagerKinds THEN "select" ELSE "serve"]
        /\ UNCHANGED <<kind, step, retry, open, errCh, server, rpc, mishaps>>
    BY <1>1 DEF Launch, GoMain
  <1>4. ProcessTyped'
    BY <1>0, <1>2, <1>3 DEF ProcessTyped, MainPcs
  <1>5. main'[i] = (IF kind \in ManagerKinds THEN "select" ELSE "serve") /\ worker'[i] = w
    BY <1>3 DEF ProcessTyped
  <1>6. OpenAt(i)'
    BY <1>0, <1>3, <1>5, PendingStays DEF StageAt, OpenAt
  <1>7. WorkersAt(i)'
    BY <1>0, <1>2, <1>5 DEF WorkersAt, Goroutines
  <1>8. ServerAt(i)'
    BY <1>0, <1>3, <1>5 DEF StageAt, ServerAt
  <1>9. QED
    BY <1>3, <1>4, <1>6, <1>7, <1>8, OneMoves DEF ProcessTyped, StageAt

\* A goroutine of a service at work ends, or fails.
LEMMA GoroutineStages ==
    ASSUME ProcessTyped, Stages, NEW i \in Instances, NEW g \in Goroutines, NEW pc \in WorkerPcs,
           GoWorker(i, g, pc), worker[i][g] # "none",
           UNCHANGED <<kind, main, step, retry, open, rpc>>,
           mishaps' \in 0..MaxMishaps,
           errCh' \in [Instances -> SUBSET {"manager", "grpc"}],
           \/ g # "signal" /\ pc \in {"none", "done"}
           \/ g # "signal" /\ worker[i][g] \notin {"none", "done"}
           \/ g = "signal" /\ server' = server /\ worker[i][g] # "stopping",
           \/ server' = server
           \/ /\ g = "grpc" /\ \E st \in {"serving", "broken"} : server' = [server EXCEPT ![i] = st]
              /\ server[i] \in {"new", "serving"} /\ worker[i][g] \notin {"none", "done"}
    PROVE  ProcessTyped' /\ Stages'
  <1>0. /\ StageAt(i)
        /\ kind' = kind /\ Startup' = Startup /\ Deferred' = Deferred /\ Workers' = Workers
    BY ServiceStays DEF Stages
  <1>1. /\ worker' = [worker EXCEPT ![i] = [worker[i] EXCEPT ![g] = pc]]
    BY DEF ProcessTyped, GoWorker
  <1>2. /\ worker'[i] = [worker[i] EXCEPT ![g] = pc]
        /\ worker' \in [Instances -> [Goroutines -> WorkerPcs]]
        /\ \A h \in Goroutines : worker'[i][h] = IF h = g THEN pc ELSE worker[i][h]
    BY <1>1 DEF ProcessTyped
  <1>3. ProcessTyped'
    BY <1>0, <1>2 DEF ProcessTyped
  <1>4. OpenAt(i)'
    BY <1>0, PendingStays DEF StageAt, OpenAt
  <1>5. main[i] \notin {"down", "starting", "launch"}
    <2>1. NoWorkers[g] = "none"
      BY DEF NoWorkers
    <2>2. QED
      BY <1>0, <2>1 DEF StageAt, WorkersAt
  <1>6. g \in {"outbox", "cleanup", "grpc"} /\ worker[i][g] \notin {"none", "done"}
          => main[i] \notin {"serve", "serving", "close"}
    BY <1>0 DEF StageAt, WorkersAt
  <1>7. WorkersAt(i)'
    BY <1>0, <1>2, <1>5, <1>6 DEF StageAt, WorkersAt, Goroutines
  <1>8. ServerAt(i)'
    BY <1>0, <1>2, <1>5, <1>6 DEF StageAt, ServerAt, Goroutines, ProcessTyped
  <1>9. QED
    BY <1>1, <1>3, <1>4, <1>7, <1>8, OneMoves DEF ProcessTyped, StageAt

LEMMA WorkerStages ==
    ASSUME ProcessTyped, Stages, NEW i \in Instances,
           \/ \E g \in {"outbox", "cleanup"} : TickerStops(i, g)
           \/ EventsReturn(i) \/ Serve(i) \/ ListenFails(i) \/ ServeFails(i) \/ ServeReturns(i)
           \/ \E g \in {"events", "grpc"} : SendError(i, g)
           \/ SignalGoroutine(i)
    PROVE  ProcessTyped' /\ Stages'
  <1> USE DEF Goroutines, WorkerPcs
  <1>0. mishaps' \in 0..MaxMishaps
    BY MishapsCounted
    DEF ProcessTyped, TickerStops, EventsReturn, Serve, ListenFails, ServeFails, ServeReturns,
        SendError, SignalGoroutine
  <1>e. errCh' \in [Instances -> SUBSET {"manager", "grpc"}]
    BY DEF ProcessTyped, TickerStops, EventsReturn, Serve, ListenFails, ServeFails, ServeReturns,
        SendError, SignalGoroutine, Channel
  <1>1. ASSUME NEW g \in {"outbox", "cleanup"}, TickerStops(i, g)
        PROVE  ProcessTyped' /\ Stages'
    BY <1>0, <1>e, <1>1, GoroutineStages DEF TickerStops
  <1>2. CASE EventsReturn(i)
    BY <1>0, <1>e, <1>2, GoroutineStages DEF EventsReturn
  <1>3. CASE Serve(i)
    BY <1>0, <1>e, <1>3, GoroutineStages DEF Serve
  <1>4. CASE ListenFails(i)
    BY <1>0, <1>e, <1>4, GoroutineStages DEF ListenFails
  <1>5. CASE ServeFails(i)
    BY <1>0, <1>e, <1>5, GoroutineStages DEF ServeFails
  <1>6. CASE ServeReturns(i)
    BY <1>0, <1>e, <1>6, GoroutineStages DEF ServeReturns
  <1>7. ASSUME NEW g \in {"events", "grpc"}, SendError(i, g)
        PROVE  ProcessTyped' /\ Stages'
    BY <1>0, <1>e, <1>7, GoroutineStages DEF SendError
  <1>8. CASE SignalGoroutine(i)
    BY <1>0, <1>e, <1>8, GoroutineStages DEF SignalGoroutine
  <1>9. QED
    BY <1>1, <1>2, <1>3, <1>4, <1>5, <1>6, <1>7, <1>8

\* Requests come and go, and main waits for the server and the goroutines.
LEMMA ServingStages ==
    ASSUME LifecycleInv, ProcessTyped, Stages, NEW i \in Instances,
           \/ Accept(i) \/ Reply(i) \/ SelectDone(i) \/ Signal(i)
           \/ \E ch \in {"manager", "grpc"} : SelectError(i, ch)
           \/ GracefulStop(i) \/ Wait(i) \/ Close(i) \/ ServeFromMain(i) \/ ServeEnds(i)
    PROVE  ProcessTyped' /\ Stages'
  <1>0. /\ StageAt(i) /\ ProcessAt(i)
        /\ kind' = kind /\ Startup' = Startup /\ Deferred' = Deferred /\ Workers' = Workers
        /\ kind \in ManagerKinds => "signal" \notin Workers
    BY ServiceFacts, ServiceStays
    DEF Stages, LifecycleInv, ProcessTyped, Accept, Reply, SelectDone, Signal, SelectError,
        GracefulStop, Wait, Close, ServeFromMain, ServeEnds
  <1> USE DEF MainPcs
  <1>1. CASE Accept(i)
    <2>1. /\ rpc' = rpc \cup {i} /\ server[i] = "serving"
          /\ UNCHANGED <<main, step, retry, open, worker, errCh, server, mishaps>>
      BY <1>1 DEF Accept
    <2>2. ProcessTyped'
      BY <1>0, <2>1 DEF ProcessTyped
    <2>3. main[i] \in {"select", "graceful", "serving"}
      BY <1>0, <2>1 DEF StageAt, ServerAt, ProcessTyped
    <2>4. StageAt(i)'
      BY <1>0, <2>1, <2>3, PendingStays DEF StageAt, OpenAt, WorkersAt, ServerAt, NoWorkers
    <2>5. QED
      BY <1>0, <2>1, <2>2, <2>4, OneMoves
  <1>2. CASE Reply(i)
    <2>1. /\ rpc' = rpc \ {i}
          /\ UNCHANGED <<main, step, retry, open, worker, errCh, server, mishaps>>
      BY <1>2 DEF Reply
    <2>2. ProcessTyped'
      BY <1>0, <2>1 DEF ProcessTyped
    <2>3. StageAt(i)'
      BY <1>0, <2>1, PendingStays DEF StageAt, OpenAt, WorkersAt, ServerAt, NoWorkers
    <2>4. QED
      BY <1>0, <2>1, <2>2, <2>3, OneMoves
  <1>3. CASE SelectDone(i) \/ \E ch \in {"manager", "grpc"} : SelectError(i, ch)
    <2>1. /\ main' = [main EXCEPT ![i] = "graceful"] /\ main[i] = "select"
          /\ UNCHANGED <<step, retry, open, worker, server, rpc, mishaps>>
          /\ errCh' \in [Instances -> SUBSET {"manager", "grpc"}]
      BY <1>3 DEF SelectDone, SelectError, GoMain, ProcessTyped
    <2>2. ProcessTyped'
      BY <1>0, <2>1 DEF ProcessTyped
    <2>3. main'[i] = "graceful"
      BY <2>1 DEF ProcessTyped
    <2>4. StageAt(i)'
      BY <1>0, <2>1, <2>3, PendingStays DEF StageAt, OpenAt, WorkersAt, ServerAt, NoWorkers
    <2>5. QED
      BY <1>0, <2>1, <2>2, <2>4, OneMoves DEF ProcessTyped
  <1>4. CASE Signal(i)
    <2>1. /\ UNCHANGED <<main, step, retry, open, worker, errCh, server, rpc>>
          /\ mishaps' \in 0..MaxMishaps
      BY <1>4, MishapsCounted DEF Signal, processVars, ProcessTyped
    <2>2. ProcessTyped'
      BY <1>0, <2>1 DEF ProcessTyped
    <2>3. StageAt(i)'
      BY <1>0, <2>1, PendingStays DEF StageAt, OpenAt, WorkersAt, ServerAt, NoWorkers
    <2>4. QED
      BY <1>0, <2>1, <2>2, <2>3, OneMoves
  <1>5. CASE GracefulStop(i)
    <2>1. /\ main[i] = "graceful" \/ worker[i]["signal"] = "stopping"
          /\ server[i] \in {"new", "serving", "broken"}
          /\ server' = [server EXCEPT ![i] = "draining"]
          /\ UNCHANGED <<main, step, retry, open, worker, errCh, rpc, mishaps>>
      BY <1>5 DEF GracefulStop
    <2>2. ProcessTyped'
      BY <1>0, <2>1 DEF ProcessTyped
    <2>3. server'[i] = "draining"
      BY <2>1 DEF ProcessTyped
    <2>4. NoWorkers["signal"] = "none"
      BY DEF NoWorkers, Goroutines
    <2>5. main[i] \notin {"down", "starting", "launch", "wait", "close"}
      BY <1>0, <2>1, <2>4 DEF StageAt, ServerAt, WorkersAt
    <2>6. StageAt(i)'
      BY <1>0, <2>1, <2>3, <2>5, PendingStays
      DEF StageAt, OpenAt, WorkersAt, ServerAt, NoWorkers
    <2>7. QED
      BY <1>0, <2>1, <2>2, <2>6, OneMoves DEF ProcessTyped
  <1>6. CASE Wait(i)
    <2>1. /\ main' = [main EXCEPT ![i] = "close"] /\ main[i] = "wait"
          /\ \A g \in Workers : worker[i][g] = "done"
          /\ UNCHANGED <<step, retry, open, worker, errCh, server, rpc, mishaps>>
      BY <1>6 DEF Wait, GoMain
    <2>2. ProcessTyped'
      BY <1>0, <2>1 DEF ProcessTyped
    <2>3. main'[i] = "close"
      BY <2>1 DEF ProcessTyped
    <2>4. StageAt(i)'
      BY <1>0, <2>1, <2>3 DEF StageAt, OpenAt, WorkersAt, ServerAt, NoWorkers, Goroutines
    <2>5. QED
      BY <1>0, <2>1, <2>2, <2>4, OneMoves DEF ProcessTyped
  <1>7. CASE Close(i)
    <2>1. PICK n \in 1..Len(Startup) :
              /\ main[i] = "close" /\ open' = [open EXCEPT ![i] = @ \ {Startup[n]}]
              /\ UNCHANGED <<main, step, retry, worker, errCh, server, rpc, mishaps>>
      BY <1>7 DEF Close
    <2>2. ProcessTyped'
      BY <1>0, <2>1 DEF ProcessTyped
    <2>3. StageAt(i)'
      BY <1>0, <2>1 DEF StageAt, OpenAt, WorkersAt, ServerAt, NoWorkers
    <2>4. QED
      BY <1>0, <2>1, <2>2, <2>3, OneMoves DEF ProcessTyped
  <1>8. CASE ServeFromMain(i)
    <2>1. /\ main' = [main EXCEPT ![i] = "serving"] /\ main[i] = "serve"
          /\ server' = [server EXCEPT ![i] = "serving"]
          /\ UNCHANGED <<step, retry, open, worker, errCh, rpc, mishaps>>
      BY <1>8 DEF ServeFromMain, GoMain
    <2>2. ProcessTyped'
      BY <1>0, <2>1 DEF ProcessTyped
    <2>3. main'[i] = "serving" /\ server'[i] = "serving"
      BY <2>1 DEF ProcessTyped
    <2>4. StageAt(i)'
      BY <1>0, <2>1, <2>3, PendingStays DEF StageAt, OpenAt, WorkersAt, ServerAt, NoWorkers
    <2>5. QED
      BY <1>0, <2>1, <2>2, <2>4, OneMoves DEF ProcessTyped
  <1>9. CASE ServeEnds(i)
    <2>1. /\ main' = [main EXCEPT ![i] = "close"] /\ main[i] = "serving"
          /\ server[i] = "stopped"
          /\ UNCHANGED <<step, retry, open, worker, errCh, server, rpc, mishaps>>
      BY <1>9 DEF ServeEnds, GoMain
    <2>2. ProcessTyped'
      BY <1>0, <2>1 DEF ProcessTyped
    <2>3. main'[i] = "close"
      BY <2>1 DEF ProcessTyped
    <2>4. StageAt(i)'
      BY <1>0, <2>1, <2>3 DEF StageAt, OpenAt, WorkersAt, ServerAt, NoWorkers
    <2>5. QED
      BY <1>0, <2>1, <2>2, <2>4, OneMoves DEF ProcessTyped
  <1>10. QED
    BY <1>1, <1>2, <1>3, <1>4, <1>5, <1>6, <1>7, <1>8, <1>9

\* The server has answered its requests: whoever stopped it goes on.
LEMMA DrainedStage ==
    ASSUME ProcessTyped, Stages, NEW i \in Instances, Drained(i)
    PROVE  ProcessTyped' /\ Stages'
  <1>0. /\ StageAt(i)
        /\ kind' = kind /\ Startup' = Startup /\ Deferred' = Deferred /\ Workers' = Workers
    BY ServiceStays DEF Stages, Drained
  <1>1. /\ server[i] = "draining" /\ i \notin rpc
        /\ server' = [server EXCEPT ![i] = "stopped"] /\ server'[i] = "stopped"
        /\ UNCHANGED <<step, retry, open, errCh, rpc, mishaps>>
    BY DEF Drained, ProcessTyped
  <1>2. CASE main[i] = "graceful"
    <2>1. main' = [main EXCEPT ![i] = "wait"] /\ worker' = worker /\ main'[i] = "wait"
      BY <1>2 DEF Drained, GoMain, ProcessTyped
    <2>2. ProcessTyped'
      BY <1>0, <1>1, <2>1 DEF ProcessTyped, MainPcs
    <2>3. StageAt(i)'
      BY <1>0, <1>1, <1>2, <2>1, PendingStays
      DEF StageAt, OpenAt, WorkersAt, ServerAt, NoWorkers
    <2>4. QED
      BY <1>0, <1>1, <2>1, <2>2, <2>3, OneMoves DEF ProcessTyped
  <1>3. CASE main[i] # "graceful"
    <2>1. /\ worker' = [worker EXCEPT ![i] = [worker[i] EXCEPT !["signal"] = "done"]] /\ main' = main
          /\ worker[i]["signal"] = "stopping"
      BY <1>0, <1>1, <1>3 DEF Drained, GoWorker, ProcessTyped, StageAt, ServerAt
    <2>2. \A g \in Goroutines :
              worker'[i][g] = IF g = "signal" THEN "done" ELSE worker[i][g]
      BY <2>1 DEF ProcessTyped
    <2>3. ProcessTyped'
      BY <1>0, <1>1, <2>1 DEF ProcessTyped, WorkerPcs, Goroutines
    <2>4. main[i] \notin {"down", "starting", "launch"}
      BY <1>0, <1>1 DEF StageAt, ServerAt
    <2>5. StageAt(i)'
      BY <1>0, <1>1, <1>3, <2>1, <2>2, <2>4, PendingStays
      DEF StageAt, OpenAt, WorkersAt, ServerAt, Goroutines
    <2>6. QED
      BY <1>0, <1>1, <2>1, <2>3, <2>5, OneMoves DEF ProcessTyped
  <1>4. QED
    BY <1>2, <1>3

\* A step that is none of the process's own.
LEMMA UnmovedStages ==
    ASSUME ProcessTyped, Stages, UNCHANGED <<kind, processVars, mishaps>>
    PROVE  ProcessTyped' /\ Stages'
  <1>1. /\ kind' = kind /\ UNCHANGED <<main, step, retry, open, worker, errCh, server, rpc, mishaps>>
        /\ Startup' = Startup /\ Deferred' = Deferred /\ Workers' = Workers
    BY ServiceStays DEF processVars
  <1>2. ProcessTyped'
    BY <1>1 DEF ProcessTyped
  <1>3. ASSUME NEW i \in Instances PROVE StageAt(i)'
    BY <1>1, PendingStays DEF Stages, StageAt, OpenAt, WorkersAt, ServerAt, NoWorkers
  <1>4. QED
    BY <1>2, <1>3 DEF Stages

LEMMA StagesStep ==
    LifecycleInv /\ ProcessTyped /\ Stages /\ [Next]_vars => ProcessTyped' /\ Stages'
  <1> SUFFICES ASSUME LifecycleInv, ProcessTyped, Stages, [Next]_vars
               PROVE  ProcessTyped' /\ Stages'
    OBVIOUS
  <1>1. CASE UNCHANGED vars
    BY <1>1, UnmovedStages DEF vars
  <1>2. CASE Produce /\ kind \in ManagerKinds /\ UNCHANGED <<kind, processVars, mishaps>>
    BY <1>2, UnmovedStages
  <1>3. ASSUME NEW i \in Instances, ProcessStep(i)
        PROVE  ProcessTyped' /\ Stages'
    BY <1>3, StartupStages, LaunchStage, WorkerStages, ServingStages, DrainedStage, GoneStages
       DEF ProcessStep
  <1>4. ASSUME NEW i \in Instances,
               \/ Group(i) \/ Accept(i) \/ Reply(i)
               \/ RetryConnect(i) \/ StartupFails(i) \/ StartupFatal(i)
               \/ ListenFails(i) \/ ServeFails(i) \/ ServeFatal(i)
               \/ Signal(i) \/ SignalGoroutine(i) \/ Killed(i) \/ Crash(i)
        PROVE  ProcessTyped' /\ Stages'
    BY <1>4, StartupStages, WorkerStages, ServingStages, GoneStages, UnmovedStages DEF Group
  <1>5. QED
    BY <1>1, <1>2, <1>3, <1>4 DEF Next

LEMMA StagesKept == Spec => [](LifecycleInv /\ ProcessTyped /\ Stages)
  <1>1. Init => ProcessTyped
    BY RetriesAssumption, MishapsAssumption
    DEF Init, ProcessTyped, MainPcs, WorkerPcs, NoWorkers
  <1>2. ASSUME Init, NEW i \in Instances PROVE StageAt(i)
    <2>1. /\ main[i] = "down" /\ server[i] = "new" /\ rpc = {}
          /\ worker[i] = NoWorkers
      BY <1>2 DEF Init
    <2>2. \A g \in Goroutines : NoWorkers[g] = "none"
      BY DEF NoWorkers
    <2>3. OpenAt(i)
      BY <2>1 DEF OpenAt
    <2>4. WorkersAt(i)
      BY <2>1, <2>2 DEF WorkersAt
    <2>5. ServerAt(i)
      BY <2>1 DEF ServerAt
    <2>6. QED
      BY <2>3, <2>4, <2>5 DEF StageAt
  <1>3. QED
    <2>1. Init => Stages
      BY <1>2 DEF Stages
    <2>2. QED
      BY <1>1, <2>1, LifecycleInit, LifecycleStep, StagesStep, PTL DEF Spec

\* The variables of the services and of their consumers have their types.
THEOREM ServiceTyped == Spec => []TypeOK
  <1>1. LifecycleInv /\ ProcessTyped => TypeOK
    BY DEF LifecycleInv, ConsumerInv, ProcessTyped, TypeOK
  <1>2. QED
    BY <1>1, StagesKept, PTL

\* No request and no goroutine at work finds a connection closed: main closes
\* them after GracefulStop and wg.Wait, or never had anything running.
THEOREM ServiceUsesOnlyOpen == Spec => []UsesOnlyOpen
  <1>1. LifecycleInv /\ ProcessTyped /\ Stages => UsesOnlyOpen
    <2> SUFFICES ASSUME LifecycleInv, ProcessTyped, Stages,
                        NEW i \in Instances, NEW who \in AtWork(i)
                 PROVE  Uses(who) \subseteq open[i]
      BY DEF UsesOnlyOpen
    <2>1. /\ StageAt(i) /\ ProcessAt(i) /\ kind \in Kinds /\ main[i] \in MainPcs
          /\ NoWorkers["outbox"] = "none" /\ NoWorkers["cleanup"] = "none"
      BY DEF Stages, LifecycleInv, ProcessTyped, NoWorkers, Goroutines
    <2>2. who \in {"outbox", "cleanup", "events", "rpc"}
      BY DEF AtWork
    <2>3. main[i] \in {"select", "graceful", "wait", "serving"}
      <3>1. CASE who \in {"outbox", "cleanup"}
        BY <2>1, <3>1 DEF AtWork, StageAt, WorkersAt, MainPcs
      <3>2. CASE who = "events"
        BY <2>1, <3>2 DEF AtWork, ProcessAt, At, MainPcs
      <3>3. CASE who = "rpc"
        BY <2>1, <3>3 DEF AtWork, StageAt, ServerAt
      <3>4. QED
        BY <2>2, <3>1, <3>2, <3>3
    <2>4. Pending(i, Len(Startup))
      BY <2>1, <2>3 DEF StageAt, OpenAt
    <2>5. QED
      BY <2>1, <2>2, <2>4, UsesWhatIsOpened
  <1>2. QED
    BY <1>1, StagesKept, PTL

\* A request that was accepted is answered before main returns: only a failure
\* that ends the process at once can come before its reply.
THEOREM ServiceReplies == Spec => RepliesBeforeExit
  <1> DEFINE Replied == \A i \in rpc : main'[i] = "down" => mishaps' > mishaps \/ faults' > faults
  <1>1. LifecycleInv /\ ProcessTyped /\ Stages /\ Next => Replied
    <2> SUFFICES ASSUME LifecycleInv, ProcessTyped, Stages, Next,
                        NEW i \in rpc, main'[i] = "down"
                 PROVE  mishaps' > mishaps \/ faults' > faults
      OBVIOUS
    <2>1. /\ i \in Instances /\ main \in [Instances -> MainPcs] /\ faults \in Nat
          /\ main[i] \in {"select", "graceful", "serving"}
      BY BoundAssumption
      DEF ProcessTyped, Stages, StageAt, ServerAt, LifecycleInv, ConsumerInv, ConsumerTypeOK
    <2>2. ASSUME NEW j \in Instances, StartupFatal(j) \/ Killed(j) \/ ServeFatal(j)
          PROVE  mishaps' > mishaps
      BY <2>2, MishapsCounted DEF StartupFatal, Killed, ServeFatal, ProcessTyped
    <2>3. ASSUME NEW j \in Instances, Crash(j) PROVE faults' > faults
      BY <2>1, <2>3 DEF Crash, Fault
    <2>4. ASSUME NEW j \in Instances, ServerStopped(j) \/ Exit(j) PROVE FALSE
      BY <2>1, <2>4 DEF ServerStopped, Exit, Gone, GoMain
    <2>5. ASSUME NEW j \in Instances,
                 \/ Boot(j) \/ Advance(j) \/ Launch(j) \/ RetryConnect(j) \/ StartupFails(j)
                 \/ \E g \in {"outbox", "cleanup"} : TickerStops(j, g)
                 \/ EventsReturn(j) \/ Serve(j) \/ ServeReturns(j) \/ ListenFails(j) \/ ServeFails(j)
                 \/ \E g \in {"events", "grpc"} : SendError(j, g)
                 \/ Accept(j) \/ Reply(j) \/ SignalGoroutine(j) \/ Signal(j) \/ Group(j)
          PROVE  FALSE
      BY <2>1, <2>5
      DEF Boot, Advance, Launch, RetryConnect, StartupFails, TickerStops, EventsReturn, Serve,
          ServeReturns, ListenFails, ServeFails, SendError, Accept, Reply, SignalGoroutine,
          Signal, Group, GoMain, processVars
    <2>6. ASSUME NEW j \in Instances,
                 \/ SelectDone(j) \/ \E ch \in {"manager", "grpc"} : SelectError(j, ch)
                 \/ GracefulStop(j) \/ Drained(j) \/ Wait(j) \/ Close(j)
                 \/ ServeFromMain(j) \/ ServeEnds(j)
          PROVE  FALSE
      BY <2>1, <2>6
      DEF SelectDone, SelectError, GracefulStop, Drained, Wait, Close, ServeFromMain, ServeEnds,
          GoMain
    <2>7. CASE Produce /\ kind \in ManagerKinds /\ UNCHANGED <<kind, processVars, mishaps>>
      BY <2>1, <2>7 DEF processVars
    <2>8. QED
      BY <2>2, <2>3, <2>4, <2>5, <2>6, <2>7 DEF Next, ProcessStep
  <1>2. LifecycleInv /\ ProcessTyped /\ Stages /\ [Next]_vars => [Replied]_vars
    BY <1>1
  <1>3. QED
    BY <1>2, StagesKept, PTL DEF Spec, RepliesBeforeExit
=============================================================================
