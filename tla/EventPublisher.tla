---------------------------- MODULE EventPublisher ----------------------------
(***************************************************************************)
(* The events of a worker on their way to Kafka: KafkaEventPublisher of    *)
(* the infrastructure package (publish, sendEvent, sendToDeadLetterQueue), *)
(* KafkaManager's createProducer and publish, and the pool that keeps the  *)
(* producers.  All events go through the producer "default" of the pool;   *)
(* the idle connections are removed by a timer.  Kafka is external: a      *)
(* message may be appended although the sender is told that it was not.    *)
(*                                                                         *)
(* Left out: batches (no service asks for them), the bound of the pool     *)
(* (one producer), validation, the metrics, the first connection and the   *)
(* shutdown.                                                               *)
(***************************************************************************)
EXTENDS Naturals, Sequences, FiniteSets

CONSTANTS
    Events,         \* events published, one call each
    RetryAttempts,  \* attempts after the first one
    MaxProducers,   \* bound: producers made
    MaxSendFaults   \* bound: calls of Kafka that fail or whose reply is lost

ASSUME PublisherAssumption ==
    /\ RetryAttempts \in Nat /\ MaxSendFaults \in Nat
    /\ MaxProducers \in Nat \ {0}

VARIABLES
    publication,    \* where the call of each event is
    producer,       \* state of each producer
    pooled,         \* the producer the pool keeps, or 0
    topic,          \* the messages of the main topic
    deadLetters,    \* the messages of the dead letter topic
    sendFaults,     \* faults so far
    lostReplies,    \* those that were lost replies
    createdAtOnce   \* two calls have been making a producer at once

kafkaVars == <<topic, deadLetters, sendFaults, lostReplies>>
publisherVars == <<publication, producer, pooled, kafkaVars, createdAtOnce>>

ProducerIds == 1..MaxProducers
Publication == [pc : {"idle", "connect", "send", "wait", "ok", "failed"},
                attempt : 0..RetryAttempts, using : 0..MaxProducers, dlq : BOOLEAN]

PublisherTypeOK ==
    /\ publication \in [Events -> Publication]
    /\ producer \in [ProducerIds ->
            {"none", "connecting", "open", "closing", "closed", "abandoned"}]
    /\ pooled \in 0..MaxProducers
    /\ topic \in Seq(Events) /\ deadLetters \in Seq(Events)
    /\ sendFaults \in 0..MaxSendFaults /\ lostReplies \in 0..sendFaults
    /\ createdAtOnce \in BOOLEAN

PublisherInit ==
    /\ publication = [e \in Events |->
            [pc |-> "idle", attempt |-> 0, using |-> 0, dlq |-> FALSE]]
    /\ producer = [p \in ProducerIds |-> "none"] /\ pooled = 0
    /\ topic = <<>> /\ deadLetters = <<>>
    /\ sendFaults = 0 /\ lostReplies = 0 /\ createdAtOnce = FALSE

-----------------------------------------------------------------------------
Connecting == {e \in Events : publication[e].pc = "connect"}
UnusedProducers == {p \in ProducerIds : producer[p] = "none"}
\* Kafka's client gives up a call long before the five minutes of the pool.
InUse == {publication[e].using : e \in {f \in Events : publication[f].pc = "send"}}

\* createProducer: the pool's producer, even while it is being disconnected,
\* or a new one.  c is the call as it is then: a new attempt or the dead letter.
Obtain(e, c) ==
    \/ /\ pooled # 0
       /\ publication' = [publication EXCEPT ![e] = [c EXCEPT !.pc = "send", !.using = pooled]]
       /\ UNCHANGED <<producer, createdAtOnce>>
    \/ /\ pooled = 0 /\ UnusedProducers # {}
       /\ \E p \in UnusedProducers :
            /\ \A q \in UnusedProducers : p <= q
            /\ producer' = [producer EXCEPT ![p] = "connecting"]
            /\ publication' = [publication EXCEPT ![e] = [c EXCEPT !.pc = "connect", !.using = p]]
       /\ createdAtOnce' = (createdAtOnce \/ Connecting # {})

\* Mutant: the error is not thrown again behind the dead letter.
AttemptFailedQuietly(c) ==
    IF c.dlq THEN [c EXCEPT !.pc = "ok"]
    ELSE IF c.attempt = RetryAttempts THEN [c EXCEPT !.pc = "wait", !.dlq = TRUE]
    ELSE [c EXCEPT !.pc = "wait", !.attempt = @ + 1]

\* What a failed call leads to: a pause and another attempt, after the last
\* one the dead letter, and after that (its errors are swallowed) the error.
AttemptFailed(c) ==
    IF c.dlq THEN [c EXCEPT !.pc = "failed"]
    ELSE IF c.attempt = RetryAttempts THEN [c EXCEPT !.pc = "wait", !.dlq = TRUE]
    ELSE [c EXCEPT !.pc = "wait", !.attempt = @ + 1]

Faulty == sendFaults < MaxSendFaults /\ sendFaults' = sendFaults + 1

Publish(e) ==
    /\ publication[e].pc = "idle"
    /\ Obtain(e, publication[e])
    /\ UNCHANGED <<pooled, kafkaVars>>

\* One, two, three seconds later; the dead letter follows at once.
TryAgain(e) ==
    /\ publication[e].pc = "wait"
    /\ Obtain(e, publication[e])
    /\ UNCHANGED <<pooled, kafkaVars>>

\* addProducer puts it under the id, whatever was there.
ConnectedProducer(e) ==
    /\ publication[e].pc = "connect"
    /\ producer' = [producer EXCEPT ![publication[e].using] = "open"]
    /\ pooled' = publication[e].using
    /\ publication' = [publication EXCEPT ![e].pc = "send"]
    /\ UNCHANGED <<kafkaVars, createdAtOnce>>

ConnectFails(e) ==
    /\ publication[e].pc = "connect" /\ Faulty
    /\ producer' = [producer EXCEPT ![publication[e].using] = "abandoned"]
    /\ publication' = [publication EXCEPT ![e] = AttemptFailed(@)]
    /\ UNCHANGED <<pooled, topic, deadLetters, lostReplies, createdAtOnce>>

\* The event is where it should go; the reply may be lost on its way.
SendTakesEffect(e) ==
    /\ publication[e].pc = "send" /\ producer[publication[e].using] = "open"
    /\ IF publication[e].dlq
       THEN deadLetters' = Append(deadLetters, e) /\ UNCHANGED topic
       ELSE topic' = Append(topic, e) /\ UNCHANGED deadLetters
    /\ \/ /\ publication' = [publication EXCEPT
                ![e].pc = IF publication[e].dlq THEN "failed" ELSE "ok"]
          /\ UNCHANGED <<sendFaults, lostReplies>>
       \/ /\ Faulty /\ lostReplies' = lostReplies + 1
          /\ publication' = [publication EXCEPT ![e] = AttemptFailed(@)]
    /\ UNCHANGED <<producer, pooled, createdAtOnce>>

\* Kafka refuses, or the producer is being disconnected and refuses itself.
SendFails(e) ==
    /\ publication[e].pc = "send"
    /\ IF producer[publication[e].using] = "open" THEN Faulty ELSE UNCHANGED sendFaults
    /\ publication' = [publication EXCEPT ![e] = AttemptFailed(@)]
    /\ UNCHANGED <<producer, pooled, topic, deadLetters, lostReplies, createdAtOnce>>

\* The timer finds the producer idle; removeProducer awaits its disconnection
\* and then deletes what the pool has under the id.
RemoveIdle ==
    /\ pooled # 0 /\ producer[pooled] = "open" /\ pooled \notin InUse /\ Connecting = {}
    /\ producer' = [producer EXCEPT ![pooled] = "closing"]
    /\ UNCHANGED <<publication, pooled, kafkaVars, createdAtOnce>>

IdleRemoved(p) ==
    /\ producer[p] = "closing"
    /\ producer' = [producer EXCEPT ![p] = "closed"]
    /\ pooled' = 0
    /\ UNCHANGED <<publication, kafkaVars, createdAtOnce>>

-----------------------------------------------------------------------------
PublisherNext ==
    \/ \E e \in Events : \/ Publish(e) \/ TryAgain(e)
                         \/ ConnectedProducer(e) \/ ConnectFails(e)
                         \/ SendTakesEffect(e) \/ SendFails(e)
    \/ RemoveIdle
    \/ \E p \in ProducerIds : IdleRemoved(p)

PublisherSpec == PublisherInit /\ [][PublisherNext]_publisherVars

-----------------------------------------------------------------------------
Copies(messages, e) == Cardinality({i \in 1..Len(messages) : messages[i] = e})
OpenProducers == {p \in ProducerIds : producer[p] = "open"}

(* publish keeps its word: what it reports as sent is in the main topic,   *)
(* and what it reports as failed is in the dead letter topic, unless Kafka *)
(* failed for every attempt or the pool was removing the producer.  An     *)
(* event is there twice, in one topic or in both, only when a reply was    *)
(* lost; a producer stays open that the pool does not know only when two   *)
(* calls made one at once.                                                 *)
EventsAreAccounted ==
    /\ \A e \in Events :
          LET sent == Copies(topic, e)
              dead == Copies(deadLetters, e)
          IN /\ publication[e].pc = "ok" => sent > 0
             /\ publication[e].pc = "failed" /\ dead = 0 =>
                    \/ sendFaults >= RetryAttempts + 2
                    \/ \E p \in ProducerIds : producer[p] \in {"closing", "closed"}
             /\ sent + dead <= 1 + lostReplies
    /\ \A p \in OpenProducers : p = pooled \/ createdAtOnce
=============================================================================
