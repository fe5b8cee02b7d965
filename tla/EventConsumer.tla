---------------------------- MODULE EventConsumer ----------------------------
(***************************************************************************)
(* The one reader of the events: kafkaConsumer.ts of the websocket service *)
(* (start, stop, restart, the health checks, messageHandler), KafkaManager *)
(* (connect, gracefulShutdown, createConsumer, subscribe, isHealthy) and   *)
(* the part of its pool that keeps consumers.  The server starts the       *)
(* consumer once; every 30 seconds a health check may stop it and start it *)
(* again.  A check that takes longer overlaps the next one.                *)
(*                                                                         *)
(* Every start joins a new consumer group, which begins at the end of the  *)
(* topic.  Left out: the routing rules, the errors of a handler (they are  *)
(* swallowed), the creation of topics and the signals.                     *)
(***************************************************************************)
EXTENDS Naturals, FiniteSets

CONSTANTS
    Checks,             \* health checks that may be under way at once
    Boot,               \* the start by the server
    MaxConsumers,       \* bound: consumers made
    MaxEvents,          \* bound: events that reach the topic
    MaxConsumerFaults   \* bound: calls of Kafka that fail, consumers that crash

ASSUME ConsumerAssumption ==
    /\ Boot \notin Checks
    /\ MaxConsumers \in Nat \ {0} /\ MaxEvents \in Nat /\ MaxConsumerFaults \in Nat

VARIABLES
    isRunning,      \* the flag of the service
    monitored,      \* the timer of the health checks is set
    manager,        \* KafkaManager: its connection and its shutdown
    consumer,       \* each consumer: its state and the next event it reads
    keptConsumer,   \* the consumer the pool keeps, or 0
    starter,        \* what the server's start and each check do
    appended,       \* events in the topic
    handled,        \* how often each event was handled
    consumerFaults, \* faults so far
    crossed         \* a check stopped what another start or check was about

eventVars == <<appended, handled>>
consumerVars == <<isRunning, monitored, manager, consumer, keptConsumer, starter,
                  eventVars, consumerFaults, crossed>>

ConsumerIds == 1..MaxConsumers
Starters == Checks \cup {Boot}
EventIds == 1..MaxEvents

ConsumerTypeOK ==
    /\ {isRunning, monitored, crossed} \subseteq BOOLEAN
    /\ manager \in [link : {"pending", "up", "down"}, shutdown : {"no", "underway", "done"}]
    /\ consumer \in [ConsumerIds -> [st : {"none", "connecting", "idle", "live", "closed"},
                                     next : 1..(MaxEvents + 1)]]
    /\ keptConsumer \in 0..MaxConsumers
    /\ starter \in [Starters -> [pc : {"off", "asking", "stopping", "pause", "connect", "join",
                                       "started", "failed"},
                                 made : 0..MaxConsumers]]
    /\ appended \in 0..MaxEvents /\ handled \in [EventIds -> Nat]
    /\ consumerFaults \in 0..MaxConsumerFaults

ConsumerInit ==
    /\ isRunning = FALSE /\ monitored = TRUE
    /\ manager = [link |-> "pending", shutdown |-> "no"]
    /\ consumer = [c \in ConsumerIds |-> [st |-> "none", next |-> 1]] /\ keptConsumer = 0
    /\ starter = [s \in Starters |-> [pc |-> "off", made |-> 0]]
    /\ appended = 0 /\ handled = [n \in EventIds |-> 0]
    /\ consumerFaults = 0 /\ crossed = FALSE

-----------------------------------------------------------------------------
ConsumerFaulty == consumerFaults < MaxConsumerFaults /\ consumerFaults' = consumerFaults + 1
UnusedConsumers == {c \in ConsumerIds : consumer[c].st = "none"}
LiveConsumers == {c \in ConsumerIds : consumer[c].st = "live"}
Starting == {s \in Starters : starter[s].pc \in {"connect", "join"}}
\* A failed start of the server, or a failed first connection, ends the process.
ServerEnded == starter[Boot].pc = "failed"
\* What isHealthy asks of the manager before it asks the brokers.
ManagerUsable == manager.link = "up" /\ manager.shutdown = "no"

\* The constructor's connection to the brokers.
ManagerConnects ==
    /\ ~ServerEnded /\ manager.link = "pending"
    /\ \/ /\ manager' = [manager EXCEPT !.link = "up"]
          /\ UNCHANGED <<starter, consumerFaults>>
       \/ /\ ConsumerFaulty
          /\ starter' = [starter EXCEPT ![Boot].pc = "failed"]
          /\ UNCHANGED manager
    /\ UNCHANGED <<isRunning, monitored, consumer, keptConsumer, eventVars, crossed>>

\* start: nothing if it runs; else createConsumer gives the kept one or a new one.
Start(s) ==
    /\ ~ServerEnded /\ starter[s].pc = IF s = Boot THEN "off" ELSE "pause"
    /\ isRunning' = TRUE
    /\ \/ /\ isRunning
          /\ starter' = [starter EXCEPT ![s].pc = "started"]
          /\ UNCHANGED consumer
       \/ /\ ~isRunning /\ keptConsumer # 0
          /\ starter' = [starter EXCEPT ![s] = [pc |-> "join", made |-> keptConsumer]]
          /\ UNCHANGED consumer
       \/ /\ ~isRunning /\ keptConsumer = 0
          /\ \E c \in UnusedConsumers :
                /\ \A d \in UnusedConsumers : c <= d
                /\ starter' = [starter EXCEPT ![s] = [pc |-> "connect", made |-> c]]
                /\ consumer' = [consumer EXCEPT ![c].st = "connecting"]
    /\ UNCHANGED <<monitored, manager, keptConsumer, eventVars, consumerFaults, crossed>>

\* addConsumer puts it under the id, whatever was there.
Connected(s) ==
    /\ ~ServerEnded /\ starter[s].pc = "connect"
    /\ consumer' = [consumer EXCEPT ![starter[s].made].st = "idle"]
    /\ keptConsumer' = starter[s].made
    /\ starter' = [starter EXCEPT ![s].pc = "join"]
    /\ UNCHANGED <<isRunning, monitored, manager, eventVars, consumerFaults, crossed>>

\* subscribe and run, from the end of the topic on; the client connects a
\* consumer again that was disconnected meanwhile.
Join(s) ==
    LET c == starter[s].made
    IN /\ ~ServerEnded /\ starter[s].pc = "join" /\ consumer[c].st \in {"idle", "closed"}
       /\ consumer' = [consumer EXCEPT ![c] = [st |-> "live", next |-> appended + 1]]
       /\ starter' = [starter EXCEPT ![s].pc = "started"]
       /\ UNCHANGED <<isRunning, monitored, manager, keptConsumer, eventVars, consumerFaults,
                      crossed>>

\* A call fails, or the consumer is one that runs already: the flag is reset.
\* The server then exits; restart swallows the error.
StartFails(s) ==
    LET c == starter[s].made
    IN /\ ~ServerEnded
       /\ \/ /\ starter[s].pc = "connect" /\ ConsumerFaulty
             /\ consumer' = [consumer EXCEPT ![c].st = "closed"]
          \/ /\ starter[s].pc = "join" /\ consumer[c].st # "live" /\ ConsumerFaulty
             /\ UNCHANGED consumer
          \/ /\ starter[s].pc = "join" /\ consumer[c].st = "live"
             /\ UNCHANGED <<consumer, consumerFaults>>
       /\ isRunning' = FALSE
       /\ starter' = [starter EXCEPT ![s].pc = "failed"]
       /\ UNCHANGED <<monitored, manager, keptConsumer, eventVars, crossed>>

-----------------------------------------------------------------------------
(* The health checks.                                                      *)

Tick(k) ==
    /\ ~ServerEnded /\ monitored /\ isRunning /\ starter[k].pc = "off"
    /\ starter' = [starter EXCEPT ![k].pc = "asking"]
    /\ UNCHANGED <<isRunning, monitored, manager, consumer, keptConsumer, eventVars,
                   consumerFaults, crossed>>

Healthy(k) ==
    /\ ~ServerEnded /\ starter[k].pc = "asking" /\ ManagerUsable
    /\ starter' = [starter EXCEPT ![k].pc = "off"]
    /\ UNCHANGED <<isRunning, monitored, manager, consumer, keptConsumer, eventVars,
                   consumerFaults, crossed>>

\* Mutant: stop leaves the flag to start.
UnhealthyRunning(k) ==
    /\ ~ServerEnded /\ starter[k].pc = "asking"
    /\ IF ManagerUsable THEN ConsumerFaulty ELSE UNCHANGED consumerFaults
    /\ IF isRunning
       THEN /\ monitored' = FALSE
            /\ starter' = [starter EXCEPT ![k].pc = "stopping"]
            /\ manager' = [manager EXCEPT !.shutdown = IF @ = "no" THEN "underway" ELSE @]
       ELSE /\ starter' = [starter EXCEPT ![k].pc = "pause"]
            /\ UNCHANGED <<monitored, manager>>
    /\ crossed' = (crossed \/ Starting # {} \/ manager.shutdown # "no")
    /\ UNCHANGED <<isRunning, consumer, keptConsumer, eventVars>>

\* The brokers do not answer, or the manager is not connected or was shut
\* down.  stop resets the flag, ends the checks for good and shuts the
\* manager down, which it does once: a second call waits for the first.
Unhealthy(k) ==
    /\ ~ServerEnded /\ starter[k].pc = "asking"
    /\ IF ManagerUsable THEN ConsumerFaulty ELSE UNCHANGED consumerFaults
    /\ IF isRunning
       THEN /\ isRunning' = FALSE /\ monitored' = FALSE
            /\ starter' = [starter EXCEPT ![k].pc = "stopping"]
            /\ manager' = [manager EXCEPT !.shutdown = IF @ = "no" THEN "underway" ELSE @]
       ELSE /\ starter' = [starter EXCEPT ![k].pc = "pause"]
            /\ UNCHANGED <<isRunning, monitored, manager>>
    /\ crossed' = (crossed \/ Starting # {} \/ manager.shutdown # "no")
    /\ UNCHANGED <<consumer, keptConsumer, eventVars>>

\* Mutant: the pool forgets its consumer without disconnecting it.
ShutDownForgets ==
    /\ ~ServerEnded /\ manager.shutdown = "underway"
    /\ manager' = [link |-> IF manager.link = "up" THEN "down" ELSE manager.link,
                   shutdown |-> "done"]
    /\ keptConsumer' = 0
    /\ UNCHANGED <<isRunning, monitored, consumer, starter, eventVars, consumerFaults, crossed>>

\* performShutdown disconnects what the pool keeps.
ShutDown ==
    /\ ~ServerEnded /\ manager.shutdown = "underway"
    /\ manager' = [link |-> IF manager.link = "up" THEN "down" ELSE manager.link,
                   shutdown |-> "done"]
    /\ consumer' = [c \in ConsumerIds |-> IF c = keptConsumer
                        THEN [consumer[c] EXCEPT !.st = "closed"] ELSE consumer[c]]
    /\ keptConsumer' = 0
    /\ UNCHANGED <<isRunning, monitored, starter, eventVars, consumerFaults, crossed>>

Stopped(k) ==
    /\ ~ServerEnded /\ starter[k].pc = "stopping" /\ manager.shutdown = "done"
    /\ starter' = [starter EXCEPT ![k].pc = "pause"]
    /\ UNCHANGED <<isRunning, monitored, manager, consumer, keptConsumer, eventVars,
                   consumerFaults, crossed>>

-----------------------------------------------------------------------------
(* Kafka and the events.                                                   *)

EventAppended ==
    /\ appended < MaxEvents
    /\ appended' = appended + 1
    /\ UNCHANGED <<isRunning, monitored, manager, consumer, keptConsumer, starter, handled,
                   consumerFaults, crossed>>

\* messageHandler: whatever it meets, the event is done with.
Handle(c) ==
    LET n == consumer[c].next
    IN /\ ~ServerEnded /\ consumer[c].st = "live" /\ n <= appended
       /\ handled' = [handled EXCEPT ![n] = @ + 1]
       /\ consumer' = [consumer EXCEPT ![c].next = n + 1]
       /\ UNCHANGED <<isRunning, monitored, manager, keptConsumer, starter, appended,
                      consumerFaults, crossed>>

\* An error the client does not recover from; nothing in the service sees it.
ConsumerCrashes(c) ==
    /\ ~ServerEnded /\ consumer[c].st = "live" /\ ConsumerFaulty
    /\ consumer' = [consumer EXCEPT ![c].st = "closed"]
    /\ UNCHANGED <<isRunning, monitored, manager, keptConsumer, starter, eventVars, crossed>>

-----------------------------------------------------------------------------
\* What a start under way does next.
StartProceeds(s) == Connected(s) \/ Join(s) \/ StartFails(s)

ConsumerNext ==
    \/ ManagerConnects \/ ShutDown \/ EventAppended
    \/ \E s \in Starters : Start(s) \/ StartProceeds(s)
    \/ \E k \in Checks : Tick(k) \/ Healthy(k) \/ Unhealthy(k) \/ Stopped(k)
    \/ \E c \in ConsumerIds : Handle(c) \/ ConsumerCrashes(c)

ConsumerSpec == ConsumerInit /\ [][ConsumerNext]_consumerVars

\* The client's calls end, and the timers of the restart run down.
FairConsumer ==
    /\ WF_consumerVars(StartProceeds(Boot)) /\ WF_consumerVars(ShutDown)
    /\ \A k \in Checks : WF_consumerVars(Stopped(k) \/ Start(k) \/ StartProceeds(k))

-----------------------------------------------------------------------------
(* Unless a check stopped what another one, or the server, was starting or *)
(* had started anew, the flag tells the truth: no consumer lives behind it *)
(* except while stop disconnects it, and two never live together.  Every   *)
(* event is then passed to the clients once at most.                       *)
FlagIsTrue ==
    ~crossed =>
        /\ Cardinality(LiveConsumers) <= 1
        /\ LiveConsumers # {} => isRunning \/ manager.shutdown = "underway"
        /\ \A n \in EventIds : handled[n] <= 1

(* A restart ends with a consumer that lives, unless a start failed (which *)
(* is final, for the timer that would repeat it is gone) or restarts       *)
(* crossed: the flag may then stay set with no consumer behind it.         *)
RestartsEnd ==
    (\E k \in Checks : starter[k].pc = "pause") ~>
        crossed \/ LiveConsumers # {} \/ \E s \in Starters : starter[s].pc = "failed"
=============================================================================
