---------------------------- MODULE EventProofs ----------------------------
(***************************************************************************)
(* The events on their way to the user: what the publisher accounts for,   *)
(* what the consumer's flag says, which sockets of the websocket server    *)
(* have a client that gets its events, and what the page's feed is served. *)
(* For any number of sockets, channels, events, producers, consumers,      *)
(* health checks and faults.                                               *)
(*                                                                         *)
(* A lemma named after an action says that the action keeps the invariant, *)
(* or the part of it the lemma's name ends in.                             *)
(***************************************************************************)
EXTENDS Connections, EventPublisher, EventConsumer, LiveFeed, FiniteSetTheorems, TLAPS

------------------------------------------------------------------------------
(* Connections: who is a member of a channel                               *)

NotYetRegistered ==
    \A a \in Clients : client[a].pc \in {"none", "verify"} => a \notin connected /\ channels[a] = {}

MembershipInv == ConnectionsTypeOK /\ NotYetRegistered /\ SubscriptionsAgree

\* What the state of a client is, by its type.
LEMMA ClientIs ==
    ASSUME MembershipInv, NEW a \in Clients
    PROVE  /\ client[a].pc \in {"none", "verify", "register", "live", "over"}
           /\ client[a].pc # "none" =>
                 /\ client[a] \in [socket : Sockets, pc : {"verify", "register", "live", "over"},
                                   twins : SUBSET Clients]
                 /\ client[a].socket \in Sockets
BY DEF MembershipInv, ConnectionsTypeOK, NoClient

\* The steps of the maps that several handlers share.
LEMMA JoinedKeeps ==
    ASSUME MembershipInv, NEW a \in Clients, NEW h \in Channels, Joined(a, h), connected' = connected
    PROVE  /\ members' \in [Channels -> SUBSET Clients] /\ channels' \in [Clients -> SUBSET Channels]
           /\ SubscriptionsAgree'
           /\ \A b \in Clients : b \notin connected => channels'[b] = channels[b]
<1> USE DEF MembershipInv, ConnectionsTypeOK
<1>1. CASE a \in connected
  <2>1. /\ members' = [members EXCEPT ![h] = @ \cup {a}]
        /\ channels' = [channels EXCEPT ![a] = @ \cup {h}]
    BY <1>1 DEF Joined
  <2>2. \A k \in Channels : members'[k] = IF k = h THEN members[k] \cup {a} ELSE members[k]
    BY <2>1
  <2>3. \A b \in Clients : channels'[b] = IF b = a THEN channels[b] \cup {h} ELSE channels[b]
    BY <2>1
  <2>4. SubscriptionsAgree'
    <3> SUFFICES ASSUME NEW k \in Channels
                 PROVE  /\ members'[k] \subseteq connected
                        /\ \A b \in connected : b \in members'[k] <=> k \in channels'[b]
      BY DEF SubscriptionsAgree
    <3>1. /\ members[k] \subseteq connected
          /\ \A b \in connected : b \in members[k] <=> k \in channels[b]
      BY DEF SubscriptionsAgree
    <3>2. QED
      BY <1>1, <2>2, <2>3, <3>1, ZenonT(60)
  <2>5. members' \in [Channels -> SUBSET Clients] /\ channels' \in [Clients -> SUBSET Channels]
    BY <2>1
  <2>6. QED
    BY <1>1, <2>3, <2>4, <2>5
<1>2. CASE a \notin connected
  BY <1>2 DEF Joined, SubscriptionsAgree
<1>3. QED
  BY <1>1, <1>2

LEMMA LeftKeeps ==
    ASSUME MembershipInv, NEW a \in Clients, NEW h \in Channels, Left(a, h), connected' = connected
    PROVE  /\ members' \in [Channels -> SUBSET Clients] /\ channels' \in [Clients -> SUBSET Channels]
           /\ SubscriptionsAgree'
           /\ \A b \in Clients : b \notin connected => channels'[b] = channels[b]
<1> USE DEF MembershipInv, ConnectionsTypeOK
<1>1. \A k \in Channels : members'[k] = IF k = h THEN members[k] \ {a} ELSE members[k]
  BY DEF Left
<1>2. members' \in [Channels -> SUBSET Clients]
  BY DEF Left
<1>3. CASE a \in connected
  <2>1. channels' = [channels EXCEPT ![a] = @ \ {h}]
    BY <1>3 DEF Left
  <2>2. \A b \in Clients : channels'[b] = IF b = a THEN channels[b] \ {h} ELSE channels[b]
    BY <2>1
  <2>3. SubscriptionsAgree'
    <3> SUFFICES ASSUME NEW k \in Channels
                 PROVE  /\ members'[k] \subseteq connected
                        /\ \A b \in connected : b \in members'[k] <=> k \in channels'[b]
      BY DEF SubscriptionsAgree
    <3>1. /\ members[k] \subseteq connected
          /\ \A b \in connected : b \in members[k] <=> k \in channels[b]
      BY DEF SubscriptionsAgree
    <3>2. QED
      BY <1>1, <2>2, <3>1
  <2>4. QED
    BY <1>2, <1>3, <2>1, <2>2, <2>3
<1>4. CASE a \notin connected
  BY <1>1, <1>2, <1>4 DEF Left, SubscriptionsAgree
<1>5. QED
  BY <1>3, <1>4

LEMMA RemovedKeeps ==
    ASSUME MembershipInv, NEW gone \in SUBSET Clients, Removed(gone)
    PROVE  /\ members' \in [Channels -> SUBSET Clients] /\ channels' = channels
           /\ connected' = connected \ gone
           /\ SubscriptionsAgree'
<1> USE DEF MembershipInv, ConnectionsTypeOK
<1>1. \A k \in Channels :
         members'[k] = members[k] \ {a \in gone \cap connected : k \in channels[a]}
  BY DEF Removed
<1>2. connected' = connected \ gone /\ channels' = channels
  BY DEF Removed
<1>3. members' \in [Channels -> SUBSET Clients]
  BY DEF Removed
<1>4. SubscriptionsAgree'
  BY <1>1, <1>2 DEF SubscriptionsAgree
<1>5. QED
  BY <1>2, <1>3, <1>4

LEMMA ClosingTyped ==
    ASSUME MembershipInv, NEW s \in Sockets
    PROVE  /\ Closing(s) \in [Sockets -> {"new", "open", "closing", "closed"}]
           /\ \A t \in Sockets : Closing(s)[t] =
                 IF t = s /\ socket[t] = "open" THEN "closing" ELSE socket[t]
BY DEF MembershipInv, ConnectionsTypeOK, Closing

\* An answer to a client: its own record changes, the maps do not.
LEMMA ClientChangeKeeps ==
    ASSUME MembershipInv, NEW a \in Clients,
           NEW r \in [socket : Sockets, pc : {"verify", "register", "live", "over"},
                      twins : SUBSET Clients],
           client' = [client EXCEPT ![a] = r], UNCHANGED registry,
           r.pc = "verify" => client[a].pc \in {"none", "verify"}
    PROVE  /\ client' \in [Clients ->
                 [socket : Sockets, pc : {"verify", "register", "live", "over"},
                  twins : SUBSET Clients] \cup {NoClient}]
           /\ NotYetRegistered' /\ SubscriptionsAgree'
<1>1. \A b \in Clients : client'[b] = IF b = a THEN r ELSE client[b]
  BY DEF MembershipInv, ConnectionsTypeOK
<1>2. connected' = connected /\ members' = members /\ channels' = channels
  BY DEF registry
<1>3. NotYetRegistered'
  BY <1>1, <1>2 DEF MembershipInv, NotYetRegistered
<1>4. SubscriptionsAgree'
  BY <1>2 DEF MembershipInv, SubscriptionsAgree
<1>5. QED
  BY <1>3, <1>4 DEF MembershipInv, ConnectionsTypeOK

LEMMA MembershipInit == ConnectionsInit => MembershipInv
BY ConnectionsAssumption
   DEF ConnectionsInit, MembershipInv, ConnectionsTypeOK, NotYetRegistered, SubscriptionsAgree,
       NoClient, Clients

LEMMA MembershipNext == MembershipInv /\ [ConnectionsNext]_connectionVars => MembershipInv'
<1> SUFFICES ASSUME MembershipInv, [ConnectionsNext]_connectionVars PROVE MembershipInv'
  OBVIOUS
<1> USE ConnectionsAssumption
<1>1. ASSUME UNCHANGED connectionVars PROVE MembershipInv'
  BY <1>1 DEF MembershipInv, ConnectionsTypeOK, NotYetRegistered, SubscriptionsAgree,
              connectionVars, registry
<1>2. ASSUME NEW s \in Sockets, Connect(s) \/ RefuseMessage(s) \/ AuthTimeout(s)
      PROVE  MembershipInv'
  <2>1. socket' \in [Sockets -> {"new", "open", "closing", "closed"}]
    BY <1>2, ClosingTyped DEF Connect, RefuseMessage, AuthTimeout, MembershipInv, ConnectionsTypeOK
  <2>2. /\ pending' \subseteq Sockets
        /\ UNCHANGED <<client, registry, speaker, quiet, stale, swept, redisFaults>>
    BY <1>2 DEF Connect, RefuseMessage, AuthTimeout, NotPending, MembershipInv, ConnectionsTypeOK
  <2>3. QED
    BY <2>1, <2>2 DEF MembershipInv, ConnectionsTypeOK, NotYetRegistered, SubscriptionsAgree,
                      registry
<1>3. ASSUME NEW s \in Sockets, Authenticate(s) PROVE MembershipInv'
  <2>1. PICK a \in Clients :
           /\ client[a].pc = "none"
           /\ client' = [client EXCEPT ![a] =
                 [socket |-> s, pc |-> "verify",
                  twins |-> {b \in OfSocket(s) : StateIs(b, "verify")}]]
    BY <1>3 DEF Authenticate, StateIs
  <2>2. {b \in OfSocket(s) : StateIs(b, "verify")} \in SUBSET Clients
    BY DEF OfSocket
  <2>3. UNCHANGED <<socket, pending, registry, speaker, quiet, stale, swept, redisFaults>>
    BY <1>3 DEF Authenticate
  <2>4. UNCHANGED registry
    BY <2>3
  <2>5. QED
    BY <2>1, <2>2, <2>3, <2>4, ClientChangeKeeps DEF MembershipInv, ConnectionsTypeOK, registry
<1>4. ASSUME NEW a \in Clients, Refused(a) PROVE MembershipInv'
  <2>1. /\ client[a].pc = "verify" /\ client[a].socket \in Sockets
        /\ [client[a] EXCEPT !.pc = "over"] \in
              [socket : Sockets, pc : {"verify", "register", "live", "over"},
               twins : SUBSET Clients]
    BY <1>4, ClientIs DEF Refused, StateIs
  <2>2. /\ client' = [client EXCEPT ![a] = [client[a] EXCEPT !.pc = "over"]]
        /\ [client[a] EXCEPT !.pc = "over"].pc = "over"
    BY <1>4, <2>1 DEF Refused
  <2>3. socket' \in [Sockets -> {"new", "open", "closing", "closed"}]
    BY <1>4, <2>1, ClosingTyped DEF Refused
  <2>4. UNCHANGED <<pending, registry, speaker, quiet, stale, swept, redisFaults>>
    BY <1>4 DEF Refused
  <2>5. UNCHANGED registry
    BY <2>4
  <2>6. QED
    BY <2>1, <2>2, <2>3, <2>4, <2>5, ClientChangeKeeps
       DEF MembershipInv, ConnectionsTypeOK, registry
<1>5. ASSUME NEW a \in Clients, RegistrationFails(a) PROVE MembershipInv'
  <2>1. /\ client[a].pc = "register"
        /\ [client[a] EXCEPT !.pc = "over"] \in
              [socket : Sockets, pc : {"verify", "register", "live", "over"},
               twins : SUBSET Clients]
    BY <1>5, ClientIs DEF RegistrationFails, StateIs
  <2>2. /\ client' = [client EXCEPT ![a] = [client[a] EXCEPT !.pc = "over"]]
        /\ [client[a] EXCEPT !.pc = "over"].pc = "over"
    BY <1>5, <2>1 DEF RegistrationFails
  <2>3. UNCHANGED <<socket, pending, registry, speaker, quiet, stale, swept>>
    BY <1>5 DEF RegistrationFails
  <2>4. redisFaults' \in 0..MaxRedisFaults /\ UNCHANGED registry
    BY <1>5, <2>3 DEF RegistrationFails, MembershipInv, ConnectionsTypeOK
  <2>5. QED
    BY <2>1, <2>2, <2>3, <2>4, ClientChangeKeeps DEF MembershipInv, ConnectionsTypeOK, registry
<1>6. ASSUME NEW a \in Clients, Verified(a) PROVE MembershipInv'
  <2>1. /\ client[a].pc = "verify" /\ client[a].socket \in Sockets
        /\ [client[a] EXCEPT !.pc = "register"] \in
              [socket : Sockets, pc : {"verify", "register", "live", "over"},
               twins : SUBSET Clients]
    BY <1>6, ClientIs DEF Verified, StateIs
  <2>2. /\ client' = [client EXCEPT ![a] = [client[a] EXCEPT !.pc = "register"]]
        /\ [client[a] EXCEPT !.pc = "register"].pc = "register"
        /\ connected' = connected \cup {a} /\ pending' \subseteq Sockets
        /\ UNCHANGED <<socket, members, channels, speaker, quiet, stale, swept, redisFaults>>
    BY <1>6, <2>1 DEF Verified, NotPending, MembershipInv, ConnectionsTypeOK
  <2>3. \A b \in Clients : client'[b].pc = IF b = a THEN "register" ELSE client[b].pc
    BY <2>1, <2>2 DEF MembershipInv, ConnectionsTypeOK
  <2>4. NotYetRegistered'
    BY <2>2, <2>3 DEF MembershipInv, NotYetRegistered
  <2>5. a \notin connected /\ channels[a] = {}
    BY <2>1 DEF MembershipInv, NotYetRegistered
  <2>6. SubscriptionsAgree'
    BY <2>2, <2>5 DEF MembershipInv, SubscriptionsAgree
  <2>7. QED
    BY <2>1, <2>2, <2>4, <2>6 DEF MembershipInv, ConnectionsTypeOK
<1>7. ASSUME NEW a \in Clients, Registered(a) PROVE MembershipInv'
  <2>1. /\ client[a].pc = "register" /\ client[a].socket \in Sockets
        /\ [client[a] EXCEPT !.pc = "live"] \in
              [socket : Sockets, pc : {"verify", "register", "live", "over"},
               twins : SUBSET Clients]
    BY <1>7, ClientIs DEF Registered, StateIs
  <2>2. /\ client' = [client EXCEPT ![a] = [client[a] EXCEPT !.pc = "live"]]
        /\ speaker' = [speaker EXCEPT ![client[a].socket] = a]
        /\ Joined(a, UserRoom) /\ UserRoom \in Channels
        /\ UNCHANGED <<socket, pending, connected, quiet, stale, swept, redisFaults>>
    BY <1>7 DEF Registered
  <2>3. \A b \in Clients : client'[b].pc = IF b = a THEN "live" ELSE client[b].pc
    BY <2>1, <2>2 DEF MembershipInv, ConnectionsTypeOK
  <2>4. /\ members' \in [Channels -> SUBSET Clients] /\ channels' \in [Clients -> SUBSET Channels]
        /\ SubscriptionsAgree'
        /\ \A b \in Clients : b \notin connected => channels'[b] = channels[b]
    BY <2>2, JoinedKeeps
  <2>5. NotYetRegistered'
    BY <2>2, <2>3, <2>4 DEF MembershipInv, NotYetRegistered
  <2>6. client' \in [Clients ->
              [socket : Sockets, pc : {"verify", "register", "live", "over"},
               twins : SUBSET Clients] \cup {NoClient}]
    BY <2>1, <2>2 DEF MembershipInv, ConnectionsTypeOK
  <2>7. speaker' \in [Sockets -> 0..MaxClients]
    BY <2>1, <2>2 DEF MembershipInv, ConnectionsTypeOK, Clients
  <2>8. QED
    BY <2>2, <2>4, <2>5, <2>6, <2>7 DEF MembershipInv, ConnectionsTypeOK
<1>8. ASSUME NEW s \in Sockets, NEW h \in Channels, Subscribe(s, h) \/ Unsubscribe(s, h)
      PROVE  MembershipInv'
  <2>1. /\ speaker[s] \in Clients
        /\ Joined(speaker[s], h) \/ Left(speaker[s], h)
        /\ UNCHANGED <<socket, pending, client, connected, speaker, quiet, stale, swept,
                       redisFaults>>
    BY <1>8 DEF Subscribe, Unsubscribe, MembershipInv, ConnectionsTypeOK, Clients
  <2>2. /\ members' \in [Channels -> SUBSET Clients] /\ channels' \in [Clients -> SUBSET Channels]
        /\ SubscriptionsAgree'
        /\ \A b \in Clients : b \notin connected => channels'[b] = channels[b]
    BY <2>1, JoinedKeeps, LeftKeeps
  <2>3. NotYetRegistered'
    BY <2>1, <2>2 DEF MembershipInv, NotYetRegistered
  <2>4. QED
    BY <2>1, <2>2, <2>3 DEF MembershipInv, ConnectionsTypeOK
<1>9. ASSUME NEW s \in Sockets, Close(s) PROVE MembershipInv'
  <2>1. ClosedClients(s) \in SUBSET Clients
    BY DEF ClosedClients, OfSocket
  <2>2. /\ Removed(ClosedClients(s)) /\ pending' \subseteq Sockets
        /\ socket' = [socket EXCEPT ![s] = "closed"]
        /\ UNCHANGED <<client, speaker, quiet, stale, swept, redisFaults>>
    BY <1>9 DEF Close, NotPending, MembershipInv, ConnectionsTypeOK
  <2>3. QED
    BY <2>1, <2>2, RemovedKeeps DEF MembershipInv, ConnectionsTypeOK, NotYetRegistered
<1>10. ASSUME NEW a \in Clients, SweepOne(a) PROVE MembershipInv'
  <2>1. /\ Removed({a}) /\ stale' = stale \ {a} /\ swept' = swept \cup ({a} \cap connected)
        /\ UNCHANGED <<socket, pending, client, speaker, quiet, redisFaults>>
    BY <1>10 DEF SweepOne
  <2>2. QED
    BY <2>1, RemovedKeeps DEF MembershipInv, ConnectionsTypeOK, NotYetRegistered
<1>11. ASSUME NEW s \in Sockets, Heartbeat(s) PROVE MembershipInv'
  BY <1>11 DEF Heartbeat, MembershipInv, ConnectionsTypeOK, NotYetRegistered, SubscriptionsAgree,
               registry
<1>12. ASSUME NEW a \in Clients, TwoMinutesPass(a) PROVE MembershipInv'
  BY <1>12 DEF TwoMinutesPass, MembershipInv, ConnectionsTypeOK, NotYetRegistered,
               SubscriptionsAgree, registry
<1>13. ASSUME ListStale PROVE MembershipInv'
  BY <1>13 DEF ListStale, StaleAmong, MembershipInv, ConnectionsTypeOK, NotYetRegistered,
               SubscriptionsAgree, registry
<1>14. QED
  BY <1>1, <1>2, <1>3, <1>4, <1>5, <1>6, <1>7, <1>8, <1>9, <1>10, <1>11, <1>12, <1>13
     DEF ConnectionsNext, SocketStep, ClientStep

(* A channel has registered members only, and exactly those that list it,  *)
(* however subscribing, closing and cleaning up interleave: every action   *)
(* of connectionManager.ts updates both maps for the same clients.         *)
THEOREM ChannelsAgree == ConnectionsSpec => []SubscriptionsAgree
<1>1. MembershipInv => SubscriptionsAgree
  BY DEF MembershipInv
<1>2. QED
  BY <1>1, MembershipInit, MembershipNext, PTL DEF ConnectionsSpec

------------------------------------------------------------------------------
(* Connections: which sockets have a client that gets its events           *)

Started(a) == client[a].pc # "none"
StartedInOrder == \A a, b \in Clients : a < b /\ Started(b) => Started(a)

\* The maps keep a client until its socket closes or a cleanup removes it.
RegisteredOrSwept ==
    \A a \in Clients :
        \/ StateIs(a, "register")
        \/ StateIs(a, "live") /\ socket[client[a].socket] # "closed"
        => a \in connected \cup swept

\* None of the authentications of a pending socket has been answered yet.
PendingUnregistered ==
    \A s \in pending : \A a \in Clients :
        Started(a) /\ client[a].socket = s =>
            a \notin connected /\ client[a].pc \in {"verify", "over"}

StartedHasSocket == \A a \in Clients : Started(a) => socket[client[a].socket] # "new"

SpeakersLive ==
    \A s \in Sockets : speaker[s] # 0 =>
        client[speaker[s]].socket = s /\ StateIs(speaker[s], "live")

OpenIsServed ==
    \A s \in Sockets : socket[s] = "open" =>
        \/ s \in pending \/ speaker[s] # 0 \/ redisFaults > 0
        \/ \E a \in Clients : client[a].socket = s /\ client[a].pc \in {"verify", "register"}

\* An authentication knows the earlier ones of its socket that were not over,
\* and one that is over without a client stays so.
TwinsKnown ==
    \A a, b \in Clients :
        a < b /\ Started(a) /\ Started(b) /\ client[a].socket = client[b].socket =>
            a \in client[b].twins \/ (StateIs(a, "over") /\ a \notin connected)

ServedInv ==
    /\ StartedInOrder /\ RegisteredOrSwept /\ PendingUnregistered /\ StartedHasSocket
    /\ SpeakersLive /\ OpenIsServed /\ TwinsKnown

LEMMA ServedIsEnough ==
    ASSUME MembershipInv, ServedInv
    PROVE  SocketsAreServed
<1> USE DEF ServedInv
<1>1. ASSUME NEW s \in Sockets, socket[s] = "open"
      PROVE  /\ \/ s \in pending \/ speaker[s] # 0 \/ redisFaults > 0
                \/ \E a \in OfSocket(s) : StateIs(a, "verify") \/ StateIs(a, "register")
             /\ speaker[s] # 0 => speaker[s] \in connected \cup swept
  <2>1. \/ s \in pending \/ speaker[s] # 0 \/ redisFaults > 0
        \/ \E a \in OfSocket(s) : StateIs(a, "verify") \/ StateIs(a, "register")
    BY <1>1 DEF OpenIsServed, OfSocket, StateIs
  <2>2. ASSUME speaker[s] # 0 PROVE speaker[s] \in connected \cup swept
    <3>1. speaker[s] \in Clients
      BY <2>2, ConnectionsAssumption DEF MembershipInv, ConnectionsTypeOK, Clients
    <3>2. client[speaker[s]].socket = s /\ StateIs(speaker[s], "live")
      BY <2>2 DEF SpeakersLive
    <3>3. QED
      BY <1>1, <3>1, <3>2 DEF RegisteredOrSwept
  <2>3. QED
    BY <2>1, <2>2
<1>2. ASSUME NEW a \in Clients, NEW b \in Clients, a \in connected, b \in connected,
             a < b, client[a].socket = client[b].socket
      PROVE  a \in client[b].twins
  <2>1. Started(a) /\ Started(b)
    BY <1>2 DEF MembershipInv, NotYetRegistered, Started
  <2>2. QED
    BY <1>2, <2>1 DEF TwinsKnown
<1>3. connected \subseteq Clients
  BY DEF MembershipInv, ConnectionsTypeOK
<1>4. QED
  BY <1>1, <1>2, <1>3 DEF SocketsAreServed

LEMMA ServedInit == ConnectionsInit => ServedInv
BY DEF ConnectionsInit, ServedInv, StartedInOrder, RegisteredOrSwept, PendingUnregistered,
       StartedHasSocket, SpeakersLive, OpenIsServed, TwinsKnown, Started, StateIs, NoClient

\* A step that leaves the authentications and speakers alone.
LEMMA SameClients ==
    ASSUME MembershipInv, ServedInv, UNCHANGED <<client, speaker>>,
           connected' \subseteq connected, pending' \subseteq pending,
           connected \cup swept \subseteq connected' \cup swept',
           redisFaults' = redisFaults,
           \A s \in Sockets :
               /\ socket'[s] = "new" => socket[s] = "new"
               /\ socket[s] = "closed" => socket'[s] = "closed"
               /\ socket'[s] = "open" =>
                     socket[s] = "open" /\ (s \in pending => s \in pending')
    PROVE  ServedInv'
<1> USE DEF ServedInv
<1>1. ConnectionsTypeOK
  BY DEF MembershipInv
<1>2. StartedInOrder' /\ SpeakersLive'
  BY DEF StartedInOrder, SpeakersLive, Started, StateIs
<1>3. RegisteredOrSwept'
  BY ClientIs DEF RegisteredOrSwept, StateIs
<1>4. PendingUnregistered'
  BY DEF PendingUnregistered, Started
<1>5. StartedHasSocket'
  BY ClientIs DEF StartedHasSocket, Started
<1>6. OpenIsServed'
  BY DEF OpenIsServed
<1>7. TwinsKnown'
  BY DEF TwinsKnown, Started, StateIs
<1>8. QED
  BY <1>2, <1>3, <1>4, <1>5, <1>6, <1>7

LEMMA Before == \A a, b \in Clients : a < b => a # b
BY ConnectionsAssumption DEF Clients

LEMMA ConnectServed ==
    ASSUME MembershipInv, ServedInv, NEW s \in Sockets, Connect(s) PROVE ServedInv'
<1> USE DEF ServedInv
<1>1. /\ socket[s] = "new" /\ pending' = pending \cup {s}
      /\ \A t \in Sockets : socket'[t] = IF t = s THEN "open" ELSE socket[t]
      /\ connected' = connected
      /\ UNCHANGED <<client, speaker, swept, redisFaults>>
  BY DEF Connect, registry, MembershipInv, ConnectionsTypeOK
<1>2. \A a \in Clients : Started(a) => client[a].socket \in Sockets /\ client[a].socket # s
  BY <1>1, ClientIs DEF StartedHasSocket, Started
<1>3. StartedInOrder' /\ SpeakersLive' /\ TwinsKnown'
  BY <1>1 DEF StartedInOrder, SpeakersLive, TwinsKnown, Started, StateIs
<1>4. RegisteredOrSwept'
  BY <1>1, <1>2 DEF RegisteredOrSwept, StateIs, Started
<1>5. PendingUnregistered'
  BY <1>1, <1>2 DEF PendingUnregistered, Started
<1>6. StartedHasSocket' /\ OpenIsServed'
  BY <1>1, <1>2 DEF StartedHasSocket, OpenIsServed, Started
<1>7. QED
  BY <1>3, <1>4, <1>5, <1>6

LEMMA AuthenticateServed ==
    ASSUME MembershipInv, ServedInv, NEW s \in Sockets, Authenticate(s) PROVE ServedInv'
<1> USE DEF ServedInv
<1>1. /\ s \in pending /\ speaker[s] = 0 /\ socket[s] \in {"open", "closing"}
      /\ UNCHANGED <<socket, pending, speaker, swept, redisFaults>> /\ connected' = connected
  BY DEF Authenticate, Awaited, Hears, registry
<1> DEFINE others == {b \in OfSocket(s) : StateIs(b, "verify")}
           new == [socket |-> s, pc |-> "verify", twins |-> others]
<1>2. PICK a \in Clients :
         /\ client[a].pc = "none" /\ \A b \in 1..(a - 1) : client[b].pc # "none"
         /\ client' = [client EXCEPT ![a] = new]
  BY DEF Authenticate, StateIs
<1>3. /\ \A b \in Clients : b # a => client'[b] = client[b]
      /\ client'[a].pc = "verify" /\ client'[a].socket = s /\ client'[a].twins = others
  BY <1>2 DEF MembershipInv, ConnectionsTypeOK
<1> HIDE DEF new, others
<1>4. \A b \in Clients : b < a => Started(b)
  BY <1>2, ConnectionsAssumption DEF Started, Clients
<1>5. \A b \in Clients : a < b => ~Started(b)
  BY <1>2 DEF StartedInOrder, Started
<1>6. StartedInOrder'
  BY <1>2, <1>3, <1>4, <1>5 DEF StartedInOrder, Started
<1>7. RegisteredOrSwept'
  BY <1>1, <1>3 DEF RegisteredOrSwept, StateIs
<1>8. a \notin connected
  BY <1>2 DEF MembershipInv, NotYetRegistered
<1>9. PendingUnregistered'
  BY <1>1, <1>3, <1>8 DEF PendingUnregistered, Started
<1>10. StartedHasSocket'
  BY <1>1, <1>3 DEF StartedHasSocket, Started
<1>11. SpeakersLive'
  <2>1. \A t \in Sockets : speaker[t] # 0 => speaker[t] \in Clients /\ speaker[t] # a
    BY <1>2, ConnectionsAssumption
       DEF SpeakersLive, StateIs, MembershipInv, ConnectionsTypeOK, Clients
  <2>2. QED
    BY <1>1, <1>3, <2>1 DEF SpeakersLive, StateIs
<1>12. OpenIsServed'
  BY <1>1, <1>2, <1>3 DEF OpenIsServed
<1>13. TwinsKnown'
  <2> SUFFICES ASSUME NEW b \in Clients, NEW c \in Clients, b < c, Started(b)', Started(c)',
                      client'[b].socket = client'[c].socket
               PROVE  b \in client'[c].twins \/ (StateIs(b, "over")' /\ b \notin connected')
    BY DEF TwinsKnown
  <2>1. CASE c = a
    <3>1. b # a /\ client'[b] = client[b] /\ Started(b) /\ client[b].socket = s
      BY <1>3, <1>4, <2>1, Before
    <3>2. b \notin connected /\ client[b].pc \in {"verify", "over"}
      BY <1>1, <3>1 DEF PendingUnregistered
    <3>3. client[b].pc = "verify" => b \in others
      BY <3>1 DEF OfSocket, StateIs, others
    <3>4. QED
      BY <1>1, <1>3, <2>1, <3>1, <3>2, <3>3 DEF StateIs
  <2>2. CASE c # a
    <3>1. b # a /\ client'[b] = client[b] /\ client'[c] = client[c]
      BY <1>3, <1>5, <2>2 DEF Started
    <3>2. Started(b) /\ Started(c)
      BY <3>1 DEF Started
    <3>3. QED
      BY <1>1, <3>1, <3>2 DEF TwinsKnown, StateIs
  <2>3. QED
    BY <2>1, <2>2
<1>14. QED
  BY <1>6, <1>7, <1>9, <1>10, <1>11, <1>12, <1>13

\* An authentication or a registration that ends changes the client's pc only.
LEMMA OneClient ==
    ASSUME MembershipInv, NEW a \in Clients, client[a].pc # "none",
           NEW pc \in {"register", "live", "over"}, client' = [client EXCEPT ![a].pc = pc]
    PROVE  \A b \in Clients :
              /\ client'[b].socket = client[b].socket /\ client'[b].twins = client[b].twins
              /\ client'[b].pc = IF b = a THEN pc ELSE client[b].pc
<1>1. client[a] \in [socket : Sockets, pc : {"verify", "register", "live", "over"},
                     twins : SUBSET Clients]
  BY ClientIs
<1>2. QED
  BY <1>1 DEF MembershipInv, ConnectionsTypeOK

LEMMA RefusedServed ==
    ASSUME MembershipInv, ServedInv, NEW a \in Clients, Refused(a) PROVE ServedInv'
<1> USE DEF ServedInv
<1> DEFINE s == client[a].socket
<1>1. /\ client[a].pc = "verify" /\ s \in Sockets
      /\ client' = [client EXCEPT ![a].pc = "over"] /\ connected' = connected
      /\ UNCHANGED <<pending, speaker, swept, redisFaults>>
  BY ClientIs DEF Refused, StateIs, registry
<1>2. \A t \in Sockets : socket'[t] = IF t = s /\ socket[t] = "open" THEN "closing" ELSE socket[t]
  BY <1>1, ClosingTyped DEF Refused
<1>3. \A b \in Clients :
         /\ client'[b].socket = client[b].socket /\ client'[b].twins = client[b].twins
         /\ client'[b].pc = IF b = a THEN "over" ELSE client[b].pc
  BY <1>1, OneClient
<1>4. a \notin connected
  BY <1>1 DEF MembershipInv, NotYetRegistered
<1> HIDE DEF s
<1>5. \A b \in Clients : Started(b)' <=> Started(b)
  BY <1>1, <1>3 DEF Started
<1>6. \A b \in Clients : Started(b) => client[b].socket \in Sockets
  BY ClientIs DEF Started
<1>7. StartedInOrder'
  BY <1>5 DEF StartedInOrder
<1>8. RegisteredOrSwept'
  BY <1>1, <1>2, <1>3, <1>6 DEF RegisteredOrSwept, StateIs, Started
<1>9. PendingUnregistered'
  BY <1>1, <1>3, <1>4, <1>5 DEF PendingUnregistered
<1>10. StartedHasSocket'
  BY <1>2, <1>3, <1>5, <1>6 DEF StartedHasSocket
<1>11. SpeakersLive'
  BY <1>1, <1>3, ConnectionsAssumption
     DEF SpeakersLive, StateIs, MembershipInv, ConnectionsTypeOK, Clients
<1>12. OpenIsServed'
  BY <1>1, <1>2, <1>3 DEF OpenIsServed, s
<1>13. TwinsKnown'
  BY <1>1, <1>3, <1>4, <1>5 DEF TwinsKnown, StateIs
<1>14. QED
  BY <1>7, <1>8, <1>9, <1>10, <1>11, <1>12, <1>13

LEMMA VerifiedServed ==
    ASSUME MembershipInv, ServedInv, NEW a \in Clients, Verified(a) PROVE ServedInv'
<1> USE DEF ServedInv
<1> DEFINE s == client[a].socket
<1>1. /\ client[a].pc = "verify" /\ s \in Sockets
      /\ client' = [client EXCEPT ![a].pc = "register"] /\ connected' = connected \cup {a}
      /\ pending' = pending \ {s} /\ UNCHANGED <<socket, speaker, swept, redisFaults>>
  BY ClientIs DEF Verified, StateIs, NotPending
<1>2. \A b \in Clients :
         /\ client'[b].socket = client[b].socket /\ client'[b].twins = client[b].twins
         /\ client'[b].pc = IF b = a THEN "register" ELSE client[b].pc
  BY <1>1, OneClient
<1> HIDE DEF s
<1>3. \A b \in Clients : Started(b)' <=> Started(b)
  BY <1>1, <1>2 DEF Started
<1>4. StartedInOrder'
  BY <1>3 DEF StartedInOrder
<1>5. RegisteredOrSwept'
  BY <1>1, <1>2 DEF RegisteredOrSwept, StateIs
<1>6. PendingUnregistered'
  BY <1>1, <1>2, <1>3 DEF PendingUnregistered, s
<1>7. StartedHasSocket'
  BY <1>1, <1>2, <1>3 DEF StartedHasSocket
<1>8. SpeakersLive'
  BY <1>1, <1>2, ConnectionsAssumption
     DEF SpeakersLive, StateIs, MembershipInv, ConnectionsTypeOK, Clients
<1>9. OpenIsServed'
  BY <1>1, <1>2 DEF OpenIsServed, s
<1>10. TwinsKnown'
  BY <1>1, <1>2, <1>3 DEF TwinsKnown, StateIs
<1>11. QED
  BY <1>4, <1>5, <1>6, <1>7, <1>8, <1>9, <1>10

LEMMA RegisteredServed ==
    ASSUME MembershipInv, ServedInv, NEW a \in Clients, Registered(a) PROVE ServedInv'
<1> USE DEF ServedInv
<1> DEFINE s == client[a].socket
<1>1. /\ client[a].pc = "register" /\ s \in Sockets
      /\ client' = [client EXCEPT ![a].pc = "live"] /\ connected' = connected
      /\ \A t \in Sockets : speaker'[t] = IF t = s THEN a ELSE speaker[t]
      /\ UNCHANGED <<socket, pending, swept, redisFaults>>
  BY ClientIs DEF Registered, StateIs, MembershipInv, ConnectionsTypeOK
<1>2. \A b \in Clients :
         /\ client'[b].socket = client[b].socket /\ client'[b].twins = client[b].twins
         /\ client'[b].pc = IF b = a THEN "live" ELSE client[b].pc
  BY <1>1, OneClient
<1>3. a \in connected \cup swept
  BY <1>1 DEF RegisteredOrSwept, StateIs
<1>4. s \notin pending
  BY <1>1 DEF PendingUnregistered, Started
<1> HIDE DEF s
<1>5. \A b \in Clients : Started(b)' <=> Started(b)
  BY <1>1, <1>2 DEF Started
<1>6. StartedInOrder'
  BY <1>5 DEF StartedInOrder
<1>7. RegisteredOrSwept'
  BY <1>1, <1>2, <1>3 DEF RegisteredOrSwept, StateIs
<1>8. PendingUnregistered'
  BY <1>1, <1>2, <1>4, <1>5 DEF PendingUnregistered, s
<1>9. StartedHasSocket'
  BY <1>1, <1>2, <1>5 DEF StartedHasSocket
<1>10. SpeakersLive'
  BY <1>1, <1>2, ConnectionsAssumption
     DEF SpeakersLive, StateIs, MembershipInv, ConnectionsTypeOK, Clients, s
<1>11. OpenIsServed'
  BY <1>1, <1>2, ConnectionsAssumption DEF OpenIsServed, Clients, s
<1>12. TwinsKnown'
  BY <1>1, <1>2, <1>5 DEF TwinsKnown, StateIs
<1>13. QED
  BY <1>6, <1>7, <1>8, <1>9, <1>10, <1>11, <1>12

LEMMA RegistrationFailsServed ==
    ASSUME MembershipInv, ServedInv, NEW a \in Clients, RegistrationFails(a) PROVE ServedInv'
<1> USE DEF ServedInv
<1>1. /\ client[a].pc = "register" /\ redisFaults' = redisFaults + 1
      /\ client' = [client EXCEPT ![a].pc = "over"] /\ connected' = connected
      /\ UNCHANGED <<socket, pending, speaker, swept>>
  BY DEF RegistrationFails, StateIs, registry
<1>2. \A b \in Clients :
         /\ client'[b].socket = client[b].socket /\ client'[b].twins = client[b].twins
         /\ client'[b].pc = IF b = a THEN "over" ELSE client[b].pc
  BY <1>1, OneClient
<1>3. \A b \in Clients : Started(b)' <=> Started(b)
  BY <1>1, <1>2 DEF Started
<1>4. StartedInOrder'
  BY <1>3 DEF StartedInOrder
<1>5. RegisteredOrSwept'
  BY <1>1, <1>2 DEF RegisteredOrSwept, StateIs
<1>6. PendingUnregistered'
  BY <1>1, <1>2, <1>3 DEF PendingUnregistered
<1>7. StartedHasSocket'
  BY <1>1, <1>2, <1>3 DEF StartedHasSocket
<1>8. SpeakersLive'
  BY <1>1, <1>2, ConnectionsAssumption
     DEF SpeakersLive, StateIs, MembershipInv, ConnectionsTypeOK, Clients
<1>9. redisFaults' > 0
  BY <1>1 DEF MembershipInv, ConnectionsTypeOK
<1>10. OpenIsServed'
  BY <1>9 DEF OpenIsServed
<1>11. TwinsKnown'
  BY <1>1, <1>2, <1>3 DEF TwinsKnown, StateIs
<1>12. QED
  BY <1>4, <1>5, <1>6, <1>7, <1>8, <1>10, <1>11

LEMMA CloseServed ==
    ASSUME MembershipInv, ServedInv, NEW s \in Sockets, Close(s) PROVE ServedInv'
<1> USE DEF ServedInv
<1>1. /\ connected' = connected \ ClosedClients(s) /\ pending' = pending \ {s}
      /\ \A t \in Sockets : socket'[t] = IF t = s THEN "closed" ELSE socket[t]
      /\ UNCHANGED <<client, speaker, swept, redisFaults>>
  BY DEF Close, Removed, NotPending, MembershipInv, ConnectionsTypeOK
<1>2. \A a \in ClosedClients(s) : client[a].socket = s /\ client[a].pc = "live"
  BY DEF ClosedClients, OfSocket, StateIs
<1>3. \A a \in Clients : Started(a) => client[a].socket \in Sockets
  BY ClientIs DEF Started
<1>4. StartedInOrder' /\ SpeakersLive' /\ TwinsKnown'
  BY <1>1 DEF StartedInOrder, SpeakersLive, TwinsKnown, Started, StateIs
<1>5. RegisteredOrSwept'
  BY <1>1, <1>2, <1>3 DEF RegisteredOrSwept, StateIs, Started
<1>6. PendingUnregistered'
  BY <1>1 DEF PendingUnregistered, Started
<1>7. StartedHasSocket' /\ OpenIsServed'
  BY <1>1, <1>3 DEF StartedHasSocket, OpenIsServed, Started
<1>8. QED
  BY <1>4, <1>5, <1>6, <1>7

LEMMA ServedNext ==
    MembershipInv /\ ServedInv /\ [ConnectionsNext]_connectionVars => ServedInv'
<1> SUFFICES ASSUME MembershipInv, ServedInv, [ConnectionsNext]_connectionVars
             PROVE  ServedInv'
  OBVIOUS
<1>1. ASSUME UNCHANGED connectionVars PROVE ServedInv'
  BY <1>1, SameClients DEF connectionVars, registry
<1>2. ASSUME NEW s \in Sockets, RefuseMessage(s) \/ AuthTimeout(s) PROVE ServedInv'
  <2>1. \A t \in Sockets :
           socket'[t] = IF t = s /\ socket[t] = "open" THEN "closing" ELSE socket[t]
    BY <1>2, ClosingTyped DEF RefuseMessage, AuthTimeout
  <2>2. /\ pending' \in {pending, pending \ {s}} /\ connected' = connected
        /\ UNCHANGED <<client, speaker, swept, redisFaults>>
    BY <1>2 DEF RefuseMessage, AuthTimeout, NotPending, registry
  <2>3. QED
    BY <2>1, <2>2, SameClients
<1>3. ASSUME NEW s \in Sockets, NEW h \in Channels, Subscribe(s, h) \/ Unsubscribe(s, h)
      PROVE  ServedInv'
  <2>1. UNCHANGED <<socket, pending, client, connected, speaker, swept, redisFaults>>
    BY <1>3 DEF Subscribe, Unsubscribe
  <2>2. QED
    BY <2>1, SameClients
<1>4. ASSUME NEW s \in Sockets, Heartbeat(s) PROVE ServedInv'
  <2>1. UNCHANGED <<socket, pending, client, connected, speaker, swept, redisFaults>>
    BY <1>4 DEF Heartbeat, registry
  <2>2. QED
    BY <2>1, SameClients
<1>5. ASSUME NEW a \in Clients, TwoMinutesPass(a) PROVE ServedInv'
  <2>1. UNCHANGED <<socket, pending, client, connected, speaker, swept, redisFaults>>
    BY <1>5 DEF TwoMinutesPass, registry
  <2>2. QED
    BY <2>1, SameClients
<1>6. ASSUME ListStale PROVE ServedInv'
  <2>1. UNCHANGED <<socket, pending, client, connected, speaker, swept, redisFaults>>
    BY <1>6 DEF ListStale, registry
  <2>2. QED
    BY <2>1, SameClients
<1>7. ASSUME NEW a \in Clients, SweepOne(a) PROVE ServedInv'
  <2>1. /\ connected' = connected \ {a} /\ swept' = swept \cup ({a} \cap connected)
        /\ UNCHANGED <<socket, pending, client, speaker, redisFaults>>
    BY <1>7 DEF SweepOne, Removed
  <2>2. /\ connected' \subseteq connected
        /\ connected \cup swept \subseteq connected' \cup swept'
    BY <2>1
  <2>3. QED
    BY <2>1, <2>2, SameClients
<1>8. QED
  BY <1>1, <1>2, <1>3, <1>4, <1>5, <1>6, <1>7, ConnectServed, AuthenticateServed, RefusedServed,
     VerifiedServed, RegisteredServed, RegistrationFailsServed, CloseServed
     DEF ConnectionsNext, SocketStep, ClientStep

(* No socket is forgotten: an open one waits, is being authenticated or    *)
(* has a client that hears it unless Redis failed; one whose messages are  *)
(* answered is registered unless a cleanup removed it, and only once       *)
(* unless a second token overtook the answer to the first.                 *)
THEOREM NoSocketIsForgotten == ConnectionsSpec => []SocketsAreServed
<1>1. ConnectionsInit => MembershipInv /\ ServedInv
  BY MembershipInit, ServedInit
<1>2. MembershipInv /\ ServedInv /\ [ConnectionsNext]_connectionVars
         => (MembershipInv /\ ServedInv)'
  BY MembershipNext, ServedNext
<1>3. MembershipInv /\ ServedInv => SocketsAreServed
  BY ServedIsEnough
<1>4. QED
  BY <1>1, <1>2, <1>3, PTL DEF ConnectionsSpec

------------------------------------------------------------------------------
(* The publisher                                                           *)

Ended(q) == q.pc \in {"ok", "failed"}
Removing(makers) == \E p \in ProducerIds : makers[p] \in {"closing", "closed"}

\* The attempts of a call that have failed.
Failures(q) == IF q.dlq THEN RetryAttempts + 1 ELSE q.attempt

\* A call, and the copies of its event in the two topics: every failure was a
\* fault of Kafka unless the pool was removing a producer, and every copy but
\* the one that ended the call has lost its reply.
Accounted(q, sent, dead, faults, lost, makers) ==
    /\ q.pc = "ok" => sent > 0
    /\ q.pc = "failed" /\ dead = 0 => faults >= RetryAttempts + 2 \/ Removing(makers)
    /\ ~Ended(q) => faults >= Failures(q) \/ Removing(makers)
    /\ sent + dead <= lost + (IF Ended(q) THEN 1 ELSE 0)

\* What a call waits for is still there to answer.
UsesProducer(q, makers) ==
    /\ q.pc = "connect" => q.using \in ProducerIds /\ makers[q.using] = "connecting"
    /\ q.pc = "send" => q.using \in ProducerIds /\ makers[q.using] \in {"open", "closing", "closed"}

ProducersAreOwn ==
    \A e, f \in Events :
        e # f /\ publication[e].pc = "connect" /\ publication[f].pc = "connect" =>
            publication[e].using # publication[f].using

\* Calls that make producers one after the other leave the pool no second one.
PoolKnows ==
    /\ pooled # 0 => producer[pooled] \in {"open", "closing", "closed"}
    /\ ~createdAtOnce =>
          /\ \A e \in Connecting : pooled = 0 /\ \A f \in Connecting : e = f
          /\ \A p \in ProducerIds : producer[p] \in {"open", "closing"} => p = pooled

PublisherInv ==
    /\ PublisherTypeOK /\ ProducersAreOwn /\ PoolKnows
    /\ \A e \in Events :
          /\ UsesProducer(publication[e], producer)
          /\ Accounted(publication[e], Copies(topic, e), Copies(deadLetters, e),
                       sendFaults, lostReplies, producer)

\* Copies are counted: one more of the event appended, none of the others.
LEMMA CopiesCounted ==
    ASSUME NEW messages \in Seq(Events), NEW e \in Events
    PROVE  /\ Copies(messages, e) \in Nat
           /\ \A f \in Events : Copies(Append(messages, e), f) =
                  Copies(messages, f) + (IF f = e THEN 1 ELSE 0)
<1> DEFINE Places(m, f) == {i \in 1..Len(m) : m[i] = f}
<1>1. ASSUME NEW f \in Events PROVE IsFiniteSet(Places(messages, f))
  <2>1. IsFiniteSet(1..Len(messages))
    BY FS_Interval
  <2>2. QED
    BY <2>1, FS_Subset
<1>2. ASSUME NEW f \in Events PROVE Cardinality(Places(messages, f)) \in Nat
  BY <1>1, FS_CardinalityType
<1>3. ASSUME NEW f \in Events, f # e
      PROVE  Places(Append(messages, e), f) = Places(messages, f)
  BY <1>3
<1>4. /\ Places(Append(messages, e), e) = Places(messages, e) \cup {Len(messages) + 1}
      /\ Len(messages) + 1 \notin Places(messages, e)
  OBVIOUS
<1>5. Cardinality(Places(messages, e) \cup {Len(messages) + 1}) =
         Cardinality(Places(messages, e)) + 1
  <2> HIDE DEF Places
  <2>1. IsFiniteSet(Places(messages, e))
    BY <1>1
  <2>2. QED
    BY <1>4, <2>1, FS_AddElement
<1>6. ASSUME NEW f \in Events
      PROVE  Copies(Append(messages, e), f) = Copies(messages, f) + (IF f = e THEN 1 ELSE 0)
  <2>1. /\ Copies(Append(messages, e), f) = Cardinality(Places(Append(messages, e), f))
        /\ Copies(messages, f) = Cardinality(Places(messages, f))
    BY DEF Copies
  <2>2. CASE f = e
    BY <1>4, <1>5, <2>1, <2>2
  <2> HIDE DEF Places
  <2>3. CASE f # e
    BY <1>2, <1>3, <2>1, <2>3
  <2>4. QED
    BY <2>2, <2>3
<1>7. QED
  BY <1>2, <1>6 DEF Copies

\* What a failed attempt leaves to account for.
LEMMA FailureAccounted ==
    ASSUME NEW c \in Publication, ~Ended(c), NEW sent \in Nat, NEW dead \in Nat,
           NEW faults \in Nat, NEW lost \in Nat, NEW makers,
           Accounted(c, sent, dead, faults, lost, makers)
    PROVE  /\ AttemptFailed(c) \in Publication /\ AttemptFailed(c).pc \in {"wait", "failed"}
           /\ Accounted(AttemptFailed(c), sent, dead, faults + 1, lost, makers)
           /\ Removing(makers) => Accounted(AttemptFailed(c), sent, dead, faults, lost, makers)
           /\ Accounted(AttemptFailed(c), sent + 1, dead, faults + 1, lost + 1, makers)
           /\ Accounted(AttemptFailed(c), sent, dead + 1, faults + 1, lost + 1, makers)
<1> DEFINE n == AttemptFailed(c)
<1>1. /\ n \in Publication
      /\ IF c.dlq THEN n.pc = "failed" /\ n.dlq
         ELSE /\ n.pc = "wait"
              /\ IF c.attempt = RetryAttempts THEN n.dlq
                 ELSE n.dlq = FALSE /\ n.attempt = c.attempt + 1
  <2>1. CASE c.dlq
    BY <2>1 DEF AttemptFailed, Publication
  <2>2. CASE ~c.dlq /\ c.attempt = RetryAttempts
    BY <2>2 DEF AttemptFailed, Publication
  <2>3. CASE ~c.dlq /\ c.attempt # RetryAttempts
    <3>1. c.attempt + 1 \in 0..RetryAttempts
      BY <2>3, PublisherAssumption DEF Publication
    <3>2. n = [c EXCEPT !.pc = "wait", !.attempt = c.attempt + 1]
      BY <2>3 DEF AttemptFailed
    <3>3. QED
      BY <2>3, <3>1, <3>2 DEF Publication
  <2>4. QED
    BY <2>1, <2>2, <2>3
<1> HIDE DEF n
<1>2. QED
  <2>1. CASE c.dlq
    BY <1>1, <2>1, PublisherAssumption DEF Accounted, Failures, Ended, Publication, n
  <2>2. CASE ~c.dlq
    BY <1>1, <2>2, PublisherAssumption DEF Accounted, Failures, Ended, Publication, n
  <2>3. QED
    BY <2>1, <2>2

\* More faults, more lost replies and a removal leave the others accounted for.
LEMMA StaysAccounted ==
    ASSUME NEW q \in Publication, NEW sent \in Nat, NEW dead \in Nat,
           NEW faults \in Nat, NEW lost \in Nat, NEW more \in Nat, NEW mlost \in Nat,
           NEW makers, NEW later, Removing(makers) => Removing(later),
           faults <= more, lost <= mlost, Accounted(q, sent, dead, faults, lost, makers)
    PROVE  Accounted(q, sent, dead, more, mlost, later)
BY PublisherAssumption DEF Accounted, Failures, Ended, Publication

LEMMA PublicationIs ==
    ASSUME PublisherInv, NEW e \in Events
    PROVE  /\ publication[e] \in Publication
           /\ Copies(topic, e) \in Nat /\ Copies(deadLetters, e) \in Nat
           /\ sendFaults \in Nat /\ lostReplies \in Nat
           /\ createdAtOnce \in BOOLEAN
           /\ UsesProducer(publication[e], producer)
           /\ Accounted(publication[e], Copies(topic, e), Copies(deadLetters, e),
                        sendFaults, lostReplies, producer)
<1>1. PublisherTypeOK
  BY DEF PublisherInv
<1>2. sendFaults \in Nat /\ lostReplies \in Nat
  BY <1>1, PublisherAssumption DEF PublisherTypeOK
<1>3. QED
  BY <1>1, <1>2, CopiesCounted DEF PublisherTypeOK, PublisherInv

\* A step of the call of one event.
LEMMA OnePublication ==
    ASSUME PublisherInv, NEW e \in Events, NEW c \in Publication,
           publication' = [publication EXCEPT ![e] = c],
           sendFaults' \in 0..MaxSendFaults, lostReplies' \in 0..sendFaults',
           sendFaults <= sendFaults', lostReplies <= lostReplies',
           topic' \in Seq(Events), deadLetters' \in Seq(Events),
           \A f \in Events : f # e => /\ Copies(topic', f) = Copies(topic, f)
                                      /\ Copies(deadLetters', f) = Copies(deadLetters, f),
           \A p \in ProducerIds : producer[p] \in {"open", "closing", "closed"} =>
               producer'[p] = producer[p],
           \A f \in Events : f # e /\ publication[f].pc = "connect" =>
               producer'[publication[f].using] = "connecting",
           UsesProducer(c, producer'),
           Accounted(c, Copies(topic', e), Copies(deadLetters', e), sendFaults', lostReplies',
                     producer)
    PROVE  /\ publication' \in [Events -> Publication]
           /\ \A f \in Events :
                 /\ publication'[f] = IF f = e THEN c ELSE publication[f]
                 /\ UsesProducer(publication'[f], producer')
                 /\ Accounted(publication'[f], Copies(topic', f), Copies(deadLetters', f),
                              sendFaults', lostReplies', producer')
<1>1. publication' \in [Events -> Publication]
  BY DEF PublisherInv, PublisherTypeOK
<1>2. \A f \in Events : publication'[f] = IF f = e THEN c ELSE publication[f]
  BY DEF PublisherInv, PublisherTypeOK
<1>3. Removing(producer) => Removing(producer')
  BY DEF Removing
<1>5. sendFaults' \in Nat /\ lostReplies' \in Nat
  BY PublisherAssumption
<1>6. ASSUME NEW f \in Events
      PROVE  /\ UsesProducer(publication'[f], producer')
             /\ Accounted(publication'[f], Copies(topic', f), Copies(deadLetters', f),
                          sendFaults', lostReplies', producer')
  <2>1. CASE f = e
    <3>1. Copies(topic', f) \in Nat /\ Copies(deadLetters', f) \in Nat
      BY CopiesCounted
    <3>2. sendFaults' <= sendFaults' /\ lostReplies' <= lostReplies'
      BY <1>5
    <3>3. Accounted(c, Copies(topic', f), Copies(deadLetters', f), sendFaults', lostReplies',
                    producer')
      BY <1>3, <1>5, <2>1, <3>1, <3>2, StaysAccounted
    <3>4. QED
      BY <1>2, <2>1, <3>3
  <2>2. CASE f # e
    <3>1. publication'[f] = publication[f]
      BY <1>2, <2>2
    <3>2. Accounted(publication[f], Copies(topic, f), Copies(deadLetters, f),
                    sendFaults', lostReplies', producer')
      <4>1. /\ publication[f] \in Publication /\ sendFaults \in Nat /\ lostReplies \in Nat
            /\ Copies(topic, f) \in Nat /\ Copies(deadLetters, f) \in Nat
            /\ Accounted(publication[f], Copies(topic, f), Copies(deadLetters, f),
                         sendFaults, lostReplies, producer)
        BY PublicationIs
      <4>2. QED
        BY <1>3, <1>5, <4>1, StaysAccounted
    <3>3. UsesProducer(publication[f], producer')
      BY <2>2, PublicationIs DEF UsesProducer
    <3>4. QED
      BY <2>2, <3>1, <3>2, <3>3
  <2>3. QED
    BY <2>1, <2>2
<1>7. QED
  BY <1>1, <1>2, <1>6

LEMMA PublisherInitInv == PublisherInit => PublisherInv
<1> SUFFICES ASSUME PublisherInit PROVE PublisherInv
  OBVIOUS
<1> USE PublisherAssumption DEF PublisherInit
<1>1. PublisherTypeOK
  <2>1. [pc |-> "idle", attempt |-> 0, using |-> 0, dlq |-> FALSE] \in Publication
    BY DEF Publication
  <2>2. publication \in [Events -> Publication]
    BY <2>1
  <2>3. <<>> \in Seq(Events)
    OBVIOUS
  <2>4. /\ producer \in [ProducerIds ->
              {"none", "connecting", "open", "closing", "closed", "abandoned"}]
        /\ topic \in Seq(Events) /\ deadLetters \in Seq(Events) /\ createdAtOnce \in BOOLEAN
    BY <2>3
  <2>5. pooled \in 0..MaxProducers /\ sendFaults \in 0..MaxSendFaults /\ lostReplies \in 0..sendFaults
    OBVIOUS
  <2>6. QED
    BY <2>2, <2>4, <2>5 DEF PublisherTypeOK
<1>2. ASSUME NEW e \in Events PROVE Copies(<<>>, e) = 0
  <2>1. {i \in 1..Len(<<>>) : <<>>[i] = e} = {}
    OBVIOUS
  <2>2. QED
    BY <2>1, FS_EmptySet DEF Copies
<1>3. ProducersAreOwn /\ PoolKnows
  BY DEF ProducersAreOwn, PoolKnows, Connecting
<1>4. QED
  BY <1>1, <1>2, <1>3 DEF PublisherInv, UsesProducer, Accounted, Failures, Ended

\* A new attempt, or the dead letter, gets the pool's producer or makes one.
LEMMA ObtainInv ==
    ASSUME PublisherInv, NEW e \in Events, publication[e].pc \in {"idle", "wait"},
           Obtain(e, publication[e]), UNCHANGED <<pooled, kafkaVars>>
    PROVE  PublisherInv'
<1> DEFINE c == publication[e]
<1>1. PublisherTypeOK /\ ProducersAreOwn /\ PoolKnows
  BY DEF PublisherInv
<1>2. /\ c \in Publication
      /\ Accounted(c, Copies(topic, e), Copies(deadLetters, e), sendFaults, lostReplies, producer)
      /\ sendFaults \in Nat /\ lostReplies \in Nat /\ createdAtOnce \in BOOLEAN
  BY PublicationIs
<1>3. UNCHANGED <<pooled, topic, deadLetters, sendFaults, lostReplies>>
  BY DEF kafkaVars
<1> HIDE DEF c
<1>4. CASE pooled # 0 /\ publication' = [publication EXCEPT
                              ![e] = [c EXCEPT !.pc = "send", !.using = pooled]]
              /\ UNCHANGED <<producer, createdAtOnce>>
  <2> DEFINE n == [c EXCEPT !.pc = "send", !.using = pooled]
  <2>1. /\ n \in Publication /\ n.pc = "send" /\ n.using = pooled /\ pooled \in ProducerIds
        /\ n.attempt = c.attempt /\ n.dlq = c.dlq
    <3>1. pooled \in 0..MaxProducers /\ pooled \in ProducerIds
      BY <1>1, <1>4, PublisherAssumption DEF PublisherTypeOK, ProducerIds
    <3>2. QED
      BY <1>2, <3>1 DEF Publication
  <2>2. publication' = [publication EXCEPT ![e] = n]
    BY <1>4
  <2> HIDE DEF n
  <2>3. UsesProducer(n, producer')
    BY <1>1, <1>4, <2>1 DEF UsesProducer, PoolKnows
  <2>4. Accounted(n, Copies(topic, e), Copies(deadLetters, e), sendFaults, lostReplies, producer)
    BY <1>2, <2>1 DEF Accounted, Failures, Ended, c
  <2>5. /\ publication' \in [Events -> Publication]
        /\ \A f \in Events :
              /\ publication'[f] = IF f = e THEN n ELSE publication[f]
              /\ UsesProducer(publication'[f], producer')
              /\ Accounted(publication'[f], Copies(topic', f), Copies(deadLetters', f),
                           sendFaults', lostReplies', producer')
    <3>1. \A f \in Events : publication[f].pc = "connect" =>
             producer'[publication[f].using] = "connecting"
      BY <1>4, PublicationIs DEF UsesProducer
    <3>2. /\ sendFaults <= sendFaults' /\ lostReplies <= lostReplies'
          /\ sendFaults' \in 0..MaxSendFaults /\ lostReplies' \in 0..sendFaults'
          /\ topic' \in Seq(Events) /\ deadLetters' \in Seq(Events)
      BY <1>1, <1>2, <1>3 DEF PublisherTypeOK
    <3>3. /\ \A f \in Events : f # e => /\ Copies(topic', f) = Copies(topic, f)
                                        /\ Copies(deadLetters', f) = Copies(deadLetters, f)
          /\ Accounted(n, Copies(topic', e), Copies(deadLetters', e), sendFaults', lostReplies',
                       producer)
      BY <1>3, <2>4
    <3>4. \A p \in ProducerIds : producer'[p] = producer[p]
      BY <1>4
    <3>5. QED
      BY <2>1, <2>2, <2>3, <3>1, <3>2, <3>3, <3>4, OnePublication
  <2>6. Connecting' = Connecting
    BY <2>1, <2>5 DEF Connecting, c
  <2>7. ProducersAreOwn' /\ PoolKnows'
    BY <1>1, <1>3, <1>4, <2>1, <2>5, <2>6 DEF ProducersAreOwn, PoolKnows
  <2>8. PublisherTypeOK'
    BY <1>1, <1>3, <1>4, <2>5 DEF PublisherTypeOK
  <2>9. QED
    BY <2>5, <2>7, <2>8 DEF PublisherInv
<1>5. ASSUME pooled = 0, NEW p \in ProducerIds, producer[p] = "none",
             producer' = [producer EXCEPT ![p] = "connecting"],
             publication' = [publication EXCEPT ![e] = [c EXCEPT !.pc = "connect", !.using = p]],
             createdAtOnce' = (createdAtOnce \/ Connecting # {})
      PROVE  PublisherInv'
  <2> DEFINE n == [c EXCEPT !.pc = "connect", !.using = p]
  <2>1. /\ n \in Publication /\ n.pc = "connect" /\ n.using = p
        /\ n.attempt = c.attempt /\ n.dlq = c.dlq
    <3>1. p \in 0..MaxProducers
      BY PublisherAssumption DEF ProducerIds
    <3>2. QED
      BY <1>2, <3>1 DEF Publication
  <2>2. publication' = [publication EXCEPT ![e] = n]
    BY <1>5
  <2> HIDE DEF n
  <2>3. \A q \in ProducerIds : producer'[q] = IF q = p THEN "connecting" ELSE producer[q]
    BY <1>1, <1>5 DEF PublisherTypeOK
  <2>4. UsesProducer(n, producer')
    BY <2>1, <2>3 DEF UsesProducer
  <2>5. Accounted(n, Copies(topic, e), Copies(deadLetters, e), sendFaults, lostReplies, producer)
    BY <1>2, <2>1 DEF Accounted, Failures, Ended, c
  <2>6. \A f \in Events : publication[f].pc = "connect" =>
           /\ publication[f].using \in ProducerIds /\ publication[f].using # p
           /\ producer'[publication[f].using] = "connecting"
    BY <1>5, <2>3, PublicationIs DEF UsesProducer
  <2>7. /\ publication' \in [Events -> Publication]
        /\ \A f \in Events :
              /\ publication'[f] = IF f = e THEN n ELSE publication[f]
              /\ UsesProducer(publication'[f], producer')
              /\ Accounted(publication'[f], Copies(topic', f), Copies(deadLetters', f),
                           sendFaults', lostReplies', producer')
    <3>1. /\ sendFaults <= sendFaults' /\ lostReplies <= lostReplies'
          /\ sendFaults' \in 0..MaxSendFaults /\ lostReplies' \in 0..sendFaults'
          /\ topic' \in Seq(Events) /\ deadLetters' \in Seq(Events)
      BY <1>1, <1>2, <1>3 DEF PublisherTypeOK
    <3>2. /\ \A f \in Events : f # e => /\ Copies(topic', f) = Copies(topic, f)
                                        /\ Copies(deadLetters', f) = Copies(deadLetters, f)
          /\ Accounted(n, Copies(topic', e), Copies(deadLetters', e), sendFaults', lostReplies',
                       producer)
      BY <1>3, <2>5
    <3>3. \A q \in ProducerIds : producer[q] \in {"open", "closing", "closed"} =>
             producer'[q] = producer[q]
      BY <1>5, <2>3
    <3>4. QED
      BY <2>1, <2>2, <2>4, <2>6, <3>1, <3>2, <3>3, OnePublication
  <2>8. Connecting' = Connecting \cup {e}
    BY <2>1, <2>7 DEF Connecting
  <2>9. ProducersAreOwn'
    BY <1>1, <2>1, <2>6, <2>7 DEF ProducersAreOwn
  <2>10. PoolKnows'
    <3>1. pooled' = 0
      BY <1>3, <1>5
    <3>2. ASSUME ~createdAtOnce'
          PROVE  /\ \A f \in Connecting' : \A g \in Connecting' : f = g
                 /\ \A q \in ProducerIds : producer'[q] \notin {"open", "closing"}
      <4>1. ~createdAtOnce /\ Connecting = {}
        BY <1>5, <3>2
      <4>2. \A q \in ProducerIds : producer[q] \in {"open", "closing"} => q = pooled
        BY <1>1, <4>1 DEF PoolKnows
      <4>3. \A q \in ProducerIds : producer'[q] \notin {"open", "closing"}
        BY <1>5, <2>3, <4>2, PublisherAssumption DEF ProducerIds
      <4>4. QED
        BY <2>8, <4>1, <4>3
    <3>3. QED
      BY <3>1, <3>2 DEF PoolKnows
  <2>11. PublisherTypeOK'
    BY <1>1, <1>2, <1>3, <1>5, <2>7 DEF PublisherTypeOK
  <2>12. QED
    BY <2>7, <2>9, <2>10, <2>11 DEF PublisherInv
<1>6. Obtain(e, c)
  BY DEF c
<1>7. ASSUME NEW p \in UnusedProducers PROVE p \in ProducerIds /\ producer[p] = "none"
  BY DEF UnusedProducers
<1>8. QED
  BY <1>4, <1>5, <1>6, <1>7, ZenonT(60) DEF Obtain

\* The calls that leave createdAtOnce, and mostly the pool, as they are.
LEMMA OneCallInv ==
    ASSUME PublisherInv, NEW e \in Events, NEW c \in Publication, c.pc # "connect",
           publication' = [publication EXCEPT ![e] = c],
           sendFaults' \in 0..MaxSendFaults, lostReplies' \in 0..sendFaults',
           sendFaults <= sendFaults', lostReplies <= lostReplies',
           topic' \in Seq(Events), deadLetters' \in Seq(Events),
           \A f \in Events : f # e => /\ Copies(topic', f) = Copies(topic, f)
                                      /\ Copies(deadLetters', f) = Copies(deadLetters, f),
           producer' \in [ProducerIds ->
                {"none", "connecting", "open", "closing", "closed", "abandoned"}],
           pooled' \in 0..MaxProducers,
           \A p \in ProducerIds : producer[p] \in {"open", "closing", "closed"} =>
               producer'[p] = producer[p],
           \A f \in Events : f # e /\ publication[f].pc = "connect" =>
               producer'[publication[f].using] = "connecting",
           UsesProducer(c, producer'),
           Accounted(c, Copies(topic', e), Copies(deadLetters', e), sendFaults', lostReplies',
                     producer),
           createdAtOnce' = createdAtOnce, PoolKnows'
    PROVE  PublisherInv'
<1>1. /\ publication' \in [Events -> Publication]
      /\ \A f \in Events :
            /\ publication'[f] = IF f = e THEN c ELSE publication[f]
            /\ UsesProducer(publication'[f], producer')
            /\ Accounted(publication'[f], Copies(topic', f), Copies(deadLetters', f),
                         sendFaults', lostReplies', producer')
  BY OnePublication
<1>2. ProducersAreOwn'
  BY <1>1 DEF PublisherInv, ProducersAreOwn
<1>3. createdAtOnce' \in BOOLEAN
  BY PublicationIs
<1>4. PublisherTypeOK'
  BY <1>1, <1>3 DEF PublisherTypeOK
<1>5. QED
  BY <1>1, <1>2, <1>4 DEF PublisherInv

LEMMA ConnectedProducerInv ==
    ASSUME PublisherInv, NEW e \in Events, ConnectedProducer(e) PROVE PublisherInv'
<1> DEFINE p == publication[e].using
           c == [publication[e] EXCEPT !.pc = "send"]
<1>1. PublisherTypeOK /\ ProducersAreOwn /\ PoolKnows
  BY DEF PublisherInv
<1>2. /\ publication[e] \in Publication /\ publication[e].pc = "connect"
      /\ p \in ProducerIds /\ producer[p] = "connecting"
      /\ sendFaults \in Nat /\ lostReplies \in Nat
      /\ Accounted(publication[e], Copies(topic, e), Copies(deadLetters, e), sendFaults,
                   lostReplies, producer)
  BY PublicationIs DEF ConnectedProducer, UsesProducer
<1>3. /\ producer' = [producer EXCEPT ![p] = "open"] /\ pooled' = p
      /\ publication' = [publication EXCEPT ![e] = c]
      /\ UNCHANGED <<topic, deadLetters, sendFaults, lostReplies, createdAtOnce>>
  BY DEF ConnectedProducer, kafkaVars
<1>4. /\ c \in Publication /\ c.pc = "send" /\ c.using = p
      /\ c.attempt = publication[e].attempt /\ c.dlq = publication[e].dlq
  BY <1>2 DEF Publication
<1>5. \A f \in Events : f # e /\ publication[f].pc = "connect" =>
         publication[f].using \in ProducerIds /\ publication[f].using # p
  BY <1>1, <1>2, PublicationIs DEF ProducersAreOwn, UsesProducer
<1> HIDE DEF p, c
<1>6. /\ producer' \in [ProducerIds ->
            {"none", "connecting", "open", "closing", "closed", "abandoned"}]
      /\ \A q \in ProducerIds : producer'[q] = IF q = p THEN "open" ELSE producer[q]
  BY <1>1, <1>3 DEF PublisherTypeOK
<1>7. \A f \in Events : f # e /\ publication[f].pc = "connect" =>
         producer'[publication[f].using] = "connecting"
  BY <1>5, <1>6, PublicationIs DEF UsesProducer
<1>8. /\ UsesProducer(c, producer')
      /\ Accounted(c, Copies(topic', e), Copies(deadLetters', e), sendFaults', lostReplies', producer)
  <2>1. UsesProducer(c, producer')
    BY <1>2, <1>4, <1>6 DEF UsesProducer
  <2>2. Accounted(c, Copies(topic, e), Copies(deadLetters, e), sendFaults, lostReplies, producer)
    BY <1>2, <1>4 DEF Accounted, Failures, Ended
  <2>3. QED
    BY <1>3, <2>1, <2>2
<1>9. Connecting' = Connecting \ {e} /\ e \in Connecting
  BY <1>1, <1>2, <1>3, <1>4 DEF Connecting, PublisherTypeOK
<1>10. PoolKnows'
  <2>1. pooled' # 0 => producer'[pooled'] \in {"open", "closing", "closed"}
    BY <1>2, <1>3, <1>6
  <2>2. ASSUME ~createdAtOnce'
        PROVE  /\ \A f \in Connecting' : pooled' = 0 /\ \A g \in Connecting' : f = g
               /\ \A q \in ProducerIds : producer'[q] \in {"open", "closing"} => q = pooled'
    <3>1. ~createdAtOnce
      BY <1>3, <2>2
    <3>2. pooled = 0 /\ \A f \in Connecting : e = f
      BY <1>1, <1>9, <3>1 DEF PoolKnows
    <3>3. \A q \in ProducerIds : producer[q] \notin {"open", "closing"}
      BY <1>1, <3>1, <3>2, PublisherAssumption DEF PoolKnows, ProducerIds
    <3>4. QED
      BY <1>3, <1>6, <1>9, <3>2, <3>3
  <2>3. QED
    BY <2>1, <2>2 DEF PoolKnows
<1>11. /\ sendFaults' \in 0..MaxSendFaults /\ lostReplies' \in 0..sendFaults'
       /\ sendFaults <= sendFaults' /\ lostReplies <= lostReplies'
       /\ topic' \in Seq(Events) /\ deadLetters' \in Seq(Events)
       /\ createdAtOnce' = createdAtOnce
  BY <1>1, <1>2, <1>3 DEF PublisherTypeOK
<1>12. pooled' \in 0..MaxProducers
  BY <1>2, <1>3, PublisherAssumption DEF ProducerIds
<1>13. \A q \in ProducerIds : producer[q] \in {"open", "closing", "closed"} =>
          producer'[q] = producer[q]
  BY <1>2, <1>6
<1>14. \A f \in Events : f # e => /\ Copies(topic', f) = Copies(topic, f)
                                  /\ Copies(deadLetters', f) = Copies(deadLetters, f)
  BY <1>3
<1>15. QED
  BY <1>3, <1>4, <1>6, <1>7, <1>8, <1>10, <1>11, <1>12, <1>13, <1>14, OneCallInv

\* A call that stays within Kafka leaves the pool what it was.
LEMMA PoolSame ==
    ASSUME PublisherInv, NEW e \in Events, NEW c \in Publication, c.pc # "connect",
           publication' = [publication EXCEPT ![e] = c], pooled' = pooled,
           createdAtOnce' = createdAtOnce, NEW p \in ProducerIds,
           producer' = producer \/ producer' = [producer EXCEPT ![p] = "abandoned"],
           producer[p] = "connecting" \/ producer' = producer
    PROVE  /\ PoolKnows'
           /\ producer' \in [ProducerIds ->
                 {"none", "connecting", "open", "closing", "closed", "abandoned"}]
           /\ pooled' \in 0..MaxProducers
           /\ \A q \in ProducerIds :
                 producer'[q] = producer[q] \/ (q = p /\ producer[q] = "connecting"
                                                     /\ producer'[q] = "abandoned")
<1>1. PublisherTypeOK /\ PoolKnows
  BY DEF PublisherInv
<1>2. /\ producer' \in [ProducerIds ->
            {"none", "connecting", "open", "closing", "closed", "abandoned"}]
      /\ \A q \in ProducerIds :
            producer'[q] = producer[q] \/ (q = p /\ producer[q] = "connecting"
                                                /\ producer'[q] = "abandoned")
  BY <1>1 DEF PublisherTypeOK
<1>3. Connecting' \subseteq Connecting
  BY <1>1 DEF Connecting, PublisherTypeOK
<1>4. pooled' # 0 => producer'[pooled'] \in {"open", "closing", "closed"}
  BY <1>1, <1>2, PublisherAssumption DEF PoolKnows, PublisherTypeOK, ProducerIds
<1>5. ASSUME ~createdAtOnce'
      PROVE  /\ \A f \in Connecting' : pooled' = 0 /\ \A g \in Connecting' : f = g
             /\ \A q \in ProducerIds : producer'[q] \in {"open", "closing"} => q = pooled'
  <2>1. ~createdAtOnce
    BY <1>5
  <2>2. QED
    BY <1>1, <1>2, <1>3, <2>1 DEF PoolKnows
<1>6. QED
  BY <1>1, <1>2, <1>4, <1>5 DEF PoolKnows, PublisherTypeOK

LEMMA ConnectFailsInv ==
    ASSUME PublisherInv, NEW e \in Events, ConnectFails(e) PROVE PublisherInv'
<1> DEFINE p == publication[e].using
           c == AttemptFailed(publication[e])
<1>1. PublisherTypeOK /\ ProducersAreOwn
  BY DEF PublisherInv
<1>2. /\ publication[e] \in Publication /\ publication[e].pc = "connect"
      /\ p \in ProducerIds /\ producer[p] = "connecting"
      /\ sendFaults \in Nat /\ lostReplies \in Nat
      /\ Copies(topic, e) \in Nat /\ Copies(deadLetters, e) \in Nat
      /\ Accounted(publication[e], Copies(topic, e), Copies(deadLetters, e), sendFaults,
                   lostReplies, producer)
  BY PublicationIs DEF ConnectFails, UsesProducer
<1>3. /\ producer' = [producer EXCEPT ![p] = "abandoned"]
      /\ publication' = [publication EXCEPT ![e] = c]
      /\ sendFaults < MaxSendFaults /\ sendFaults' = sendFaults + 1
      /\ UNCHANGED <<pooled, topic, deadLetters, lostReplies, createdAtOnce>>
  <2>1. publication' = [publication EXCEPT ![e] = AttemptFailed(@)]
    BY DEF ConnectFails
  <2>2. publication' = [publication EXCEPT ![e] = c]
    BY <2>1
  <2>3. QED
    BY <2>2 DEF ConnectFails, Faulty
<1>4. /\ c \in Publication /\ c.pc \in {"wait", "failed"}
      /\ Accounted(c, Copies(topic, e), Copies(deadLetters, e), sendFaults + 1, lostReplies, producer)
  <2>1. ~Ended(publication[e])
    BY <1>2 DEF Ended
  <2>2. QED
    BY <1>2, <2>1, FailureAccounted
<1>5. \A f \in Events : f # e /\ publication[f].pc = "connect" =>
         publication[f].using \in ProducerIds /\ publication[f].using # p
  BY <1>1, <1>2, PublicationIs DEF ProducersAreOwn, UsesProducer
<1> HIDE DEF p, c
<1>6. /\ PoolKnows'
      /\ producer' \in [ProducerIds ->
            {"none", "connecting", "open", "closing", "closed", "abandoned"}]
      /\ pooled' \in 0..MaxProducers
      /\ \A q \in ProducerIds : q # p => producer'[q] = producer[q]
      /\ \A q \in ProducerIds : producer[q] \in {"open", "closing", "closed"} =>
            producer'[q] = producer[q]
  <2>1. c.pc # "connect"
    BY <1>4
  <2>2. /\ PoolKnows'
        /\ producer' \in [ProducerIds ->
              {"none", "connecting", "open", "closing", "closed", "abandoned"}]
        /\ pooled' \in 0..MaxProducers
        /\ \A q \in ProducerIds :
              producer'[q] = producer[q] \/ (q = p /\ producer[q] = "connecting"
                                                  /\ producer'[q] = "abandoned")
    BY <1>2, <1>3, <1>4, <2>1, PoolSame
  <2>3. QED
    BY <2>2
<1>7. \A f \in Events : f # e /\ publication[f].pc = "connect" =>
         producer'[publication[f].using] = "connecting"
  BY <1>5, <1>6, PublicationIs DEF UsesProducer
<1>8. UsesProducer(c, producer') /\ c.pc # "connect"
  BY <1>4 DEF UsesProducer
<1>9. /\ sendFaults' \in 0..MaxSendFaults /\ lostReplies' \in 0..sendFaults'
      /\ sendFaults <= sendFaults' /\ lostReplies <= lostReplies'
      /\ topic' \in Seq(Events) /\ deadLetters' \in Seq(Events)
      /\ createdAtOnce' = createdAtOnce
  BY <1>1, <1>2, <1>3, PublisherAssumption DEF PublisherTypeOK
<1>10. /\ \A f \in Events : f # e => /\ Copies(topic', f) = Copies(topic, f)
                                      /\ Copies(deadLetters', f) = Copies(deadLetters, f)
       /\ Accounted(c, Copies(topic', e), Copies(deadLetters', e), sendFaults', lostReplies',
                    producer)
  BY <1>3, <1>4
<1>11. QED
  BY <1>3, <1>4, <1>6, <1>7, <1>8, <1>9, <1>10, OneCallInv

\* A call that is at Kafka: what it leads to, the producers as they were.
LEMMA SendInv ==
    ASSUME PublisherInv, NEW e \in Events, NEW c \in Publication, publication[e].pc = "send",
           c.pc \notin {"connect", "send"}, publication' = [publication EXCEPT ![e] = c],
           \/ sendFaults' = sendFaults /\ lostReplies' = lostReplies
           \/ /\ sendFaults < MaxSendFaults /\ sendFaults' = sendFaults + 1
              /\ lostReplies' \in {lostReplies, lostReplies + 1},
           topic' \in Seq(Events), deadLetters' \in Seq(Events),
           \A f \in Events : f # e => /\ Copies(topic', f) = Copies(topic, f)
                                      /\ Copies(deadLetters', f) = Copies(deadLetters, f),
           Accounted(c, Copies(topic', e), Copies(deadLetters', e), sendFaults', lostReplies',
                     producer),
           UNCHANGED <<producer, pooled, createdAtOnce>>
    PROVE  PublisherInv'
<1> DEFINE p == publication[e].using
<1>1. p \in ProducerIds
  BY PublicationIs DEF UsesProducer
<1> HIDE DEF p
<1>2. c.pc # "connect" /\ UsesProducer(c, producer')
  BY DEF UsesProducer
<1>3. /\ PoolKnows'
      /\ producer' \in [ProducerIds ->
            {"none", "connecting", "open", "closing", "closed", "abandoned"}]
      /\ pooled' \in 0..MaxProducers
  BY <1>1, <1>2, PoolSame
<1>4. /\ sendFaults' \in 0..MaxSendFaults /\ lostReplies' \in 0..sendFaults'
      /\ sendFaults <= sendFaults' /\ lostReplies <= lostReplies'
  BY PublisherAssumption DEF PublisherInv, PublisherTypeOK
<1>5. /\ \A q \in ProducerIds : producer'[q] = producer[q]
      /\ \A f \in Events : f # e /\ publication[f].pc = "connect" =>
            producer'[publication[f].using] = "connecting"
  BY PublicationIs DEF UsesProducer
<1>6. QED
  BY <1>2, <1>3, <1>4, <1>5, OneCallInv

LEMMA SendFailsInv ==
    ASSUME PublisherInv, NEW e \in Events, SendFails(e) PROVE PublisherInv'
<1> DEFINE c == AttemptFailed(publication[e])
<1>1. PublisherTypeOK
  BY DEF PublisherInv
<1>2. /\ publication[e] \in Publication /\ publication[e].pc = "send"
      /\ publication[e].using \in ProducerIds
      /\ producer[publication[e].using] \in {"open", "closing", "closed"}
      /\ sendFaults \in Nat /\ lostReplies \in Nat
      /\ Copies(topic, e) \in Nat /\ Copies(deadLetters, e) \in Nat
      /\ Accounted(publication[e], Copies(topic, e), Copies(deadLetters, e), sendFaults,
                   lostReplies, producer)
  BY PublicationIs DEF SendFails, UsesProducer
<1>3. publication' = [publication EXCEPT ![e] = c]
  <2>1. publication' = [publication EXCEPT ![e] = AttemptFailed(@)]
    BY DEF SendFails
  <2>2. QED
    BY <2>1
<1>4. UNCHANGED <<producer, pooled, topic, deadLetters, lostReplies, createdAtOnce>>
  BY DEF SendFails
<1>5. /\ c \in Publication /\ c.pc \in {"wait", "failed"}
      /\ Accounted(c, Copies(topic, e), Copies(deadLetters, e), sendFaults + 1, lostReplies, producer)
      /\ Removing(producer) =>
            Accounted(c, Copies(topic, e), Copies(deadLetters, e), sendFaults, lostReplies, producer)
  <2>1. ~Ended(publication[e])
    BY <1>2 DEF Ended
  <2>2. QED
    BY <1>2, <2>1, FailureAccounted
<1> HIDE DEF c
<1>6. \/ /\ sendFaults < MaxSendFaults /\ sendFaults' = sendFaults + 1
         /\ lostReplies' = lostReplies
      \/ Removing(producer) /\ sendFaults' = sendFaults /\ lostReplies' = lostReplies
  <2>1. CASE producer[publication[e].using] = "open"
    BY <1>4, <2>1 DEF SendFails, Faulty
  <2>2. CASE producer[publication[e].using] # "open"
    BY <1>2, <1>4, <2>2 DEF SendFails, Removing
  <2>3. QED
    BY <2>1, <2>2
<1>7. Accounted(c, Copies(topic', e), Copies(deadLetters', e), sendFaults', lostReplies', producer)
  BY <1>4, <1>5, <1>6
<1>8. /\ topic' \in Seq(Events) /\ deadLetters' \in Seq(Events)
      /\ \A f \in Events : /\ Copies(topic', f) = Copies(topic, f)
                           /\ Copies(deadLetters', f) = Copies(deadLetters, f)
  BY <1>1, <1>4 DEF PublisherTypeOK
<1>9. c.pc \notin {"connect", "send"}
  BY <1>5
<1>10. \/ sendFaults' = sendFaults /\ lostReplies' = lostReplies
       \/ /\ sendFaults < MaxSendFaults /\ sendFaults' = sendFaults + 1
          /\ lostReplies' \in {lostReplies, lostReplies + 1}
  BY <1>6
<1>11. UNCHANGED <<producer, pooled, createdAtOnce>>
  BY <1>4
<1>12. QED
  BY <1>2, <1>3, <1>5, <1>7, <1>8, <1>9, <1>10, <1>11, SendInv

LEMMA SendTakesEffectInv ==
    ASSUME PublisherInv, NEW e \in Events, SendTakesEffect(e) PROVE PublisherInv'
<1> DEFINE q == publication[e]
           sent == Copies(topic, e)
           dead == Copies(deadLetters, e)
<1>1. PublisherTypeOK
  BY DEF PublisherInv
<1>2. /\ q \in Publication /\ q.pc = "send"
      /\ sendFaults \in Nat /\ lostReplies \in Nat /\ sent \in Nat /\ dead \in Nat
      /\ Accounted(q, sent, dead, sendFaults, lostReplies, producer)
  BY PublicationIs DEF SendTakesEffect
<1>3. UNCHANGED <<producer, pooled, createdAtOnce>>
  BY DEF SendTakesEffect
<1>4. /\ topic' \in Seq(Events) /\ deadLetters' \in Seq(Events)
      /\ \A f \in Events : f # e => /\ Copies(topic', f) = Copies(topic, f)
                                    /\ Copies(deadLetters', f) = Copies(deadLetters, f)
      /\ IF q.dlq THEN Copies(topic', e) = sent /\ Copies(deadLetters', e) = dead + 1
         ELSE Copies(topic', e) = sent + 1 /\ Copies(deadLetters', e) = dead
  <2>1. CASE q.dlq
    <3>1. deadLetters' = Append(deadLetters, e) /\ topic' = topic
      BY <2>1 DEF SendTakesEffect
    <3>2. \A f \in Events : Copies(Append(deadLetters, e), f) =
             Copies(deadLetters, f) + (IF f = e THEN 1 ELSE 0)
      BY <1>1, CopiesCounted DEF PublisherTypeOK
    <3>3. \A f \in Events : Copies(deadLetters, f) \in Nat
      BY <1>1, CopiesCounted DEF PublisherTypeOK
    <3>4. topic' \in Seq(Events) /\ deadLetters' \in Seq(Events)
      BY <1>1, <3>1 DEF PublisherTypeOK
    <3>5. QED
      BY <2>1, <3>1, <3>2, <3>3, <3>4
  <2>2. CASE ~q.dlq
    <3>1. topic' = Append(topic, e) /\ deadLetters' = deadLetters
      BY <2>2 DEF SendTakesEffect
    <3>2. \A f \in Events : Copies(Append(topic, e), f) =
             Copies(topic, f) + (IF f = e THEN 1 ELSE 0)
      BY <1>1, CopiesCounted DEF PublisherTypeOK
    <3>3. \A f \in Events : Copies(topic, f) \in Nat
      BY <1>1, CopiesCounted DEF PublisherTypeOK
    <3>4. topic' \in Seq(Events) /\ deadLetters' \in Seq(Events)
      BY <1>1, <3>1 DEF PublisherTypeOK
    <3>5. QED
      BY <2>2, <3>1, <3>2, <3>3, <3>4
  <2>3. QED
    BY <2>1, <2>2
<1>5. ASSUME publication' = [publication EXCEPT ![e] =
                 [q EXCEPT !.pc = IF q.dlq THEN "failed" ELSE "ok"]],
             UNCHANGED <<sendFaults, lostReplies>>
      PROVE  PublisherInv'
  <2> DEFINE c == [q EXCEPT !.pc = IF q.dlq THEN "failed" ELSE "ok"]
  <2>1. /\ c \in Publication /\ c.pc = (IF q.dlq THEN "failed" ELSE "ok")
        /\ c.pc \notin {"connect", "send"}
    BY <1>2 DEF Publication
  <2>2. publication' = [publication EXCEPT ![e] = c]
    BY <1>5
  <2> HIDE DEF c
  <2>3. Accounted(c, Copies(topic', e), Copies(deadLetters', e), sendFaults, lostReplies, producer)
    <3> HIDE DEF sent, dead
    <3>1. sent + dead <= lostReplies
      BY <1>2 DEF Accounted, Ended
    <3>2. CASE q.dlq
      BY <1>2, <1>4, <2>1, <3>1, <3>2 DEF Accounted, Ended
    <3>3. CASE ~q.dlq
      BY <1>2, <1>4, <2>1, <3>1, <3>3 DEF Accounted, Ended
    <3>4. QED
      BY <3>2, <3>3
  <2>4. Accounted(c, Copies(topic', e), Copies(deadLetters', e), sendFaults', lostReplies', producer)
    BY <1>5, <2>3
  <2>5. sendFaults' = sendFaults /\ lostReplies' = lostReplies
    BY <1>5
  <2>6. QED
    BY <1>2, <1>3, <1>4, <2>1, <2>2, <2>4, <2>5, SendInv
<1>6. ASSUME publication' = [publication EXCEPT ![e] = AttemptFailed(q)],
             sendFaults < MaxSendFaults, sendFaults' = sendFaults + 1,
             lostReplies' = lostReplies + 1
      PROVE  PublisherInv'
  <2> DEFINE c == AttemptFailed(q)
  <2>1. /\ c \in Publication /\ c.pc \in {"wait", "failed"}
        /\ Accounted(c, sent + 1, dead, sendFaults + 1, lostReplies + 1, producer)
        /\ Accounted(c, sent, dead + 1, sendFaults + 1, lostReplies + 1, producer)
    <3>1. ~Ended(q)
      BY <1>2 DEF Ended
    <3>2. QED
      BY <1>2, <3>1, FailureAccounted
  <2>2. publication' = [publication EXCEPT ![e] = c] /\ c.pc \notin {"connect", "send"}
    BY <1>6, <2>1
  <2> HIDE DEF c, sent, dead
  <2>3. Accounted(c, Copies(topic', e), Copies(deadLetters', e), sendFaults', lostReplies', producer)
    <3>1. CASE q.dlq
      BY <1>4, <1>6, <2>1, <3>1
    <3>2. CASE ~q.dlq
      BY <1>4, <1>6, <2>1, <3>2
    <3>3. QED
      BY <3>1, <3>2
  <2>4. lostReplies' \in {lostReplies, lostReplies + 1}
    BY <1>6
  <2>5. QED
    BY <1>2, <1>3, <1>4, <1>6, <2>1, <2>2, <2>3, <2>4, SendInv
<1>7. \/ /\ publication' = [publication EXCEPT ![e] =
                 [q EXCEPT !.pc = IF q.dlq THEN "failed" ELSE "ok"]]
         /\ UNCHANGED <<sendFaults, lostReplies>>
      \/ /\ sendFaults < MaxSendFaults /\ sendFaults' = sendFaults + 1
         /\ lostReplies' = lostReplies + 1
         /\ publication' = [publication EXCEPT ![e] = AttemptFailed(q)]
  BY Zenon DEF SendTakesEffect, Faulty
<1>8. QED
  BY <1>5, <1>6, <1>7

\* The timer takes the pool's producer away, in two steps.
LEMMA RemovalInv ==
    ASSUME PublisherInv, RemoveIdle \/ \E p \in ProducerIds : IdleRemoved(p)
    PROVE  PublisherInv'
<1>1. PublisherTypeOK /\ PoolKnows /\ ProducersAreOwn
  BY DEF PublisherInv
<1>2. UNCHANGED <<publication, topic, deadLetters, sendFaults, lostReplies, createdAtOnce>>
  BY DEF RemoveIdle, IdleRemoved, kafkaVars
<1>3. PICK p \in ProducerIds :
         \/ /\ p = pooled /\ producer[p] = "open" /\ pooled' = pooled /\ Connecting = {}
            /\ producer' = [producer EXCEPT ![p] = "closing"]
         \/ /\ producer[p] = "closing" /\ pooled' = 0
            /\ producer' = [producer EXCEPT ![p] = "closed"]
  <2>1. CASE RemoveIdle
    <3>1. pooled \in ProducerIds
      BY <1>1, <2>1, PublisherAssumption DEF RemoveIdle, PublisherTypeOK, ProducerIds
    <3>2. QED
      BY <2>1, <3>1 DEF RemoveIdle
  <2>2. CASE \E p \in ProducerIds : IdleRemoved(p)
    BY <2>2 DEF IdleRemoved
  <2>3. QED
    BY <2>1, <2>2
<1>4. /\ \A q \in ProducerIds : q # p => producer'[q] = producer[q]
      /\ producer[p] \in {"open", "closing"} /\ producer'[p] \in {"closing", "closed"}
      /\ producer[p] = "closing" => producer'[p] = "closed"
      /\ producer' \in [ProducerIds ->
            {"none", "connecting", "open", "closing", "closed", "abandoned"}]
      /\ pooled' \in 0..MaxProducers
  <2>1. pooled' \in 0..MaxProducers
    BY <1>1, <1>3, PublisherAssumption DEF PublisherTypeOK
  <2>2. producer \in [ProducerIds ->
            {"none", "connecting", "open", "closing", "closed", "abandoned"}]
    BY <1>1 DEF PublisherTypeOK
  <2>3. CASE producer[p] = "open" /\ producer' = [producer EXCEPT ![p] = "closing"]
    BY <2>1, <2>2, <2>3
  <2>4. CASE producer[p] = "closing" /\ producer' = [producer EXCEPT ![p] = "closed"]
    BY <2>1, <2>2, <2>4
  <2>5. QED
    BY <1>3, <2>3, <2>4
<1>5. Removing(producer')
  BY <1>4 DEF Removing
<1>6. ASSUME NEW e \in Events
      PROVE  /\ UsesProducer(publication'[e], producer')
             /\ Accounted(publication'[e], Copies(topic', e), Copies(deadLetters', e),
                          sendFaults', lostReplies', producer')
  <2>1. /\ publication[e] \in Publication /\ UsesProducer(publication[e], producer)
        /\ sendFaults \in Nat /\ lostReplies \in Nat
        /\ Copies(topic, e) \in Nat /\ Copies(deadLetters, e) \in Nat
        /\ Accounted(publication[e], Copies(topic, e), Copies(deadLetters, e), sendFaults,
                     lostReplies, producer)
    BY PublicationIs
  <2>2. UsesProducer(publication[e], producer')
    BY <1>4, <2>1 DEF UsesProducer
  <2>3. sendFaults <= sendFaults /\ lostReplies <= lostReplies
    BY <2>1
  <2>4. Accounted(publication[e], Copies(topic, e), Copies(deadLetters, e), sendFaults,
                  lostReplies, producer')
    BY <1>5, <2>1, <2>3, StaysAccounted
  <2>5. QED
    BY <1>2, <2>2, <2>4
<1>7. ProducersAreOwn' /\ PublisherTypeOK'
  BY <1>1, <1>2, <1>4 DEF ProducersAreOwn, PublisherTypeOK
<1>8. PoolKnows'
  <2>1. pooled' # 0 => producer'[pooled'] \in {"open", "closing", "closed"}
    BY <1>3, <1>4
  <2>2. Connecting' = Connecting
    BY <1>2 DEF Connecting
  <2>3. ASSUME ~createdAtOnce'
        PROVE  /\ \A f \in Connecting' : pooled' = 0 /\ \A g \in Connecting' : f = g
               /\ \A q \in ProducerIds : producer'[q] \in {"open", "closing"} => q = pooled'
    <3>1. ~createdAtOnce
      BY <1>2, <2>3
    <3>2. /\ \A f \in Connecting : pooled = 0 /\ \A g \in Connecting : f = g
          /\ \A q \in ProducerIds : producer[q] \in {"open", "closing"} => q = pooled
      BY <1>1, <3>1 DEF PoolKnows
    <3>3. QED
      BY <1>3, <1>4, <2>2, <3>2
  <2>4. QED
    BY <2>1, <2>3 DEF PoolKnows
<1>9. QED
  BY <1>6, <1>7, <1>8 DEF PublisherInv

LEMMA PublisherNextInv == PublisherInv /\ [PublisherNext]_publisherVars => PublisherInv'
<1> SUFFICES ASSUME PublisherInv, [PublisherNext]_publisherVars PROVE PublisherInv'
  OBVIOUS
<1>1. ASSUME UNCHANGED publisherVars PROVE PublisherInv'
  <2>1. UNCHANGED <<publication, producer, pooled, topic, deadLetters, sendFaults, lostReplies,
                    createdAtOnce>>
    BY <1>1 DEF publisherVars, kafkaVars
  <2>2. PublisherTypeOK' /\ ProducersAreOwn' /\ PoolKnows'
    BY <2>1 DEF PublisherInv, PublisherTypeOK, ProducersAreOwn, PoolKnows, Connecting
  <2>3. QED
    BY <2>1, <2>2 DEF PublisherInv
<1>2. ASSUME NEW e \in Events, Publish(e) \/ TryAgain(e) PROVE PublisherInv'
  <2>1. /\ publication[e].pc \in {"idle", "wait"} /\ Obtain(e, publication[e])
        /\ UNCHANGED <<pooled, kafkaVars>>
    BY <1>2 DEF Publish, TryAgain
  <2>2. QED
    BY <2>1, ObtainInv
<1>3. QED
  BY <1>1, <1>2, ConnectedProducerInv, ConnectFailsInv, SendTakesEffectInv, SendFailsInv,
     RemovalInv DEF PublisherNext

(* publish keeps its word, for any number of events, attempts, producers   *)
(* and faults: what it reports as sent or as failed is where it says, an   *)
(* event is there twice only for a lost reply, and no producer stays open  *)
(* outside the pool unless two calls made one at once.                     *)
THEOREM PublisherKeepsItsWord == PublisherSpec => []EventsAreAccounted
<1>1. PublisherInv => EventsAreAccounted
  <2> SUFFICES ASSUME PublisherInv PROVE EventsAreAccounted
    OBVIOUS
  <2>1. ASSUME NEW e \in Events
        PROVE  /\ publication[e].pc = "ok" => Copies(topic, e) > 0
               /\ publication[e].pc = "failed" /\ Copies(deadLetters, e) = 0 =>
                      \/ sendFaults >= RetryAttempts + 2
                      \/ \E p \in ProducerIds : producer[p] \in {"closing", "closed"}
               /\ Copies(topic, e) + Copies(deadLetters, e) <= 1 + lostReplies
    <3>1. /\ Copies(topic, e) \in Nat /\ Copies(deadLetters, e) \in Nat /\ lostReplies \in Nat
          /\ Accounted(publication[e], Copies(topic, e), Copies(deadLetters, e),
                       sendFaults, lostReplies, producer)
      BY PublicationIs
    <3>2. QED
      BY <3>1 DEF Accounted, Removing
  <2>2. ASSUME NEW p \in OpenProducers PROVE p = pooled \/ createdAtOnce
    <3>1. PoolKnows /\ p \in ProducerIds /\ producer[p] = "open"
      BY DEF OpenProducers, PublisherInv
    <3>2. QED
      BY <3>1 DEF PoolKnows
  <2>3. QED
    BY <2>1, <2>2 DEF EventsAreAccounted
<1>2. QED
  BY <1>1, PublisherInitInv, PublisherNextInv, PTL DEF PublisherSpec

------------------------------------------------------------------------------
(* The consumer                                                            *)

Idle(c) == consumer[c].st \in {"none", "closed"}

\* What a start, or a restart, has got to, and that no other consumer runs.
Starts(s) ==
    LET c == starter[s].made
        at == starter[s].pc
    IN /\ at # "asking"
       /\ at \in {"off", "stopping", "pause"} =>
             ~isRunning /\ keptConsumer = 0 /\ \A d \in ConsumerIds : Idle(d)
       /\ at = "failed" => \A d \in ConsumerIds : consumer[d].st # "live"
       /\ at \in {"connect", "join", "started"} =>
             isRunning /\ c \in ConsumerIds /\ \A d \in ConsumerIds : d # c => Idle(d)
       /\ at = "connect" => consumer[c].st = "connecting" /\ keptConsumer = 0
       /\ at = "join" => consumer[c].st = "idle" /\ keptConsumer = c
       /\ at = "started" => keptConsumer = c

Waits(k) == starter[k].pc \in {"off", "asking"}

\* Before the first unhealthy check only the server starts the consumer; after
\* it only that check does, once the manager has disconnected the first one.
Stage ==
    IF manager.shutdown = "no"
    THEN /\ Starts(Boot)
         /\ \A k \in Checks : Waits(k) /\ (starter[k].pc = "asking" => isRunning)
    ELSE /\ starter[Boot].pc = "started" /\ ~monitored
         /\ \E k \in Checks :
               /\ \A j \in Checks : j # k => Waits(j)
               /\ ~Waits(k)
               /\ IF manager.shutdown = "done" THEN Starts(k)
                  ELSE /\ starter[k].pc = "stopping" /\ ~isRunning
                       /\ \A d \in ConsumerIds : d # keptConsumer => Idle(d)

OneConsumer ==
    /\ \A c, d \in LiveConsumers : c = d
    /\ LiveConsumers # {} => isRunning \/ manager.shutdown = "underway"

HandledOnce ==
    \A n \in EventIds :
        /\ handled[n] <= 1
        /\ handled[n] > 0 => \A c \in LiveConsumers : n < consumer[c].next

FlagInv ==
    /\ ConsumerTypeOK
    /\ \A n \in EventIds : handled[n] > 0 => n <= appended
    /\ ~crossed => OneConsumer /\ HandledOnce /\ (~ServerEnded => Stage)

ConsumerState == [st : {"none", "connecting", "idle", "live", "closed"}, next : 1..(MaxEvents + 1)]
StarterState == [pc : {"off", "asking", "stopping", "pause", "connect", "join", "started", "failed"},
                 made : 0..MaxConsumers]

LEMMA ConsumerTypes ==
    ASSUME ConsumerTypeOK
    PROVE  /\ isRunning \in BOOLEAN /\ monitored \in BOOLEAN /\ crossed \in BOOLEAN
           /\ manager \in [link : {"pending", "up", "down"}, shutdown : {"no", "underway", "done"}]
           /\ consumer \in [ConsumerIds -> ConsumerState] /\ keptConsumer \in 0..MaxConsumers
           /\ starter \in [Starters -> StarterState]
           /\ appended \in 0..MaxEvents /\ handled \in [EventIds -> Nat]
           /\ consumerFaults \in 0..MaxConsumerFaults
BY DEF ConsumerTypeOK, ConsumerState, StarterState

\* The bookkeeping of a step, part by part.
LEMMA ConsumerTypesMake ==
    ASSUME isRunning \in BOOLEAN, monitored \in BOOLEAN, crossed \in BOOLEAN,
           manager \in [link : {"pending", "up", "down"}, shutdown : {"no", "underway", "done"}],
           consumer \in [ConsumerIds -> ConsumerState], keptConsumer \in 0..MaxConsumers,
           starter \in [Starters -> StarterState],
           appended \in 0..MaxEvents, handled \in [EventIds -> Nat],
           consumerFaults \in 0..MaxConsumerFaults
    PROVE  ConsumerTypeOK
BY DEF ConsumerTypeOK, ConsumerState, StarterState

LEMMA ConsumerInitInv == ConsumerInit => FlagInv
<1> SUFFICES ASSUME ConsumerInit PROVE FlagInv
  OBVIOUS
<1> USE ConsumerAssumption DEF ConsumerInit
<1>1. [st |-> "none", next |-> 1] \in ConsumerState
  BY DEF ConsumerState
<1>2. [pc |-> "off", made |-> 0] \in StarterState
  BY DEF StarterState
<1>3. ConsumerTypeOK
  <2>1. consumer \in [ConsumerIds -> ConsumerState] /\ starter \in [Starters -> StarterState]
    BY <1>1, <1>2
  <2>2. isRunning \in BOOLEAN /\ monitored \in BOOLEAN /\ crossed \in BOOLEAN
    OBVIOUS
  <2>3. manager \in [link : {"pending", "up", "down"}, shutdown : {"no", "underway", "done"}]
    OBVIOUS
  <2>4. /\ appended \in 0..MaxEvents /\ handled \in [EventIds -> Nat]
        /\ consumerFaults \in 0..MaxConsumerFaults /\ keptConsumer \in 0..MaxConsumers
    OBVIOUS
  <2>5. QED
    BY <2>1, <2>2, <2>3, <2>4, ConsumerTypesMake
<1>4. LiveConsumers = {} /\ \A d \in ConsumerIds : Idle(d)
  BY DEF LiveConsumers, Idle
<1>5. OneConsumer /\ HandledOnce
  BY <1>4 DEF OneConsumer, HandledOnce
<1>6. Stage
  <2>1. Starts(Boot)
    BY <1>4 DEF Starts, Starters
  <2>2. QED
    BY <2>1 DEF Stage, Waits, Starters
<1>7. QED
  BY <1>3, <1>5, <1>6 DEF FlagInv

\* Events are appended before they are handled, and everything keeps its type.
LEMMA ConsumerTypeNext ==
    ASSUME FlagInv, [ConsumerNext]_consumerVars
    PROVE  ConsumerTypeOK' /\ \A n \in EventIds : handled'[n] > 0 => n <= appended'
<1> DEFINE Counted == \A n \in EventIds : handled[n] > 0 => n <= appended
<1> USE ConsumerAssumption
<1>1. /\ isRunning \in BOOLEAN /\ monitored \in BOOLEAN /\ crossed \in BOOLEAN
      /\ manager \in [link : {"pending", "up", "down"}, shutdown : {"no", "underway", "done"}]
      /\ consumer \in [ConsumerIds -> ConsumerState] /\ keptConsumer \in 0..MaxConsumers
      /\ starter \in [Starters -> StarterState]
      /\ appended \in 0..MaxEvents /\ handled \in [EventIds -> Nat]
      /\ consumerFaults \in 0..MaxConsumerFaults /\ Counted
  BY ConsumerTypes DEF FlagInv
<1>2. ConsumerFaulty => consumerFaults' \in 0..MaxConsumerFaults
  BY <1>1 DEF ConsumerFaulty
<1>3. ASSUME NEW s \in Starters, NEW pc \in {"off", "asking", "stopping", "pause", "connect", "join",
                                            "started", "failed"}
      PROVE  [starter EXCEPT ![s].pc = pc] \in [Starters -> StarterState]
  <2>1. [starter[s] EXCEPT !.pc = pc] \in StarterState
    BY <1>1 DEF StarterState
  <2>2. QED
    BY <1>1, <2>1
<1>4. ASSUME NEW c, NEW st \in {"none", "connecting", "idle", "live", "closed"}
      PROVE  [consumer EXCEPT ![c].st = st] \in [ConsumerIds -> ConsumerState]
  <2>1. CASE c \in ConsumerIds
    <3>1. [consumer[c] EXCEPT !.st = st] \in ConsumerState
      BY <1>1, <2>1 DEF ConsumerState
    <3>2. QED
      BY <1>1, <2>1, <3>1
  <2>2. CASE c \notin ConsumerIds
    BY <1>1, <2>2
  <2>3. QED
    BY <2>1, <2>2
<1> DEFINE Result == ConsumerTypeOK' /\ \A n \in EventIds : handled'[n] > 0 => n <= appended'
<1>5. ASSUME isRunning' \in BOOLEAN, monitored' \in BOOLEAN, crossed' \in BOOLEAN,
             manager' \in [link : {"pending", "up", "down"}, shutdown : {"no", "underway", "done"}],
             consumer' \in [ConsumerIds -> ConsumerState], keptConsumer' \in 0..MaxConsumers,
             starter' \in [Starters -> StarterState], consumerFaults' \in 0..MaxConsumerFaults,
             UNCHANGED eventVars
      PROVE  Result
  <2>1. appended' = appended /\ handled' = handled
    BY <1>5 DEF eventVars
  <2>2. ConsumerTypeOK'
    BY <1>1, <1>5, <2>1 DEF ConsumerTypeOK, ConsumerState, StarterState
  <2>3. QED
    BY <1>1, <2>1, <2>2
<1> HIDE DEF Result
<1>6. ASSUME UNCHANGED consumerVars PROVE Result
  BY <1>1, <1>5, <1>6 DEF consumerVars
<1>7. ASSUME ManagerConnects PROVE Result
  <2>1. manager' \in [link : {"pending", "up", "down"}, shutdown : {"no", "underway", "done"}]
    BY <1>1, <1>7 DEF ManagerConnects
  <2>2. starter' \in [Starters -> StarterState]
    <3>1. Boot \in Starters
      BY DEF Starters
    <3>2. starter' = starter \/ starter' = [starter EXCEPT ![Boot].pc = "failed"]
      BY <1>7 DEF ManagerConnects
    <3>3. QED
      BY <1>1, <1>3, <3>1, <3>2, ZenonT(60)
  <2>3. QED
    BY <1>1, <1>2, <1>5, <1>7, <2>1, <2>2 DEF ManagerConnects
<1>8. ASSUME NEW s \in Starters, Start(s) PROVE Result
  <2>1. ASSUME NEW c \in 0..MaxConsumers, NEW pc \in {"connect", "join"}
        PROVE  [starter EXCEPT ![s] = [pc |-> pc, made |-> c]] \in [Starters -> StarterState]
    <3>1. [pc |-> pc, made |-> c] \in StarterState
      BY DEF StarterState
    <3>2. QED
      BY <1>1, <3>1
  <2>2. \A c \in UnusedConsumers : c \in ConsumerIds /\ c \in 0..MaxConsumers
    BY DEF UnusedConsumers, ConsumerIds
  <2>3. /\ starter' \in [Starters -> StarterState] /\ consumer' \in [ConsumerIds -> ConsumerState]
        /\ isRunning' \in BOOLEAN
    <3>1. isRunning' = TRUE
      BY <1>8 DEF Start
    <3>2. CASE starter' = [starter EXCEPT ![s].pc = "started"] /\ consumer' = consumer
      BY <1>1, <1>3, <3>1, <3>2
    <3>3. CASE /\ starter' = [starter EXCEPT ![s] = [pc |-> "join", made |-> keptConsumer]]
               /\ consumer' = consumer
      BY <1>1, <2>1, <3>1, <3>3
    <3>4. ASSUME NEW c \in UnusedConsumers,
                 starter' = [starter EXCEPT ![s] = [pc |-> "connect", made |-> c]],
                 consumer' = [consumer EXCEPT ![c].st = "connecting"]
          PROVE  starter' \in [Starters -> StarterState] /\ consumer' \in [ConsumerIds -> ConsumerState]
      BY <1>1, <1>4, <2>1, <2>2, <3>4
    <3>5. QED
      BY <1>8, <3>1, <3>2, <3>3, <3>4 DEF Start
  <2>4. UNCHANGED <<monitored, manager, keptConsumer, eventVars, consumerFaults, crossed>>
    BY <1>8 DEF Start
  <2>5. QED
    BY <1>1, <1>5, <2>3, <2>4
<1>9. ASSUME NEW s \in Starters, Connected(s) \/ Join(s) \/ StartFails(s)
      PROVE  Result
  <2>1. starter' \in [Starters -> StarterState]
    <3>1. PICK pc \in {"join", "started", "failed"} : starter' = [starter EXCEPT ![s].pc = pc]
      BY <1>9 DEF Connected, Join, StartFails
    <3>2. QED
      BY <1>3, <3>1
  <2>2. [st |-> "live", next |-> appended + 1] \in ConsumerState
    BY <1>1 DEF ConsumerState
  <2>3. consumer' \in [ConsumerIds -> ConsumerState]
    <3>1. \/ \E st \in {"idle", "closed"} : consumer' = [consumer EXCEPT ![starter[s].made].st = st]
          \/ consumer' = [consumer EXCEPT ![starter[s].made] = [st |-> "live", next |-> appended + 1]]
          \/ consumer' = consumer
      BY <1>9 DEF Connected, Join, StartFails
    <3>2. ASSUME NEW st \in {"idle", "closed"}, consumer' = [consumer EXCEPT ![starter[s].made].st = st]
          PROVE  consumer' \in [ConsumerIds -> ConsumerState]
      <4>1. st \in {"none", "connecting", "idle", "live", "closed"}
        OBVIOUS
      <4>2. QED
        BY <1>4, <3>2, <4>1
    <3>3. QED
      BY <1>1, <2>2, <3>1, <3>2
  <2>4. keptConsumer' \in 0..MaxConsumers
    <3>1. starter[s].made \in 0..MaxConsumers
      BY <1>1 DEF StarterState
    <3>2. QED
      BY <1>1, <1>9, <3>1 DEF Connected, Join, StartFails
  <2>5. isRunning' \in BOOLEAN /\ consumerFaults' \in 0..MaxConsumerFaults
    BY <1>1, <1>2, <1>9 DEF Connected, Join, StartFails
  <2>6. UNCHANGED <<monitored, manager, eventVars, crossed>>
    BY <1>9 DEF Connected, Join, StartFails
  <2>7. QED
    BY <1>1, <1>5, <2>1, <2>3, <2>4, <2>5, <2>6
<1>10. ASSUME NEW k \in Checks, Tick(k) \/ Healthy(k) \/ Stopped(k) PROVE Result
  <2>1. starter' \in [Starters -> StarterState]
    <3>1. k \in Starters
      BY DEF Starters
    <3>2. PICK pc \in {"asking", "off", "pause"} : starter' = [starter EXCEPT ![k].pc = pc]
      BY <1>10 DEF Tick, Healthy, Stopped
    <3>3. QED
      BY <1>3, <3>1, <3>2
  <2>2. UNCHANGED <<isRunning, monitored, manager, consumer, keptConsumer, eventVars,
                    consumerFaults, crossed>>
    BY <1>10 DEF Tick, Healthy, Stopped
  <2>3. QED
    BY <1>1, <1>5, <2>1, <2>2
<1>11. ASSUME NEW k \in Checks, Unhealthy(k) PROVE Result
  <2>1. starter' \in [Starters -> StarterState]
    <3>1. k \in Starters
      BY DEF Starters
    <3>2. PICK pc \in {"stopping", "pause"} : starter' = [starter EXCEPT ![k].pc = pc]
      BY <1>11 DEF Unhealthy
    <3>3. QED
      BY <1>3, <3>1, <3>2
  <2>2. manager' \in [link : {"pending", "up", "down"}, shutdown : {"no", "underway", "done"}]
    BY <1>1, <1>11 DEF Unhealthy
  <2>3. isRunning' \in BOOLEAN /\ monitored' \in BOOLEAN
    BY <1>1, <1>11 DEF Unhealthy
  <2>4. consumerFaults' \in 0..MaxConsumerFaults
    BY <1>1, <1>2, <1>11 DEF Unhealthy
  <2>5. crossed' \in BOOLEAN
    BY <1>11 DEF Unhealthy
  <2>6. UNCHANGED <<consumer, keptConsumer, eventVars>>
    BY <1>11 DEF Unhealthy
  <2>7. QED
    BY <1>1, <1>5, <2>1, <2>2, <2>3, <2>4, <2>5, <2>6
<1>12. ASSUME ShutDown PROVE Result
  <2>1. consumer' = [c \in ConsumerIds |-> IF c = keptConsumer
                        THEN [consumer[c] EXCEPT !.st = "closed"] ELSE consumer[c]]
    BY <1>12 DEF ShutDown
  <2>2. \A c \in ConsumerIds : [consumer[c] EXCEPT !.st = "closed"] \in ConsumerState
    BY <1>1 DEF ConsumerState
  <2>3. consumer' \in [ConsumerIds -> ConsumerState]
    BY <1>1, <2>1, <2>2
  <2>4. manager' \in [link : {"pending", "up", "down"}, shutdown : {"no", "underway", "done"}]
    BY <1>1, <1>12 DEF ShutDown
  <2>5. keptConsumer' \in 0..MaxConsumers
    BY <1>12 DEF ShutDown
  <2>6. UNCHANGED <<isRunning, monitored, starter, eventVars, consumerFaults, crossed>>
    BY <1>12 DEF ShutDown
  <2>7. QED
    BY <1>1, <1>5, <2>3, <2>4, <2>5, <2>6
<1>13. ASSUME NEW c \in ConsumerIds, ConsumerCrashes(c) PROVE Result
  <2>1. consumer' \in [ConsumerIds -> ConsumerState]
    BY <1>4, <1>13 DEF ConsumerCrashes
  <2>2. UNCHANGED <<isRunning, monitored, manager, keptConsumer, starter, eventVars, crossed>>
    BY <1>13 DEF ConsumerCrashes
  <2>3. consumerFaults' \in 0..MaxConsumerFaults
    BY <1>2, <1>13 DEF ConsumerCrashes
  <2>4. QED
    BY <1>1, <1>5, <2>1, <2>2, <2>3
<1>14. ASSUME EventAppended PROVE Result
  <2>1. /\ appended' \in 0..MaxEvents /\ appended <= appended' /\ handled' = handled
        /\ UNCHANGED <<isRunning, monitored, manager, consumer, keptConsumer, starter,
                       consumerFaults, crossed>>
    BY <1>1, <1>14 DEF EventAppended
  <2>2. ConsumerTypeOK'
    BY <1>1, <2>1 DEF ConsumerTypeOK, ConsumerState, StarterState
  <2>3. \A n \in EventIds : handled'[n] > 0 => n <= appended'
    BY <1>1, <2>1 DEF EventIds
  <2>4. QED
    BY <2>2, <2>3 DEF Result
<1>15. ASSUME NEW c \in ConsumerIds, Handle(c) PROVE Result
  <2> DEFINE n == consumer[c].next
  <2>1. n \in EventIds /\ n <= appended /\ n + 1 \in 1..(MaxEvents + 1)
    BY <1>1, <1>15 DEF Handle, ConsumerState, EventIds
  <2>2. /\ handled' = [handled EXCEPT ![n] = @ + 1]
        /\ consumer' = [consumer EXCEPT ![c].next = n + 1]
        /\ UNCHANGED <<isRunning, monitored, manager, keptConsumer, starter, appended,
                       consumerFaults, crossed>>
    BY <1>15 DEF Handle
  <2> HIDE DEF n
  <2>3. [consumer[c] EXCEPT !.next = n + 1] \in ConsumerState
    BY <1>1, <2>1 DEF ConsumerState
  <2>4. consumer' \in [ConsumerIds -> ConsumerState]
    BY <1>1, <2>2, <2>3
  <2>5. handled' \in [EventIds -> Nat]
    BY <1>1, <2>1, <2>2
  <2>6. ConsumerTypeOK'
    BY <1>1, <2>2, <2>4, <2>5 DEF ConsumerTypeOK, ConsumerState, StarterState
  <2>7. \A m \in EventIds : m # n => handled'[m] = handled[m]
    BY <1>1, <2>1, <2>2
  <2>8. \A m \in EventIds : handled'[m] > 0 => m <= appended'
    BY <1>1, <2>1, <2>2, <2>7
  <2>9. QED
    BY <2>6, <2>8 DEF Result
<1>16. ASSUME NEW s \in Starters, Start(s) \/ StartProceeds(s) PROVE Result
  BY <1>8, <1>9, <1>16 DEF StartProceeds
<1>17. Result
  BY <1>6, <1>7, <1>10, <1>11, <1>12, <1>13, <1>14, <1>15, <1>16 DEF ConsumerNext
<1>18. QED
  BY <1>17 DEF Result

\* Who is starting something: the server first, one check after the shutdown.
LEMMA StarterIs ==
    ASSUME FlagInv, ~crossed, ~ServerEnded, NEW s \in Starters,
           IF s = Boot THEN starter[s].pc \in {"off", "connect", "join"}
           ELSE starter[s].pc \in {"pause", "connect", "join"}
    PROVE  Starts(s) /\ manager.shutdown = (IF s = Boot THEN "no" ELSE "done")
<1>1. Stage
  BY DEF FlagInv
<1>2. manager.shutdown \in {"no", "underway", "done"}
  BY ConsumerTypes DEF FlagInv
<1>3. CASE s = Boot
  BY <1>1, <1>3 DEF Stage
<1>4. CASE s # Boot
  <2>1. s \in Checks /\ ~Waits(s) /\ starter[s].pc # "stopping"
    BY <1>4 DEF Starters, Waits
  <2>2. manager.shutdown # "no"
    BY <1>1, <2>1 DEF Stage
  <2>3. PICK k \in Checks :
           /\ \A j \in Checks : j # k => Waits(j)
           /\ IF manager.shutdown = "done" THEN Starts(k) ELSE starter[k].pc = "stopping"
    BY <1>1, <2>2 DEF Stage
  <2>4. k = s
    BY <2>1, <2>3
  <2>5. QED
    BY <1>2, <1>4, <2>1, <2>2, <2>3, <2>4
<1>5. QED
  BY <1>3, <1>4

\* Its next step leaves the others where they are.
LEMMA StarterGoesOn ==
    ASSUME FlagInv, ~crossed, ~ServerEnded, NEW s \in Starters,
           IF s = Boot THEN starter[s].pc \in {"off", "connect", "join"}
           ELSE starter[s].pc \in {"pause", "connect", "join"},
           UNCHANGED <<manager, monitored>>,
           \A t \in Starters : t # s => starter'[t] = starter[t],
           starter'[s].pc \in {"connect", "join", "started", "failed"}, Starts(s)'
    PROVE  OneConsumer' /\ (~ServerEnded' => Stage')
<1>1. Stage /\ Starts(s) /\ manager.shutdown = (IF s = Boot THEN "no" ELSE "done")
  BY StarterIs DEF FlagInv
<1>2. OneConsumer'
  BY DEF OneConsumer, Starts, LiveConsumers, Idle
<1>3. ASSUME ~ServerEnded' PROVE Stage'
  <2>1. CASE s = Boot
    <3>1. starter'[s].pc \in {"connect", "join", "started"} /\ isRunning'
      BY <1>3, <2>1 DEF ServerEnded, Starts
    <3>2. \A k \in Checks : starter'[k] = starter[k] /\ Waits(k)
      BY <1>1, <2>1, ConsumerAssumption DEF Stage, Starters
    <3>3. QED
      BY <1>1, <2>1, <3>1, <3>2 DEF Stage, Waits
  <2>2. CASE s # Boot
    <3>1. s \in Checks /\ manager.shutdown = "done" /\ ~Waits(s)
      BY <1>1, <2>2 DEF Starters, Waits
    <3>2. starter'[Boot] = starter[Boot] /\ starter[Boot].pc = "started"
      BY <1>1, <2>2, <3>1 DEF Stage, Starters
    <3>3. \A j \in Checks : j # s => starter'[j] = starter[j] /\ Waits(j)
      BY <1>1, <3>1 DEF Stage, Starters
    <3>4. ~monitored'
      BY <1>1, <3>1 DEF Stage
    <3>5. manager'.shutdown = "done" /\ ~Waits(s)'
      BY <3>1 DEF Waits
    <3>6. /\ starter'[Boot].pc = "started"
          /\ \A j \in Checks : j # s => Waits(j)'
      BY <3>2, <3>3 DEF Waits
    <3>7. QED
      BY <3>1, <3>4, <3>5, <3>6 DEF Stage
  <2>3. QED
    BY <2>1, <2>2
<1>4. QED
  BY <1>2, <1>3

\* Consumers that stop, or go on living, have handled what they had.
LEMMA HandledStays ==
    ASSUME FlagInv, ~crossed, UNCHANGED handled,
           \A c \in LiveConsumers' : c \in LiveConsumers /\ consumer'[c].next = consumer[c].next
    PROVE  HandledOnce'
BY DEF FlagInv, HandledOnce

\* The part of the invariant that only matters until restarts cross.
Quiet == ~crossed => OneConsumer /\ HandledOnce /\ (~ServerEnded => Stage)

LEMMA StartQuiet ==
    ASSUME FlagInv, NEW s \in Starters, Start(s) PROVE Quiet'
<1> SUFFICES ASSUME ~crossed' PROVE OneConsumer' /\ HandledOnce' /\ (~ServerEnded' => Stage')
  BY DEF Quiet
<1>1. /\ ~crossed /\ ~ServerEnded /\ UNCHANGED <<monitored, manager, keptConsumer, handled>>
  BY DEF Start, eventVars
<1>2. IF s = Boot THEN starter[s].pc = "off" ELSE starter[s].pc = "pause"
  BY DEF Start
<1>3. Starts(s) /\ ~isRunning /\ keptConsumer = 0 /\ \A d \in ConsumerIds : Idle(d)
  BY <1>1, <1>2, StarterIs DEF Starts
<1>4. PICK c \in UnusedConsumers :
         /\ starter' = [starter EXCEPT ![s] = [pc |-> "connect", made |-> c]]
         /\ consumer' = [consumer EXCEPT ![c].st = "connecting"]
  BY <1>3 DEF Start
<1>5. c \in ConsumerIds /\ isRunning' = TRUE
  BY DEF UnusedConsumers, Start
<1>6. /\ starter'[s].pc = "connect" /\ starter'[s].made = c
      /\ \A t \in Starters : t # s => starter'[t] = starter[t]
      /\ consumer'[c].st = "connecting" /\ \A d \in ConsumerIds : d # c => consumer'[d] = consumer[d]
  BY <1>4, <1>5, ConsumerTypes DEF FlagInv, ConsumerState
<1>7. Starts(s)'
  BY <1>1, <1>3, <1>5, <1>6 DEF Starts, Idle
<1>8. OneConsumer' /\ (~ServerEnded' => Stage')
  BY <1>1, <1>2, <1>6, <1>7, StarterGoesOn
<1>9. LiveConsumers' = {}
  BY <1>3, <1>6 DEF LiveConsumers, Idle
<1>10. HandledOnce'
  BY <1>1, <1>9, HandledStays
<1>11. QED
  BY <1>8, <1>10

LEMMA ConnectedQuiet ==
    ASSUME FlagInv, NEW s \in Starters, Connected(s) PROVE Quiet'
<1> SUFFICES ASSUME ~crossed' PROVE OneConsumer' /\ HandledOnce' /\ (~ServerEnded' => Stage')
  BY DEF Quiet
<1> DEFINE c == starter[s].made
<1>1. /\ ~crossed /\ ~ServerEnded /\ UNCHANGED <<isRunning, monitored, manager, handled>>
      /\ starter[s].pc = "connect"
  BY DEF Connected, eventVars
<1>2. /\ isRunning /\ c \in ConsumerIds /\ \A d \in ConsumerIds : d # c => Idle(d)
      /\ consumer[c].st = "connecting"
  BY <1>1, StarterIs DEF Starts
<1>3. /\ starter' = [starter EXCEPT ![s].pc = "join"] /\ keptConsumer' = c
      /\ consumer' = [consumer EXCEPT ![c].st = "idle"]
  BY DEF Connected
<1>4. /\ starter'[s].pc = "join" /\ starter'[s].made = c
      /\ \A t \in Starters : t # s => starter'[t] = starter[t]
      /\ consumer'[c].st = "idle" /\ \A d \in ConsumerIds : d # c => consumer'[d] = consumer[d]
  BY <1>2, <1>3, ConsumerTypes DEF FlagInv, ConsumerState, StarterState
<1> HIDE DEF c
<1>5. Starts(s)'
  BY <1>1, <1>2, <1>3, <1>4 DEF Starts, Idle
<1>6. OneConsumer' /\ (~ServerEnded' => Stage')
  BY <1>1, <1>4, <1>5, StarterGoesOn
<1>7. LiveConsumers' = {}
  BY <1>2, <1>4 DEF LiveConsumers, Idle
<1>8. HandledOnce'
  BY <1>1, <1>7, HandledStays
<1>9. QED
  BY <1>6, <1>8

LEMMA JoinQuiet ==
    ASSUME FlagInv, NEW s \in Starters, Join(s) PROVE Quiet'
<1> SUFFICES ASSUME ~crossed' PROVE OneConsumer' /\ HandledOnce' /\ (~ServerEnded' => Stage')
  BY DEF Quiet
<1> DEFINE c == starter[s].made
<1>1. /\ ~crossed /\ ~ServerEnded
      /\ UNCHANGED <<isRunning, monitored, manager, keptConsumer, handled, appended>>
      /\ starter[s].pc = "join"
  BY DEF Join, eventVars
<1>2. /\ isRunning /\ c \in ConsumerIds /\ \A d \in ConsumerIds : d # c => Idle(d)
      /\ keptConsumer = c
  BY <1>1, StarterIs DEF Starts
<1>3. /\ starter' = [starter EXCEPT ![s].pc = "started"]
      /\ consumer' = [consumer EXCEPT ![c] = [st |-> "live", next |-> appended + 1]]
  BY DEF Join
<1>4. /\ starter'[s].pc = "started" /\ starter'[s].made = c
      /\ \A t \in Starters : t # s => starter'[t] = starter[t]
      /\ consumer'[c].next = appended + 1
      /\ \A d \in ConsumerIds : d # c => consumer'[d] = consumer[d]
  BY <1>2, <1>3, ConsumerTypes DEF FlagInv, ConsumerState, StarterState
<1> HIDE DEF c
<1>5. Starts(s)'
  BY <1>1, <1>2, <1>3, <1>4 DEF Starts, Idle
<1>6. OneConsumer' /\ (~ServerEnded' => Stage')
  BY <1>1, <1>4, <1>5, StarterGoesOn
<1>7. \A d \in LiveConsumers' : d = c
  BY <1>2, <1>4 DEF LiveConsumers, Idle
<1>8. HandledOnce'
  <2>1. \A n \in EventIds : handled[n] <= 1 /\ (handled[n] > 0 => n <= appended)
    BY <1>1 DEF FlagInv, HandledOnce
  <2>2. \A n \in EventIds : n <= appended => n < appended + 1
    BY ConsumerTypes, ConsumerAssumption DEF FlagInv, EventIds
  <2>3. QED
    BY <1>1, <1>4, <1>7, <2>1, <2>2 DEF HandledOnce
<1>9. QED
  BY <1>6, <1>8

LEMMA StartFailsQuiet ==
    ASSUME FlagInv, NEW s \in Starters, StartFails(s) PROVE Quiet'
<1> SUFFICES ASSUME ~crossed' PROVE OneConsumer' /\ HandledOnce' /\ (~ServerEnded' => Stage')
  BY DEF Quiet
<1> DEFINE c == starter[s].made
<1>1. /\ ~crossed /\ ~ServerEnded /\ UNCHANGED <<monitored, manager, handled>>
      /\ starter[s].pc \in {"connect", "join"}
  BY DEF StartFails, eventVars
<1>2. /\ c \in ConsumerIds /\ \A d \in ConsumerIds : d # c => Idle(d)
      /\ consumer[c].st \in {"connecting", "idle"}
  BY <1>1, StarterIs DEF Starts
<1>3. /\ starter' = [starter EXCEPT ![s].pc = "failed"]
      /\ consumer' = consumer \/ consumer' = [consumer EXCEPT ![c].st = "closed"]
  BY DEF StartFails
<1>4. /\ starter'[s].pc = "failed" /\ \A t \in Starters : t # s => starter'[t] = starter[t]
      /\ consumer'[c].st \in {"connecting", "idle", "closed"}
      /\ \A d \in ConsumerIds : d # c => consumer'[d] = consumer[d]
  BY <1>2, <1>3, ConsumerTypes DEF FlagInv, ConsumerState, StarterState
<1> HIDE DEF c
<1>5. LiveConsumers' = {}
  BY <1>2, <1>4 DEF LiveConsumers, Idle
<1>6. Starts(s)'
  BY <1>4, <1>5 DEF Starts, LiveConsumers
<1>7. OneConsumer' /\ (~ServerEnded' => Stage')
  BY <1>1, <1>4, <1>6, StarterGoesOn
<1>8. HandledOnce'
  BY <1>1, <1>5, HandledStays
<1>9. QED
  BY <1>7, <1>8

\* What is nobody's start leaves the starts what they are.
LEMMA StageSame ==
    ASSUME FlagInv, ~crossed, ~ServerEnded,
           UNCHANGED <<isRunning, monitored, keptConsumer>>, manager'.shutdown = manager.shutdown,
           starter'[Boot] = starter[Boot],
           \A k \in Checks : \/ starter'[k] = starter[k]
                             \/ Waits(k) /\ Waits(k)' /\ (starter'[k].pc = "asking" => isRunning),
           \A d \in ConsumerIds : consumer'[d].st = consumer[d].st
    PROVE  OneConsumer' /\ Stage'
<1>1. Stage /\ OneConsumer
  BY DEF FlagInv
<1>2. LiveConsumers' = LiveConsumers /\ \A d \in ConsumerIds : Idle(d)' <=> Idle(d)
  BY DEF LiveConsumers, Idle
<1>3. OneConsumer'
  BY <1>1, <1>2 DEF OneConsumer
<1>4. ASSUME NEW s \in Starters, Starts(s), starter'[s] = starter[s] PROVE Starts(s)'
  BY <1>2, <1>4 DEF Starts
<1>5. CASE manager.shutdown = "no"
  <2>1. Starts(Boot)'
    BY <1>1, <1>4, <1>5 DEF Stage, Starters
  <2>2. \A k \in Checks : Waits(k)' /\ (starter'[k].pc = "asking" => isRunning')
    BY <1>1, <1>5 DEF Stage, Waits
  <2>3. QED
    BY <1>3, <1>5, <2>1, <2>2 DEF Stage
<1>6. CASE manager.shutdown # "no"
  <2>1. starter[Boot].pc = "started" /\ ~monitored
    BY <1>1, <1>6 DEF Stage
  <2>2. PICK k \in Checks :
           /\ \A j \in Checks : j # k => Waits(j)
           /\ ~Waits(k)
           /\ IF manager.shutdown = "done" THEN Starts(k)
              ELSE /\ starter[k].pc = "stopping" /\ ~isRunning
                   /\ \A d \in ConsumerIds : d # keptConsumer => Idle(d)
    BY <1>1, <1>6 DEF Stage
  <2>3. starter'[k] = starter[k] /\ ~Waits(k)'
    BY <2>2 DEF Waits
  <2>4. \A j \in Checks : j # k => Waits(j)'
    BY <2>2 DEF Waits
  <2>5. IF manager'.shutdown = "done" THEN Starts(k)'
        ELSE /\ starter'[k].pc = "stopping" /\ ~isRunning'
             /\ \A d \in ConsumerIds : d # keptConsumer' => Idle(d)'
    BY <1>2, <1>4, <2>2, <2>3 DEF Starters
  <2>6. starter'[Boot].pc = "started" /\ ~monitored' /\ manager'.shutdown # "no"
    BY <1>6, <2>1
  <2>7. QED
    BY <1>3, <2>3, <2>4, <2>5, <2>6 DEF Stage
<1>7. QED
  BY <1>3, <1>5, <1>6

LEMMA ManagerConnectsQuiet == ASSUME FlagInv, ManagerConnects PROVE Quiet'
<1> SUFFICES ASSUME ~crossed' PROVE OneConsumer' /\ HandledOnce' /\ (~ServerEnded' => Stage')
  BY DEF Quiet
<1>1. /\ ~crossed /\ ~ServerEnded
      /\ UNCHANGED <<isRunning, monitored, consumer, keptConsumer, appended, handled>>
  BY DEF ManagerConnects, eventVars
<1>2. manager'.shutdown = manager.shutdown
  BY ConsumerTypes DEF ManagerConnects, FlagInv
<1>3. LiveConsumers' = LiveConsumers
  BY <1>1 DEF LiveConsumers
<1>4. HandledOnce' /\ OneConsumer'
  BY <1>1, <1>2, <1>3 DEF FlagInv, HandledOnce, OneConsumer
<1>5. CASE starter' = starter
  BY <1>1, <1>2, <1>4, <1>5, StageSame
<1>6. CASE starter' = [starter EXCEPT ![Boot].pc = "failed"]
  <2>1. starter'[Boot].pc = "failed"
    BY <1>6, ConsumerTypes DEF FlagInv, Starters, StarterState
  <2>2. QED
    BY <1>4, <2>1 DEF ServerEnded
<1>7. QED
  BY <1>5, <1>6 DEF ManagerConnects

LEMMA AskQuiet ==
    ASSUME FlagInv, NEW k \in Checks, Tick(k) \/ Healthy(k) PROVE Quiet'
<1> SUFFICES ASSUME ~crossed' PROVE OneConsumer' /\ HandledOnce' /\ (~ServerEnded' => Stage')
  BY DEF Quiet
<1>1. /\ ~crossed /\ ~ServerEnded
      /\ UNCHANGED <<isRunning, monitored, manager, consumer, keptConsumer, appended, handled>>
  BY DEF Tick, Healthy, eventVars
<1>2. PICK pc \in {"asking", "off"} :
         /\ starter' = [starter EXCEPT ![k].pc = pc]
         /\ pc = "asking" => isRunning
  BY DEF Tick, Healthy
<1>3. /\ starter'[k].pc = pc /\ \A t \in Starters : t # k => starter'[t] = starter[t]
  BY <1>2, ConsumerTypes DEF FlagInv, Starters, StarterState
<1>4. Waits(k) /\ Waits(k)'
  BY <1>3 DEF Waits, Tick, Healthy
<1>5. OneConsumer' /\ Stage'
  BY <1>1, <1>2, <1>3, <1>4, ConsumerAssumption, StageSame DEF Starters
<1>6. HandledOnce'
  BY <1>1, HandledStays DEF LiveConsumers
<1>7. QED
  BY <1>5, <1>6

\* The first check that fails finds the server's start ended, unless it crosses it.
LEMMA UnhealthyQuiet ==
    ASSUME FlagInv, NEW k \in Checks, Unhealthy(k) PROVE Quiet'
<1> SUFFICES ASSUME ~crossed' PROVE OneConsumer' /\ HandledOnce' /\ (~ServerEnded' => Stage')
  BY DEF Quiet
<1>1. /\ ~crossed /\ Starting = {} /\ manager.shutdown = "no" /\ ~ServerEnded
      /\ starter[k].pc = "asking" /\ UNCHANGED <<consumer, keptConsumer, handled>>
  BY DEF Unhealthy, eventVars
<1>2. Stage /\ OneConsumer
  BY <1>1 DEF FlagInv
<1>3. Starts(Boot) /\ isRunning /\ \A j \in Checks : Waits(j)
  BY <1>1, <1>2 DEF Stage
<1>4. starter[Boot].pc = "started"
  <2>1. starter[Boot].pc \notin {"connect", "join"}
    BY <1>1 DEF Starting, Starters
  <2>2. starter[Boot].pc # "failed"
    BY <1>1 DEF ServerEnded
  <2>3. starter[Boot] \in StarterState
    BY ConsumerTypes DEF FlagInv, Starters
  <2>4. QED
    BY <1>3, <2>1, <2>2, <2>3 DEF Starts, StarterState
<1>5. /\ ~isRunning' /\ ~monitored'
      /\ starter' = [starter EXCEPT ![k].pc = "stopping"] /\ manager'.shutdown = "underway"
  BY <1>1, <1>3, ConsumerTypes DEF Unhealthy, FlagInv
<1>6. starter'[k].pc = "stopping" /\ \A t \in Starters : t # k => starter'[t] = starter[t]
  BY <1>5, ConsumerTypes DEF FlagInv, Starters, StarterState
<1>7. LiveConsumers' = LiveConsumers
  BY <1>1 DEF LiveConsumers
<1>8. OneConsumer'
  BY <1>2, <1>5, <1>7 DEF OneConsumer
<1>9. HandledOnce'
  BY <1>1, <1>7, HandledStays
<1>10. Stage'
  <2>1. starter'[Boot].pc = "started"
    BY <1>4, <1>6, ConsumerAssumption DEF Starters
  <2>2. ~Waits(k)' /\ \A j \in Checks : j # k => Waits(j)'
    BY <1>3, <1>6 DEF Waits, Starters
  <2>3. \A d \in ConsumerIds : d # keptConsumer' => Idle(d)'
    BY <1>1, <1>3, <1>4 DEF Starts, Idle
  <2>4. QED
    BY <1>5, <1>6, <2>1, <2>2, <2>3 DEF Stage
<1>11. QED
  BY <1>8, <1>9, <1>10

\* The manager disconnects what it keeps, which is the one that ran.
LEMMA ShutDownQuiet == ASSUME FlagInv, ShutDown PROVE Quiet'
<1> SUFFICES ASSUME ~crossed' PROVE OneConsumer' /\ HandledOnce' /\ (~ServerEnded' => Stage')
  BY DEF Quiet
<1>1. /\ ~crossed /\ ~ServerEnded /\ manager.shutdown = "underway" /\ manager'.shutdown = "done"
      /\ keptConsumer' = 0 /\ UNCHANGED <<isRunning, monitored, starter, handled>>
  BY DEF ShutDown, eventVars
<1>2. Stage
  BY <1>1 DEF FlagInv
<1>3. PICK k \in Checks :
         /\ \A j \in Checks : j # k => Waits(j)
         /\ ~Waits(k) /\ starter[k].pc = "stopping" /\ ~isRunning
         /\ \A d \in ConsumerIds : d # keptConsumer => Idle(d)
  BY <1>1, <1>2 DEF Stage
<1>4. \A d \in ConsumerIds : Idle(d)'
  <2>1. \A d \in ConsumerIds : consumer'[d] = IF d = keptConsumer
            THEN [consumer[d] EXCEPT !.st = "closed"] ELSE consumer[d]
    BY DEF ShutDown
  <2>2. \A d \in ConsumerIds : consumer[d] \in ConsumerState
    BY ConsumerTypes DEF FlagInv
  <2>3. QED
    BY <1>3, <2>1, <2>2 DEF Idle, ConsumerState
<1>5. LiveConsumers' = {}
  BY <1>4 DEF LiveConsumers, Idle
<1>6. OneConsumer' /\ HandledOnce'
  BY <1>1, <1>5, HandledStays DEF OneConsumer
<1>7. Starts(k)'
  BY <1>1, <1>3, <1>4 DEF Starts
<1>8. Stage'
  <2>1. starter'[Boot].pc = "started" /\ ~monitored'
    BY <1>1, <1>2 DEF Stage
  <2>2. ~Waits(k)' /\ \A j \in Checks : j # k => Waits(j)'
    BY <1>1, <1>3 DEF Waits
  <2>3. QED
    BY <1>1, <1>7, <2>1, <2>2 DEF Stage
<1>9. QED
  BY <1>6, <1>8

LEMMA StoppedQuiet == ASSUME FlagInv, NEW k \in Checks, Stopped(k) PROVE Quiet'
<1> SUFFICES ASSUME ~crossed' PROVE OneConsumer' /\ HandledOnce' /\ (~ServerEnded' => Stage')
  BY DEF Quiet
<1>1. /\ ~crossed /\ ~ServerEnded /\ manager.shutdown = "done" /\ starter[k].pc = "stopping"
      /\ UNCHANGED <<isRunning, monitored, manager, consumer, keptConsumer, handled>>
      /\ starter' = [starter EXCEPT ![k].pc = "pause"]
  BY DEF Stopped, eventVars
<1>2. Stage /\ OneConsumer
  BY <1>1 DEF FlagInv
<1>3. starter'[k].pc = "pause" /\ \A t \in Starters : t # k => starter'[t] = starter[t]
  BY <1>1, ConsumerTypes DEF FlagInv, Starters, StarterState
<1>4. Starts(k) /\ \A j \in Checks : j # k => Waits(j)
  BY <1>1, <1>2 DEF Stage, Waits
<1>5. Starts(k)'
  BY <1>1, <1>3, <1>4 DEF Starts, Idle
<1>6. LiveConsumers' = LiveConsumers
  BY <1>1 DEF LiveConsumers
<1>7. OneConsumer' /\ HandledOnce'
  BY <1>1, <1>2, <1>6, HandledStays DEF OneConsumer
<1>8. Stage'
  <2>1. starter'[Boot].pc = "started" /\ ~monitored'
    BY <1>1, <1>2, <1>3, ConsumerAssumption DEF Stage, Starters
  <2>2. ~Waits(k)' /\ \A j \in Checks : j # k => Waits(j)'
    BY <1>3, <1>4 DEF Waits, Starters
  <2>3. QED
    BY <1>1, <1>5, <2>1, <2>2 DEF Stage
<1>9. QED
  BY <1>7, <1>8

\* A consumer that lives handles the next event, once, or crashes.
LEMMA LiveStepQuiet ==
    ASSUME FlagInv, NEW c \in ConsumerIds, Handle(c) \/ ConsumerCrashes(c) PROVE Quiet'
<1> SUFFICES ASSUME ~crossed' PROVE OneConsumer' /\ HandledOnce' /\ (~ServerEnded' => Stage')
  BY DEF Quiet
<1>1. /\ ~crossed /\ ~ServerEnded /\ consumer[c].st = "live"
      /\ UNCHANGED <<isRunning, monitored, manager, keptConsumer, starter>>
  BY DEF Handle, ConsumerCrashes
<1>2. Stage /\ OneConsumer /\ HandledOnce
  BY <1>1 DEF FlagInv
<1>3. /\ \A d \in ConsumerIds : d # c => consumer'[d] = consumer[d]
      /\ consumer'[c].st \in {"live", "closed"}
  BY <1>1, ConsumerTypes DEF FlagInv, Handle, ConsumerCrashes, ConsumerState
<1>4. c \in LiveConsumers /\ LiveConsumers' \subseteq LiveConsumers
  BY <1>1, <1>3 DEF LiveConsumers
<1>5. OneConsumer'
  BY <1>1, <1>2, <1>4 DEF OneConsumer
<1>6. HandledOnce'
  <2>1. CASE ConsumerCrashes(c)
    <3>1. UNCHANGED handled /\ consumer'[c].st = "closed"
      BY <2>1, ConsumerTypes DEF ConsumerCrashes, eventVars, FlagInv, ConsumerState
    <3>2. \A d \in LiveConsumers' : d \in LiveConsumers /\ consumer'[d].next = consumer[d].next
      BY <1>3, <1>4, <3>1 DEF LiveConsumers
    <3>3. QED
      BY <1>1, <3>1, <3>2, HandledStays
  <2>2. CASE Handle(c)
    <3> DEFINE n == consumer[c].next
    <3>1. n \in EventIds /\ n \in Nat
      BY <2>2, ConsumerTypes, ConsumerAssumption DEF Handle, FlagInv, ConsumerState, EventIds
    <3>2. consumer'[c].next = n + 1 /\ handled' = [handled EXCEPT ![n] = @ + 1]
      BY <2>2, ConsumerTypes DEF Handle, FlagInv, ConsumerState
    <3>3. handled[n] = 0
      <4>1. ~(handled[n] > 0)
        BY <1>2, <1>4, <3>1 DEF HandledOnce
      <4>2. handled[n] \in Nat
        BY <3>1, ConsumerTypes DEF FlagInv
      <4>3. QED
        BY <4>1, <4>2
    <3> HIDE DEF n
    <3>4. handled'[n] = 1 /\ \A m \in EventIds : m # n => handled'[m] = handled[m]
      BY <3>1, <3>2, <3>3, ConsumerTypes DEF FlagInv
    <3>5. \A d \in LiveConsumers' : d = c
      BY <1>2, <1>4 DEF OneConsumer
    <3>6. ASSUME NEW m \in EventIds PROVE handled'[m] <= 1 /\ (handled'[m] > 0 => m < n + 1)
      <4>1. CASE m = n
        BY <3>1, <3>4, <4>1
      <4>2. CASE m # n
        <5>1. handled'[m] = handled[m] /\ handled[m] <= 1 /\ (handled[m] > 0 => m < n)
          BY <1>2, <1>4, <3>4, <4>2 DEF HandledOnce, n
        <5>2. m \in Nat
          BY DEF EventIds
        <5>3. QED
          BY <3>1, <5>1, <5>2
      <4>3. QED
        BY <4>1, <4>2
    <3>7. QED
      BY <3>2, <3>5, <3>6 DEF HandledOnce
  <2>3. QED
    BY <2>1, <2>2
<1>7. ASSUME NEW s \in Starters, Starts(s) PROVE Starts(s)'
  <2>1. starter[s].pc = "started" /\ c = starter[s].made
    <3>1. starter[s] \in StarterState
      BY ConsumerTypes DEF FlagInv
    <3>2. QED
      BY <1>1, <1>7, <3>1 DEF Starts, Idle, StarterState
  <2>2. QED
    BY <1>1, <1>3, <1>7, <2>1 DEF Starts, Idle
<1>8. Stage'
  <2>1. CASE manager.shutdown = "no"
    BY <1>1, <1>2, <1>7, <2>1 DEF Stage, Waits, Starters
  <2>2. CASE manager.shutdown # "no"
    <3>1. PICK k \in Checks :
             /\ \A j \in Checks : j # k => Waits(j)
             /\ ~Waits(k)
             /\ IF manager.shutdown = "done" THEN Starts(k)
                ELSE /\ starter[k].pc = "stopping" /\ ~isRunning
                     /\ \A d \in ConsumerIds : d # keptConsumer => Idle(d)
      BY <1>2, <2>2 DEF Stage
    <3>2. /\ starter'[Boot].pc = "started" /\ ~monitored' /\ manager'.shutdown # "no"
          /\ \A j \in Checks : j # k => Waits(j)'
          /\ ~Waits(k)'
      BY <1>1, <1>2, <2>2, <3>1 DEF Stage, Waits
    <3>3. IF manager'.shutdown = "done" THEN Starts(k)'
          ELSE /\ starter'[k].pc = "stopping" /\ ~isRunning'
               /\ \A d \in ConsumerIds : d # keptConsumer' => Idle(d)'
      <4>1. CASE manager.shutdown = "done"
        BY <1>1, <1>7, <3>1, <4>1 DEF Starters
      <4>2. CASE manager.shutdown # "done"
        <5>1. c = keptConsumer
          BY <1>1, <3>1, <4>2 DEF Idle
        <5>2. QED
          BY <1>1, <1>3, <3>1, <4>2, <5>1 DEF Idle
      <4>3. QED
        BY <4>1, <4>2
    <3>4. QED
      BY <3>2, <3>3 DEF Stage
  <2>3. QED
    BY <2>1, <2>2
<1>9. QED
  BY <1>5, <1>6, <1>8

LEMMA ConsumerSameQuiet ==
    ASSUME FlagInv, UNCHANGED <<isRunning, monitored, manager, consumer, keptConsumer, starter,
                                handled, crossed>>
    PROVE  Quiet'
<1>1. Quiet
  BY DEF FlagInv, Quiet
<1>2. LiveConsumers' = LiveConsumers
  BY DEF LiveConsumers
<1>3. OneConsumer => OneConsumer'
  BY <1>2 DEF OneConsumer
<1>4. HandledOnce => HandledOnce'
  BY <1>2 DEF HandledOnce
<1>5. Stage => Stage'
  BY DEF Stage, Starts, Waits, Idle
<1>6. QED
  BY <1>1, <1>3, <1>4, <1>5 DEF Quiet, ServerEnded

LEMMA ConsumerNextInv == FlagInv /\ [ConsumerNext]_consumerVars => FlagInv'
<1> SUFFICES ASSUME FlagInv, [ConsumerNext]_consumerVars PROVE FlagInv'
  OBVIOUS
<1>1. ASSUME UNCHANGED consumerVars \/ EventAppended PROVE Quiet'
  <2>1. UNCHANGED <<isRunning, monitored, manager, consumer, keptConsumer, starter, handled,
                    crossed>>
    BY <1>1 DEF consumerVars, eventVars, EventAppended
  <2>2. QED
    BY <2>1, ConsumerSameQuiet
<1>2. Quiet'
  BY <1>1, StartQuiet, ConnectedQuiet, JoinQuiet, StartFailsQuiet, ManagerConnectsQuiet, AskQuiet,
     UnhealthyQuiet, ShutDownQuiet, StoppedQuiet, LiveStepQuiet DEF ConsumerNext, StartProceeds
<1>3. QED
  BY <1>2, ConsumerTypeNext DEF FlagInv, Quiet

(* Until restarts cross, the flag of the service tells the truth about its *)
(* consumers, two never live together, and an event is handled once at     *)
(* most: for any number of checks, restarts, consumers, events and faults. *)
THEOREM FlagTellsTheTruth == ConsumerSpec => []FlagIsTrue
<1>1. FlagInv => FlagIsTrue
  <2> SUFFICES ASSUME FlagInv, ~crossed
               PROVE  /\ Cardinality(LiveConsumers) <= 1
                      /\ LiveConsumers # {} => isRunning \/ manager.shutdown = "underway"
                      /\ \A n \in EventIds : handled[n] <= 1
    BY DEF FlagIsTrue
  <2>1. OneConsumer /\ HandledOnce
    BY DEF FlagInv
  <2>2. LiveConsumers = {} \/ \E c : LiveConsumers = {c}
    BY <2>1 DEF OneConsumer
  <2>3. Cardinality(LiveConsumers) \in {0, 1}
    BY <2>2, FS_EmptySet, FS_Singleton, Zenon
  <2>4. QED
    BY <2>1, <2>3 DEF OneConsumer, HandledOnce
<1>2. QED
  BY <1>1, ConsumerInitInv, ConsumerNextInv, PTL DEF ConsumerSpec

-----------------------------------------------------------------------------
(* The live feed of the page.                                              *)

FeedSockets ==
    [st : {"none", "opening", "open", "closed"},
     server : {"none", "pending", "verify", "register", "client", "unserved", "over"},
     subs : SUBSET FeedChannels, up : Seq(Requests), down : Seq(Replies)]

Mentions(m, h) == m.op # "authenticate" /\ m.channel = h
Silent(q, h) == \A i \in 1..Len(q) : ~Mentions(q[i], h)
NoAuth(q) == \A i \in 1..Len(q) : q[i].op # "authenticate"

\* The last message about a channel, if there is one, says whether it is wanted.
LastAgrees(q, h, w) ==
    \A i \in 1..Len(q) :
        Mentions(q[i], h) /\ (\A j \in 1..Len(q) : j > i => ~Mentions(q[j], h))
            => (q[i].op = "subscribe" <=> h \in w)

\* Before the client resubscribes, messages may be lost: nothing is served too
\* much.  After it, what is served is what is wanted, once all has arrived.
Early(f, w) ==
    \A h \in FeedChannels :
        LastAgrees(f.up, h, w) /\ (Silent(f.up, h) /\ h \in f.subs => h \in w)
UpToDate(f, w, o) ==
    \A h \in FeedChannels \ o :
        LastAgrees(f.up, h, w) /\ (Silent(f.up, h) => (h \in f.subs <=> h \in w))

\* How far a socket has got: somebody listens for the answer to authenticate.
SocketStage(f, w, o, listening) ==
    IF f.st # "open" THEN f = [NoSocket EXCEPT !.st = f.st]
    ELSE /\ f.server # "none"
         /\ f.server \in {"pending", "verify", "register"} => f.subs = {} /\ Early(f, w)
         /\ f.server = "pending" =>
               \/ f.down = <<"auth_required">> /\ NoAuth(f.up)
               \/ f.down = <<>> /\ (listening \/ NoAuth(f.up))
         /\ f.server \in {"verify", "register"} => f.down = <<>> /\ listening
         /\ f.server = "unserved" => f.down = <<>>
         /\ f.server = "client" =>
               \/ f.down = <<"auth_success">> /\ listening /\ Early(f, w)
               \/ f.down = <<>> /\ UpToDate(f, w, o)
         /\ f.server = "over" => \A i \in 1..Len(f.down) : f.down[i] # "auth_success"

FeedTypes ==
    /\ feedSocket \in [SocketIds -> FeedSockets] /\ currentSocket \in 0..MaxFeedSockets
    /\ feedStatus \in {"disconnected", "connecting", "connected"} /\ paralleled \in BOOLEAN
    /\ authAttempt \in [pending : BOOLEAN, listening : BOOLEAN]
    /\ wanted \subseteq FeedChannels /\ overtaken \subseteq FeedChannels
    /\ offlineQueue \in Seq(Requests)

FeedStages ==
    /\ Alive \subseteq {currentSocket}
    /\ \A s \in SocketIds : SocketStage(feedSocket[s], wanted, overtaken, authAttempt.listening)

FeedQueue ==
    /\ NoAuth(offlineQueue)
    /\ \A h \in FeedChannels \ overtaken : LastAgrees(offlineQueue, h, wanted)

FeedSays == feedStatus = "connected" => ServerIs(currentSocket, "client")

FeedInv == FeedTypes /\ (~paralleled => FeedStages /\ FeedQueue /\ FeedSays)

LEMMA FeedInvIsEnough == FeedInv => FeedCarriesWhatIsWanted
<1> SUFFICES ASSUME FeedInv, ~paralleled
             PROVE  /\ \A s \in SocketIds : Settled(s) =>
                          s = currentSocket /\ feedSocket[s].subs \ overtaken = wanted \ overtaken
                    /\ feedStatus = "connected" => ServerIs(currentSocket, "client")
  BY DEF FeedCarriesWhatIsWanted
<1>1. ASSUME NEW s \in SocketIds, Settled(s)
      PROVE  s = currentSocket /\ feedSocket[s].subs \ overtaken = wanted \ overtaken
  <2> DEFINE f == feedSocket[s]
  <2>1. f.st = "open" /\ f.server = "client" /\ f.up = <<>> /\ f.down = <<>> /\ f \in FeedSockets
    BY <1>1 DEF Settled, ServerIs, IsOpen, FeedInv, FeedTypes
  <2>2. s = currentSocket
    BY <2>1 DEF FeedInv, FeedStages, Alive
  <2>3. UpToDate(f, wanted, overtaken)
    <3>1. SocketStage(f, wanted, overtaken, authAttempt.listening)
      BY DEF FeedInv, FeedStages
    <3> HIDE DEF f
    <3>2. f.down = <<"auth_success">> \/ UpToDate(f, wanted, overtaken)
      BY <2>1, <3>1 DEF SocketStage
    <3>3. <<"auth_success">> # <<>>
      OBVIOUS
    <3>4. QED
      BY <2>1, <3>2, <3>3
  <2>4. \A h \in FeedChannels \ overtaken : h \in f.subs <=> h \in wanted
    BY <2>1, <2>3 DEF UpToDate, Silent
  <2>5. f.subs \subseteq FeedChannels /\ wanted \subseteq FeedChannels
    BY <2>1 DEF FeedSockets, FeedInv, FeedTypes
  <2>6. QED
    BY <2>2, <2>4, <2>5
<1>2. QED
  BY <1>1 DEF FeedInv, FeedSays

-----------------------------------------------------------------------------
(* The messages.                                                           *)

\* A message for every channel of a set, and no other.
LEMMA SubscriptionsAre ==
    ASSUME NEW op \in {"subscribe", "unsubscribe"}, NEW S \in SUBSET FeedChannels
    PROVE  /\ Subscriptions(op, S) \in Seq(Requests)
           /\ \A i \in 1..Len(Subscriptions(op, S)) :
                 Subscriptions(op, S)[i].op = op /\ Subscriptions(op, S)[i].channel \in S
           /\ \A h \in S : \E i \in 1..Len(Subscriptions(op, S)) : Subscriptions(op, S)[i].channel = h
<1> DEFINE n == Cardinality(S)
           All(q) == \A h \in S : \E i \in 1..n : q[i].channel = h
           Q == [1..n -> [op : {op}, channel : S]]
<1>1. n \in Nat /\ ExistsBijection(1..n, S)
  BY FeedAssumption, FS_Subset, FS_CardinalityType
<1>2. PICK b \in [1..n -> S] : \A h \in S : \E i \in 1..n : b[i] = h
  BY <1>1 DEF ExistsBijection, Bijection, Surjection, Injection
<1> HIDE DEF n
<1>3. \E q \in Q : All(q)
  <2> DEFINE q == [i \in 1..n |-> [op |-> op, channel |-> b[i]]]
  <2>1. q \in Q
    BY <1>2
  <2>2. All(q)
    BY <1>2
  <2>3. QED
    BY <2>1, <2>2
<1>4. Subscriptions(op, S) = CHOOSE q \in Q : All(q)
  BY DEF Subscriptions, n
<1>5. Subscriptions(op, S) \in Q /\ All(Subscriptions(op, S))
  BY <1>3, <1>4
<1> DEFINE r == Subscriptions(op, S)
<1> HIDE DEF r
<1>6. r \in Q /\ All(r)
  BY <1>5 DEF r
<1>7. \A m \in [op : {op}, channel : S] : m \in Requests
  BY DEF Requests
<1>8. r \in Seq(Requests) /\ Len(r) = n
  BY <1>1, <1>6, <1>7
<1>9. QED
  BY <1>6, <1>8 DEF r

\* What two sequences say one after the other.
LEMMA SaidInTurn ==
    ASSUME NEW q \in Seq(Requests), NEW r \in Seq(Requests), NEW h, NEW w,
           LastAgrees(r, h, w), Silent(r, h) => LastAgrees(q, h, w)
    PROVE  LastAgrees(q \o r, h, w)
<1> DEFINE t == q \o r
<1>1. /\ Len(t) = Len(q) + Len(r) /\ Len(q) \in Nat /\ Len(r) \in Nat
      /\ \A i \in 1..Len(q) : t[i] = q[i]
      /\ \A i \in 1..Len(r) : t[i + Len(q)] = r[i]
  OBVIOUS
<1> HIDE DEF t
<1> SUFFICES ASSUME NEW i \in 1..Len(t), Mentions(t[i], h),
                    \A j \in 1..Len(t) : j > i => ~Mentions(t[j], h)
             PROVE  t[i].op = "subscribe" <=> h \in w
  BY DEF LastAgrees, t
<1>2. CASE i <= Len(q)
  <2>1. \A j \in 1..Len(r) : ~Mentions(r[j], h)
    <3> TAKE j \in 1..Len(r)
    <3>1. j + Len(q) \in 1..Len(t) /\ j + Len(q) > i
      BY <1>1, <1>2
    <3>2. QED
      BY <1>1, <3>1
  <2>2. \A j \in 1..Len(q) : j > i => ~Mentions(q[j], h)
    BY <1>1
  <2>3. i \in 1..Len(q) /\ t[i] = q[i]
    BY <1>1, <1>2
  <2>4. LastAgrees(q, h, w)
    BY <2>1 DEF Silent
  <2>5. QED
    BY <2>2, <2>3, <2>4 DEF LastAgrees
<1>3. CASE i > Len(q)
  <2>1. PICK k \in 1..Len(r) : i = k + Len(q)
    <3>1. i - Len(q) \in 1..Len(r) /\ i = (i - Len(q)) + Len(q)
      BY <1>1, <1>3
    <3>2. QED
      BY <3>1
  <2>2. \A j \in 1..Len(r) : j > k => ~Mentions(r[j], h)
    <3> TAKE j \in 1..Len(r)
    <3> HAVE j > k
    <3>1. j + Len(q) \in 1..Len(t) /\ j + Len(q) > i
      BY <1>1, <2>1
    <3>2. QED
      BY <1>1, <3>1
  <2>3. QED
    BY <1>1, <2>1, <2>2 DEF LastAgrees
<1>4. QED
  BY <1>1, <1>2, <1>3

LEMMA SilentInTurn ==
    ASSUME NEW q \in Seq(Requests), NEW r \in Seq(Requests), NEW h
    PROVE  Silent(q \o r, h) <=> Silent(q, h) /\ Silent(r, h)
<1> DEFINE t == q \o r
<1>1. /\ Len(t) = Len(q) + Len(r) /\ Len(q) \in Nat /\ Len(r) \in Nat
      /\ \A i \in 1..Len(q) : t[i] = q[i] /\ i \in 1..Len(t)
      /\ \A i \in 1..Len(r) : t[i + Len(q)] = r[i] /\ i + Len(q) \in 1..Len(t)
      /\ \A i \in 1..Len(t) : i > Len(q) => i - Len(q) \in 1..Len(r) /\ t[i] = r[i - Len(q)]
  OBVIOUS
<1> HIDE DEF t
<1>2. ASSUME Silent(t, h) PROVE Silent(q, h) /\ Silent(r, h)
  BY <1>1, <1>2 DEF Silent
<1>3. ASSUME Silent(q, h), Silent(r, h), NEW i \in 1..Len(t) PROVE ~Mentions(t[i], h)
  <2>1. CASE i <= Len(q)
    BY <1>1, <1>3, <2>1 DEF Silent
  <2>2. CASE i > Len(q)
    BY <1>1, <1>3, <2>2 DEF Silent
  <2>3. QED
    BY <1>1, <2>1, <2>2
<1>4. Silent(q, h) /\ Silent(r, h) => Silent(t, h)
  BY <1>3 DEF Silent
<1>5. QED
  BY <1>2, <1>4 DEF t

\* The next message is taken.
LEMMA TakenInTurn ==
    ASSUME NEW q \in Seq(Requests), q # <<>>, NEW h, NEW w
    PROVE  /\ Tail(q) \in Seq(Requests) /\ Head(q) \in Requests
           /\ LastAgrees(q, h, w) => LastAgrees(Tail(q), h, w)
           /\ Silent(q, h) <=> ~Mentions(Head(q), h) /\ Silent(Tail(q), h)
           /\ LastAgrees(q, h, w) /\ Mentions(Head(q), h) /\ Silent(Tail(q), h)
                 => (Head(q).op = "subscribe" <=> h \in w)
           /\ NoAuth(q) => NoAuth(Tail(q)) /\ Head(q).op # "authenticate"
<1> DEFINE t == Tail(q)
<1>1. /\ t \in Seq(Requests) /\ Head(q) \in Requests /\ Len(q) \in Nat
      /\ Len(t) = Len(q) - 1 /\ Len(q) > 0 /\ Head(q) = q[1] /\ 1 \in 1..Len(q)
      /\ \A i \in 1..Len(t) : t[i] = q[i + 1] /\ i + 1 \in 1..Len(q)
      /\ \A i \in 1..Len(q) : i > 1 => i - 1 \in 1..Len(t) /\ t[i - 1] = q[i]
  OBVIOUS
<1> HIDE DEF t
<1>2. LastAgrees(q, h, w) => LastAgrees(t, h, w)
  <2> SUFFICES ASSUME LastAgrees(q, h, w), NEW i \in 1..Len(t), Mentions(t[i], h),
                      \A j \in 1..Len(t) : j > i => ~Mentions(t[j], h)
               PROVE  t[i].op = "subscribe" <=> h \in w
    BY DEF LastAgrees
  <2>1. \A j \in 1..Len(q) : j > i + 1 => ~Mentions(q[j], h)
    <3> TAKE j \in 1..Len(q)
    <3> HAVE j > i + 1
    <3>1. j - 1 \in 1..Len(t) /\ t[j - 1] = q[j] /\ j - 1 > i
      BY <1>1
    <3>2. QED
      BY <3>1
  <2>2. QED
    BY <1>1, <2>1 DEF LastAgrees
<1>3. Silent(q, h) <=> ~Mentions(Head(q), h) /\ Silent(t, h)
  BY <1>1 DEF Silent
<1>4. LastAgrees(q, h, w) /\ Mentions(Head(q), h) /\ Silent(t, h) => (Head(q).op = "subscribe" <=> h \in w)
  BY <1>1 DEF LastAgrees, Silent
<1>5. ASSUME NoAuth(q) PROVE NoAuth(t) /\ Head(q).op # "authenticate"
  <2>1. \A i \in 1..Len(q) : q[i].op # "authenticate"
    BY <1>5 DEF NoAuth
  <2>2. ASSUME NEW i \in 1..Len(t) PROVE t[i].op # "authenticate"
    <3>1. t[i] = q[i + 1] /\ i + 1 \in 1..Len(q)
      BY <1>1
    <3>2. QED
      BY <2>1, <3>1
  <2>3. QED
    BY <1>1, <2>1, <2>2 DEF NoAuth
<1>6. QED
  BY <1>1, <1>2, <1>3, <1>4, <1>5 DEF t

-----------------------------------------------------------------------------
(* One socket at a time.                                                   *)

\* Sockets that are not open say nothing, whatever is wanted.
LEMMA ClosedStage ==
    ASSUME NEW f, NEW w, NEW o, NEW l, NEW w2, NEW o2, NEW l2,
           f.st # "open", SocketStage(f, w, o, l)
    PROVE  SocketStage(f, w2, o2, l2)
BY DEF SocketStage

LEMMA OneSocketMoves ==
    ASSUME FeedTypes, ~paralleled => FeedStages, NEW s \in SocketIds, NEW g \in FeedSockets,
           feedSocket' = [feedSocket EXCEPT ![s] = g],
           ~paralleled' => /\ ~paralleled /\ Alive \subseteq {s}
                           /\ g.st \in {"opening", "open"} => s = currentSocket'
                           /\ SocketStage(g, wanted', overtaken', authAttempt'.listening)
    PROVE  feedSocket' \in [SocketIds -> FeedSockets] /\ (~paralleled' => FeedStages')
<1>1. /\ feedSocket' \in [SocketIds -> FeedSockets] /\ feedSocket'[s] = g
      /\ \A t \in SocketIds : t # s => feedSocket'[t] = feedSocket[t]
  BY DEF FeedTypes
<1>2. ASSUME ~paralleled' PROVE FeedStages'
  <2>1. \A t \in SocketIds : t # s => feedSocket[t].st \notin {"opening", "open"}
    BY <1>2 DEF Alive
  <2>2. Alive' \subseteq {currentSocket'}
    BY <1>1, <1>2, <2>1 DEF Alive
  <2>3. ASSUME NEW t \in SocketIds
        PROVE  SocketStage(feedSocket'[t], wanted', overtaken', authAttempt'.listening)
    <3>1. CASE t = s
      BY <1>1, <1>2, <3>1
    <3>2. CASE t # s
      <4>1. /\ feedSocket'[t] = feedSocket[t] /\ feedSocket[t].st # "open"
            /\ SocketStage(feedSocket[t], wanted, overtaken, authAttempt.listening)
        BY <1>1, <1>2, <2>1, <3>2 DEF FeedStages
      <4>2. QED
        BY <4>1, ClosedStage
    <3>3. QED
      BY <3>1, <3>2
  <2>4. QED
    BY <2>2, <2>3 DEF FeedStages
<1>3. QED
  BY <1>1, <1>2

\* What the server does to the current socket.
LEMMA ServerMoves ==
    ASSUME FeedInv, NEW s \in SocketIds, s \in Alive, NEW g \in FeedSockets,
           feedSocket' = [feedSocket EXCEPT ![s] = g],
           UNCHANGED clientVars \/ UNCHANGED <<currentSocket, feedStatus, authAttempt, wanted,
                                               offlineQueue, paralleled, overtaken>>,
           ~paralleled => SocketStage(g, wanted, overtaken, authAttempt.listening),
           IsOpen(s) /\ feedSocket[s].server = "client" => g.st = "open" /\ g.server = "client"
    PROVE  FeedInv'
<1>1. UNCHANGED <<currentSocket, feedStatus, authAttempt, wanted, offlineQueue, paralleled, overtaken>>
  BY DEF clientVars
<1>2. ~paralleled => Alive \subseteq {s} /\ s = currentSocket
  BY DEF FeedInv, FeedStages
<1>3. feedSocket' \in [SocketIds -> FeedSockets] /\ (~paralleled' => FeedStages')
  BY <1>1, <1>2, OneSocketMoves DEF FeedInv
<1>4. FeedTypes'
  BY <1>1, <1>3 DEF FeedInv, FeedTypes
<1>5. ~paralleled' => FeedQueue'
  BY <1>1 DEF FeedInv, FeedQueue
<1>6. ~paralleled' => FeedSays'
  <2> SUFFICES ASSUME ~paralleled, feedStatus = "connected" PROVE ServerIs(currentSocket, "client")'
    BY <1>1 DEF FeedSays
  <2>1. ServerIs(s, "client") /\ s = currentSocket'
    BY <1>1, <1>2 DEF FeedInv, FeedSays
  <2>2. g.st = "open" /\ g.server = "client" /\ s # 0
    BY <2>1 DEF ServerIs, IsOpen
  <2>3. feedSocket'[s] = g
    BY DEF FeedInv, FeedTypes
  <2>4. QED
    BY <2>1, <2>2, <2>3 DEF ServerIs, IsOpen
<1>7. QED
  BY <1>3, <1>4, <1>5, <1>6 DEF FeedInv

\* What a socket that is open is, and how far it has got.
LEMMA OpenSocket ==
    ASSUME FeedInv, NEW s \in SocketIds
    PROVE  /\ feedSocket[s] \in FeedSockets
           /\ IsOpen(s) <=> feedSocket[s].st = "open"
           /\ IsOpen(s) \/ feedSocket[s].st = "opening" => s \in Alive
           /\ ~paralleled => SocketStage(feedSocket[s], wanted, overtaken, authAttempt.listening)
BY DEF FeedInv, FeedTypes, IsOpen, Alive, FeedStages, SocketIds

LEMMA OpenedInv == ASSUME FeedInv, NEW s \in SocketIds, Opened(s) PROVE FeedInv'
<1> DEFINE f == feedSocket[s]
           g == [f EXCEPT !.st = "open", !.server = "pending", !.down = <<"auth_required">>]
<1>1. /\ f.st = "opening" /\ s \in Alive /\ f \in FeedSockets /\ ~IsOpen(s)
      /\ feedSocket' = [feedSocket EXCEPT ![s] = g] /\ UNCHANGED clientVars
  BY OpenSocket DEF Opened
<1>2. ~paralleled => f = [NoSocket EXCEPT !.st = f.st]
  BY <1>1 DEF FeedInv, FeedStages, SocketStage
<1> HIDE DEF f
<1>3. <<"auth_required">> \in Seq(Replies)
  BY DEF Replies
<1>4. /\ g \in FeedSockets /\ g.st = "open" /\ g.server = "pending" /\ g.down = <<"auth_required">>
      /\ g.up = f.up /\ g.subs = f.subs
  BY <1>1, <1>3 DEF FeedSockets
<1> HIDE DEF g
<1>5. ASSUME ~paralleled PROVE SocketStage(g, wanted, overtaken, authAttempt.listening)
  <2>1. g.up = <<>> /\ g.subs = {}
    BY <1>2, <1>4, <1>5 DEF NoSocket
  <2>2. Early(g, wanted) /\ NoAuth(g.up)
    BY <2>1 DEF Early, LastAgrees, NoAuth
  <2>3. QED
    BY <1>4, <2>1, <2>2 DEF SocketStage
<1>6. QED
  BY <1>1, <1>4, <1>5, ServerMoves

\* The server ends it: nothing it has said or says is a success.
LEMMA RefusedStage ==
    ASSUME NEW f \in FeedSockets, NEW w, NEW o, NEW l, SocketStage(f, w, o, l),
           f.st = "open", f.server \in {"pending", "verify"},
           NEW replies \in {<<"close">>, <<"auth_failed", "close">>},
           NEW g \in FeedSockets, g.st = "open", g.server = "over", g.down = f.down \o replies
    PROVE  SocketStage(g, w, o, l)
<1>1. f.down \in {<<>>, <<"auth_required">>}
  BY DEF SocketStage
<1>2. \A i \in 1..Len(g.down) : g.down[i] # "auth_success"
  <2>1. CASE f.down = <<>> /\ replies = <<"close">>
    BY <2>1
  <2>2. CASE f.down = <<>> /\ replies = <<"auth_failed", "close">>
    BY <2>2
  <2>3. CASE f.down = <<"auth_required">> /\ replies = <<"close">>
    BY <2>3
  <2>4. CASE f.down = <<"auth_required">> /\ replies = <<"auth_failed", "close">>
    BY <2>4
  <2>5. QED
    BY <1>1, <2>1, <2>2, <2>3, <2>4
<1>3. QED
  BY <1>2 DEF SocketStage

\* A refusal is put behind what the server has said.
LEMMA RefusalTyped ==
    ASSUME NEW f \in FeedSockets, NEW replies \in {<<"close">>, <<"auth_failed", "close">>}
    PROVE  f.down \o replies \in Seq(Replies)
<1>1. replies \in Seq(Replies)
  <2>1. <<"close">> \in Seq(Replies) /\ <<"auth_failed", "close">> \in Seq(Replies)
    BY DEF Replies
  <2>2. QED
    BY <2>1
<1>2. f.down \in Seq(Replies)
  BY DEF FeedSockets
<1>3. QED
  BY <1>1, <1>2

LEMMA TimesOutInv == ASSUME FeedInv, NEW s \in SocketIds, ServerTimesOut(s) PROVE FeedInv'
<1> DEFINE f == feedSocket[s]
           g == [f EXCEPT !.server = "over", !.down = f.down \o <<"close">>]
<1>1. /\ f.server \in {"pending", "verify"} /\ f.st = "open" /\ s \in Alive /\ f \in FeedSockets
      /\ feedSocket' = [feedSocket EXCEPT ![s] = g] /\ UNCHANGED clientVars
      /\ ~paralleled => SocketStage(f, wanted, overtaken, authAttempt.listening)
  BY OpenSocket DEF ServerTimesOut, Refusal
<1> HIDE DEF f
<1>2. g \in FeedSockets /\ g.st = "open" /\ g.server = "over" /\ g.down = f.down \o <<"close">>
  <2>1. f.down \o <<"close">> \in Seq(Replies)
    BY <1>1, RefusalTyped
  <2>2. QED
    BY <1>1, <2>1 DEF FeedSockets
<1> HIDE DEF g
<1>3. ~paralleled => SocketStage(g, wanted, overtaken, authAttempt.listening)
  BY <1>1, <1>2, RefusedStage
<1>4. QED
  BY <1>1, <1>2, <1>3, ServerMoves DEF f

LEMMA VerifiesInv == ASSUME FeedInv, NEW s \in SocketIds, ServerVerifies(s) PROVE FeedInv'
<1> DEFINE f == feedSocket[s]
           g == [f EXCEPT !.server = "over", !.down = f.down \o <<"auth_failed", "close">>]
           h == [f EXCEPT !.server = "register"]
<1>1. /\ f.server = "verify" /\ f.st = "open" /\ s \in Alive /\ f \in FeedSockets
      /\ feedSocket' = [feedSocket EXCEPT ![s] = g] \/ feedSocket' = [feedSocket EXCEPT ![s] = h]
      /\ UNCHANGED clientVars
      /\ ~paralleled => SocketStage(f, wanted, overtaken, authAttempt.listening)
  BY OpenSocket DEF ServerVerifies, ServerIs, Refusal
<1> HIDE DEF f
<1>2. CASE feedSocket' = [feedSocket EXCEPT ![s] = g]
  <2>1. /\ g \in FeedSockets /\ g.st = "open" /\ g.server = "over"
        /\ g.down = f.down \o <<"auth_failed", "close">>
    <3>1. f.down \o <<"auth_failed", "close">> \in Seq(Replies)
      BY <1>1, RefusalTyped
    <3>2. QED
      BY <1>1, <3>1 DEF FeedSockets
  <2> HIDE DEF g
  <2>2. ~paralleled => SocketStage(g, wanted, overtaken, authAttempt.listening)
    BY <1>1, <2>1, RefusedStage
  <2>3. QED
    BY <1>1, <1>2, <2>1, <2>2, ServerMoves DEF f
<1>3. CASE feedSocket' = [feedSocket EXCEPT ![s] = h]
  <2>1. /\ h \in FeedSockets /\ h.st = "open" /\ h.server = "register"
        /\ h.down = f.down /\ h.up = f.up /\ h.subs = f.subs
    BY <1>1 DEF FeedSockets
  <2> HIDE DEF h
  <2>2. ~paralleled => SocketStage(h, wanted, overtaken, authAttempt.listening)
    BY <1>1, <2>1 DEF SocketStage, Early
  <2>3. QED
    BY <1>1, <1>3, <2>1, <2>2, ServerMoves DEF f
<1>4. QED
  BY <1>1, <1>2, <1>3

LEMMA RegistersInv == ASSUME FeedInv, NEW s \in SocketIds, ServerRegisters(s) PROVE FeedInv'
<1> DEFINE f == feedSocket[s]
           g == [f EXCEPT !.server = "client", !.down = Append(f.down, "auth_success")]
<1>1. /\ f.server = "register" /\ f.st = "open" /\ s \in Alive /\ f \in FeedSockets
      /\ feedSocket' = [feedSocket EXCEPT ![s] = g] /\ UNCHANGED clientVars
      /\ ~paralleled => SocketStage(f, wanted, overtaken, authAttempt.listening)
  BY OpenSocket DEF ServerRegisters, ServerIs
<1> HIDE DEF f
<1>2. Append(f.down, "auth_success") \in Seq(Replies)
  BY <1>1 DEF FeedSockets, Replies
<1>3. /\ g \in FeedSockets /\ g.st = "open" /\ g.server = "client"
      /\ g.down = Append(f.down, "auth_success") /\ g.up = f.up /\ g.subs = f.subs
  BY <1>1, <1>2 DEF FeedSockets
<1> HIDE DEF g
<1>4. ASSUME ~paralleled PROVE SocketStage(g, wanted, overtaken, authAttempt.listening)
  <2>1. f.down = <<>> /\ authAttempt.listening /\ Early(f, wanted)
    BY <1>1, <1>4 DEF SocketStage
  <2>2. g.down = <<"auth_success">>
    BY <1>3, <2>1
  <2>3. Early(g, wanted)
    BY <1>3, <2>1 DEF Early
  <2>4. QED
    BY <1>3, <2>1, <2>2, <2>3 DEF SocketStage
<1>5. QED
  BY <1>1, <1>3, <1>4, ServerMoves DEF f

\* A socket nobody serves is told nothing.
LEMMA FailsToRegisterInv ==
    ASSUME FeedInv, NEW s \in SocketIds, ServerFailsToRegister(s) PROVE FeedInv'
<1> DEFINE f == feedSocket[s]
           g == [f EXCEPT !.server = "unserved"]
<1>1. /\ f.server = "register" /\ f.st = "open" /\ s \in Alive /\ f \in FeedSockets
      /\ feedSocket' = [feedSocket EXCEPT ![s] = g]
      /\ UNCHANGED <<currentSocket, feedStatus, authAttempt, wanted, offlineQueue, paralleled,
                     overtaken>>
      /\ ~paralleled => SocketStage(f, wanted, overtaken, authAttempt.listening)
  BY OpenSocket DEF ServerFailsToRegister, ServerIs
<1> HIDE DEF f
<1>2. g \in FeedSockets /\ g.st = "open" /\ g.server = "unserved" /\ g.down = f.down
  BY <1>1 DEF FeedSockets
<1> HIDE DEF g
<1>3. ASSUME ~paralleled PROVE SocketStage(g, wanted, overtaken, authAttempt.listening)
  BY <1>1, <1>2, <1>3 DEF SocketStage
<1>4. QED
  BY <1>1, <1>2, <1>3, ServerMoves DEF f

\* A message before the authentication is through.
LEMMA HearsPendingInv == ASSUME FeedInv, NEW s \in SocketIds, ServerHearsPending(s) PROVE FeedInv'
<1> DEFINE f == feedSocket[s]
           m == Head(f.up)
           rest == Tail(f.up)
           g == [f EXCEPT !.server = "verify", !.up = rest]
           r == [f EXCEPT !.server = "over", !.down = f.down \o <<"close">>]
           h == [r EXCEPT !.up = rest]
<1>1. /\ f.server \in {"pending", "verify"} /\ f.st = "open" /\ s \in Alive /\ f \in FeedSockets
      /\ f.up # <<>> /\ f.up \in Seq(Requests) /\ UNCHANGED clientVars
      /\ ~paralleled => SocketStage(f, wanted, overtaken, authAttempt.listening)
  BY OpenSocket DEF ServerHearsPending, Arrived, FeedSockets
<1>2. feedSocket' = IF m = AuthMessage THEN [feedSocket EXCEPT ![s] = g]
                    ELSE [feedSocket EXCEPT ![s] = h]
  BY DEF ServerHearsPending, Refusal
<1> HIDE DEF f
<1>3. rest \in Seq(Requests) /\ m \in Requests
  BY <1>1, TakenInTurn
<1>4. CASE m = AuthMessage
  <2>1. /\ g \in FeedSockets /\ g.st = "open" /\ g.server = "verify" /\ g.down = f.down
        /\ g.up = rest /\ g.subs = f.subs
    BY <1>1, <1>3 DEF FeedSockets
  <2> HIDE DEF g
  <2>2. ASSUME ~paralleled PROVE SocketStage(g, wanted, overtaken, authAttempt.listening)
    <3>1. m.op = "authenticate"
      BY <1>4 DEF AuthMessage
    <3>2. ~NoAuth(f.up)
      BY <1>1, <3>1, TakenInTurn
    <3>3. f.down = <<>> /\ authAttempt.listening /\ f.subs = {} /\ Early(f, wanted)
      BY <1>1, <2>2, <3>2 DEF SocketStage
    <3>4. \A k \in FeedChannels : LastAgrees(rest, k, wanted)
      BY <1>1, <3>3, TakenInTurn DEF Early
    <3>5. Early(g, wanted)
      BY <2>1, <3>3, <3>4 DEF Early
    <3>6. QED
      BY <2>1, <3>3, <3>5 DEF SocketStage
  <2>3. QED
    BY <1>1, <1>2, <1>4, <2>1, <2>2, ServerMoves DEF f
<1>5. CASE m # AuthMessage
  <2>1. f.down \o <<"close">> \in Seq(Replies)
    BY <1>1, RefusalTyped
  <2>2. h \in FeedSockets /\ h.st = "open" /\ h.server = "over" /\ h.down = f.down \o <<"close">>
    BY <1>1, <1>3, <2>1 DEF FeedSockets
  <2> HIDE DEF h
  <2>3. ~paralleled => SocketStage(h, wanted, overtaken, authAttempt.listening)
    BY <1>1, <2>2, RefusedStage
  <2>4. QED
    BY <1>1, <1>2, <1>5, <2>2, <2>3, ServerMoves DEF f
<1>6. QED
  BY <1>4, <1>5

LEMMA HearsNothingInv == ASSUME FeedInv, NEW s \in SocketIds, ServerHearsNothing(s) PROVE FeedInv'
<1> DEFINE f == feedSocket[s]
           rest == Tail(f.up)
           g == [f EXCEPT !.up = rest]
<1>1. /\ f.server \in {"register", "unserved"} /\ f.st = "open" /\ s \in Alive /\ f \in FeedSockets
      /\ f.up # <<>> /\ f.up \in Seq(Requests) /\ UNCHANGED clientVars
      /\ feedSocket' = [feedSocket EXCEPT ![s] = g]
      /\ ~paralleled => SocketStage(f, wanted, overtaken, authAttempt.listening)
  BY OpenSocket DEF ServerHearsNothing, ServerIs, Arrived, FeedSockets
<1> HIDE DEF f
<1>2. rest \in Seq(Requests)
  BY <1>1, TakenInTurn
<1>3. /\ g \in FeedSockets /\ g.st = "open" /\ g.server = f.server /\ g.down = f.down
      /\ g.up = rest /\ g.subs = f.subs
  BY <1>1, <1>2 DEF FeedSockets
<1> HIDE DEF g
<1>4. ASSUME ~paralleled PROVE SocketStage(g, wanted, overtaken, authAttempt.listening)
  <2> SUFFICES ASSUME f.server = "register"
               PROVE  SocketStage(g, wanted, overtaken, authAttempt.listening)
    BY <1>1, <1>3, <1>4 DEF SocketStage
  <2>1. f.down = <<>> /\ authAttempt.listening /\ f.subs = {} /\ Early(f, wanted)
    BY <1>1, <1>4 DEF SocketStage
  <2>2. \A k \in FeedChannels : LastAgrees(rest, k, wanted)
    BY <1>1, <2>1, TakenInTurn DEF Early
  <2>3. Early(g, wanted)
    BY <1>3, <2>1, <2>2 DEF Early
  <2>4. QED
    BY <1>3, <2>1, <2>3 DEF SocketStage
<1>5. QED
  BY <1>1, <1>3, <1>4, ServerMoves DEF f

\* The server takes the next message at its word.
LEMMA ServesInv == ASSUME FeedInv, NEW s \in SocketIds, ServerServes(s) PROVE FeedInv'
<1> DEFINE f == feedSocket[s]
           m == Head(f.up)
           rest == Tail(f.up)
           subs == IF m.op = "subscribe" THEN f.subs \cup {m.channel}
                   ELSE IF m.op = "unsubscribe" THEN f.subs \ {m.channel} ELSE f.subs
           g == [f EXCEPT !.up = rest, !.subs = subs]
<1>1. /\ f.server = "client" /\ f.st = "open" /\ s \in Alive /\ f \in FeedSockets
      /\ f.up # <<>> /\ f.up \in Seq(Requests) /\ f.subs \subseteq FeedChannels
      /\ UNCHANGED clientVars
      /\ ~paralleled => SocketStage(f, wanted, overtaken, authAttempt.listening)
  BY OpenSocket DEF ServerServes, ServerIs, Arrived, FeedSockets
<1>2. feedSocket' = [feedSocket EXCEPT ![s] = g]
  BY DEF ServerServes
<1> HIDE DEF f
<1>3. rest \in Seq(Requests) /\ m \in Requests
  BY <1>1, TakenInTurn
<1>4. \/ m.op \in {"subscribe", "unsubscribe"} /\ m.channel \in FeedChannels
      \/ m.op = "authenticate"
  BY <1>3 DEF Requests
<1>5. /\ subs \subseteq FeedChannels
      /\ \A k \in FeedChannels : ~Mentions(m, k) => (k \in subs <=> k \in f.subs)
      /\ \A k \in FeedChannels : Mentions(m, k) => (k \in subs <=> m.op = "subscribe")
  BY <1>1, <1>4 DEF Mentions
<1> HIDE DEF subs, m
<1>6. /\ g \in FeedSockets /\ g.st = "open" /\ g.server = "client" /\ g.down = f.down
      /\ g.up = rest /\ g.subs = subs
  BY <1>1, <1>3, <1>5 DEF FeedSockets
<1> HIDE DEF g
<1>7. ASSUME NEW k \in FeedChannels, LastAgrees(f.up, k, wanted)
      PROVE  /\ LastAgrees(rest, k, wanted)
             /\ Silent(rest, k) => \/ Silent(f.up, k) /\ (k \in subs <=> k \in f.subs)
                                   \/ k \in subs <=> k \in wanted
  <2>1. LastAgrees(rest, k, wanted)
    BY <1>1, <1>7, TakenInTurn
  <2>2. CASE Mentions(m, k)
    BY <1>1, <1>5, <1>7, <2>1, <2>2, TakenInTurn DEF m
  <2>3. CASE ~Mentions(m, k)
    BY <1>1, <1>5, <1>7, <2>1, <2>3, TakenInTurn DEF m
  <2>4. QED
    BY <2>2, <2>3
<1>8. ASSUME ~paralleled PROVE SocketStage(g, wanted, overtaken, authAttempt.listening)
  <2>1. \/ f.down = <<"auth_success">> /\ authAttempt.listening /\ Early(f, wanted)
        \/ f.down = <<>> /\ UpToDate(f, wanted, overtaken)
    BY <1>1, <1>8 DEF SocketStage
  <2>2. Early(f, wanted) => Early(g, wanted)
    BY <1>6, <1>7 DEF Early
  <2>3. UpToDate(f, wanted, overtaken) => UpToDate(g, wanted, overtaken)
    BY <1>6, <1>7 DEF UpToDate
  <2>4. QED
    BY <1>6, <2>1, <2>2, <2>3 DEF SocketStage
<1>9. QED
  BY <1>1, <1>2, <1>6, <1>8, ServerMoves DEF f

LEMMA FeedServerInv == ASSUME FeedInv, NEW s \in SocketIds, FeedServer(s) PROVE FeedInv'
BY OpenedInv, HearsPendingInv, HearsNothingInv, ServesInv, VerifiesInv, RegistersInv, TimesOutInv,
   FailsToRegisterInv
   DEF FeedServer

-----------------------------------------------------------------------------
(* The client's end.                                                       *)

LEMMA NewSocketInv ==
    ASSUME FeedInv, NewSocket, UNCHANGED <<authAttempt, wanted, offlineQueue, overtaken>>
    PROVE  FeedInv'
<1> PICK s \in Unmade :
        /\ feedSocket' = [feedSocket EXCEPT ![s].st = "opening"]
        /\ currentSocket' = s /\ feedStatus' = "connecting"
        /\ paralleled' = (paralleled \/ Alive # {})
  BY DEF NewSocket
<1> DEFINE f == feedSocket[s]
           g == [f EXCEPT !.st = "opening"]
<1>1. s \in SocketIds /\ f.st = "none" /\ f \in FeedSockets
  BY OpenSocket DEF Unmade
<1>2. feedSocket' = [feedSocket EXCEPT ![s] = g]
  OBVIOUS
<1>3. ~paralleled => f = [NoSocket EXCEPT !.st = f.st]
  BY <1>1 DEF FeedInv, FeedStages, SocketStage
<1> HIDE DEF f
<1>4. g \in FeedSockets /\ g.st = "opening"
  BY <1>1 DEF FeedSockets
<1>5. ~paralleled => SocketStage(g, wanted', overtaken', authAttempt'.listening)
  BY <1>3 DEF SocketStage, NoSocket
<1> HIDE DEF g
<1>6. ~paralleled' => ~paralleled /\ Alive = {}
  OBVIOUS
<1>7. feedSocket' \in [SocketIds -> FeedSockets] /\ (~paralleled' => FeedStages')
  BY <1>1, <1>2, <1>4, <1>5, <1>6, OneSocketMoves DEF FeedInv
<1>8. FeedTypes'
  BY <1>1, <1>7 DEF FeedInv, FeedTypes, SocketIds
<1>9. ~paralleled' => FeedQueue' /\ FeedSays'
  BY <1>6 DEF FeedInv, FeedQueue, FeedSays
<1>10. QED
  BY <1>7, <1>8, <1>9 DEF FeedInv

LEMMA ClosedInv ==
    ASSUME FeedInv, NEW s \in SocketIds, s \in Alive, Closed(s),
           UNCHANGED <<currentSocket, authAttempt, wanted, offlineQueue, paralleled, overtaken>>
    PROVE  FeedInv'
<1> DEFINE g == [NoSocket EXCEPT !.st = "closed"]
<1>1. feedSocket' = [feedSocket EXCEPT ![s] = g] /\ feedStatus' = "disconnected"
  BY DEF Closed
<1>2. g \in FeedSockets /\ g.st = "closed"
  <2>1. <<>> \in Seq(Requests) /\ <<>> \in Seq(Replies)
    OBVIOUS
  <2>2. NoSocket \in FeedSockets
    BY <2>1 DEF NoSocket, FeedSockets
  <2>3. QED
    BY <2>2 DEF FeedSockets
<1>3. SocketStage(g, wanted', overtaken', authAttempt'.listening)
  BY DEF SocketStage, NoSocket
<1> HIDE DEF g
<1>4. ~paralleled => Alive \subseteq {s}
  BY DEF FeedInv, FeedStages
<1>5. feedSocket' \in [SocketIds -> FeedSockets] /\ (~paralleled' => FeedStages')
  BY <1>1, <1>2, <1>3, <1>4, OneSocketMoves DEF FeedInv
<1>6. FeedTypes'
  BY <1>1, <1>5 DEF FeedInv, FeedTypes
<1>7. ~paralleled' => FeedQueue' /\ FeedSays'
  BY <1>1 DEF FeedInv, FeedQueue, FeedSays
<1>8. QED
  BY <1>5, <1>6, <1>7 DEF FeedInv

\* What is sent, or queued, is a message.
LEMMA SendEachTyped ==
    ASSUME FeedTypes, NEW sockets \in [SocketIds -> FeedSockets], NEW messages \in Seq(Requests),
           SendEach(sockets, messages)
    PROVE  feedSocket' \in [SocketIds -> FeedSockets] /\ offlineQueue' \in Seq(Requests)
<1>1. CASE IsOpen(currentSocket)
  <2>1. /\ feedSocket' = [sockets EXCEPT ![currentSocket].up = sockets[currentSocket].up \o messages]
        /\ offlineQueue' = offlineQueue /\ currentSocket \in SocketIds
    BY <1>1 DEF SendEach, IsOpen, FeedTypes, SocketIds
  <2>2. sockets[currentSocket] \in FeedSockets /\ sockets[currentSocket].up \in Seq(Requests)
    BY <2>1 DEF FeedSockets
  <2>3. sockets[currentSocket].up \o messages \in Seq(Requests)
    BY <2>2
  <2>4. [sockets[currentSocket] EXCEPT !.up = sockets[currentSocket].up \o messages] \in FeedSockets
    BY <2>2, <2>3 DEF FeedSockets
  <2>5. QED
    BY <2>1, <2>4 DEF FeedTypes
<1>2. CASE ~IsOpen(currentSocket)
  <2>1. feedSocket' = sockets /\ offlineQueue' = offlineQueue \o messages
    BY <1>2 DEF SendEach
  <2>2. offlineQueue \in Seq(Requests)
    BY DEF FeedTypes
  <2>3. offlineQueue \o messages \in Seq(Requests)
    BY <2>2
  <2>4. QED
    BY <2>1, <2>3
<1>3. QED
  BY <1>1, <1>2

LEMMA NoAuthInTurn ==
    ASSUME NEW q \in Seq(Requests), NEW r \in Seq(Requests), NoAuth(q), NoAuth(r)
    PROVE  NoAuth(q \o r)
<1> SUFFICES ASSUME NEW i \in 1..Len(q \o r) PROVE (q \o r)[i].op # "authenticate"
  BY DEF NoAuth
<1>1. /\ Len(q) \in Nat /\ Len(r) \in Nat /\ i \in 1..(Len(q) + Len(r))
      /\ (q \o r)[i] = IF i <= Len(q) THEN q[i] ELSE r[i - Len(q)]
  OBVIOUS
<1>2. CASE i <= Len(q)
  BY <1>1, <1>2 DEF NoAuth
<1>3. CASE i > Len(q)
  <2>1. i - Len(q) \in 1..Len(r) /\ (q \o r)[i] = r[i - Len(q)]
    BY <1>1, <1>3
  <2>2. QED
    BY <2>1 DEF NoAuth
<1>4. QED
  BY <1>1, <1>2, <1>3

\* A change that is said last is what is wanted; the others are left as they are.
LEMMA ChangeSaid ==
    ASSUME NEW h \in FeedChannels, NEW w \in SUBSET FeedChannels, NEW w2 \in SUBSET FeedChannels,
           NEW op \in {"subscribe", "unsubscribe"}, op = "subscribe" <=> h \in w2,
           \A k \in FeedChannels : k # h => (k \in w2 <=> k \in w),
           NEW q \in Seq(Requests), NEW k \in FeedChannels, k # h => LastAgrees(q, k, w)
    PROVE  /\ Subscriptions(op, {h}) \in Seq(Requests) /\ NoAuth(Subscriptions(op, {h}))
           /\ q \o Subscriptions(op, {h}) \in Seq(Requests)
           /\ LastAgrees(q \o Subscriptions(op, {h}), k, w2)
           /\ NoAuth(q) => NoAuth(q \o Subscriptions(op, {h}))
           /\ Silent(q \o Subscriptions(op, {h}), k) => k # h /\ Silent(q, k)
<1> DEFINE r == Subscriptions(op, {h})
<1>1. /\ r \in Seq(Requests) /\ \A i \in 1..Len(r) : r[i].op = op /\ r[i].channel = h
      /\ \E i \in 1..Len(r) : r[i].channel = h
  <2> DEFINE S == {h}
             u == Subscriptions(op, S)
  <2>1. S \in SUBSET FeedChannels
    OBVIOUS
  <2> HIDE DEF S
  <2>2. /\ u \in Seq(Requests) /\ \A i \in 1..Len(u) : u[i].op = op /\ u[i].channel \in S
        /\ \A c \in S : \E i \in 1..Len(u) : u[i].channel = c
    BY <2>1, SubscriptionsAre, SMTT(40)
  <2>3. r = u /\ h \in S /\ \A c \in S : c = h
    BY DEF S
  <2> HIDE DEF r, u
  <2>4. QED
    BY <2>2, <2>3
<1> HIDE DEF r
<1>2. NoAuth(r) /\ q \o r \in Seq(Requests)
  BY <1>1 DEF NoAuth
<1>3. LastAgrees(r, k, w2)
  BY <1>1 DEF LastAgrees, Mentions
<1>4. Silent(r, k) => k # h
  BY <1>1 DEF Silent, Mentions
<1>5. Silent(r, k) => LastAgrees(q, k, w2)
  BY <1>4 DEF LastAgrees
<1>6. LastAgrees(q \o r, k, w2)
  BY <1>1, <1>3, <1>5, SaidInTurn
<1>7. Silent(q \o r, k) => k # h /\ Silent(q, k)
  BY <1>1, <1>4, SilentInTurn
<1>8. ASSUME NoAuth(q) PROVE NoAuth(q \o r)
  BY <1>1, <1>2, <1>8, NoAuthInTurn
<1>9. QED
  BY <1>1, <1>2, <1>6, <1>7, <1>8 DEF r

\* A socket on which a change is said.
LEMMA ChangedSocket ==
    ASSUME NEW h \in FeedChannels, NEW w \in SUBSET FeedChannels, NEW w2 \in SUBSET FeedChannels,
           NEW op \in {"subscribe", "unsubscribe"}, op = "subscribe" <=> h \in w2,
           \A k \in FeedChannels : k # h => (k \in w2 <=> k \in w),
           NEW o, NEW o2, o \subseteq o2, NEW l,
           NEW f \in FeedSockets, NEW g \in FeedSockets, f.st = "open",
           g.st = f.st, g.server = f.server, g.subs = f.subs, g.down = f.down,
           g.up = f.up \o Subscriptions(op, {h}), SocketStage(f, w, o, l)
    PROVE  SocketStage(g, w2, o2, l)
<1> DEFINE r == Subscriptions(op, {h})
<1>1. f.up \in Seq(Requests)
  BY DEF FeedSockets
<1>2. ASSUME NEW k \in FeedChannels, k # h => LastAgrees(f.up, k, w)
      PROVE  /\ LastAgrees(g.up, k, w2)
             /\ Silent(g.up, k) => k # h /\ Silent(f.up, k)
  <2>1. /\ LastAgrees(f.up \o r, k, w2)
        /\ Silent(f.up \o r, k) => k # h /\ Silent(f.up, k)
    BY <1>1, <1>2, ChangeSaid, ZenonT(90)
  <2>2. QED
    BY <2>1
<1>3. NoAuth(f.up) => NoAuth(g.up)
  <2>1. NoAuth(f.up) => NoAuth(f.up \o r)
    BY <1>1, ChangeSaid
  <2>2. QED
    BY <2>1
<1>4. ASSUME Early(f, w) PROVE Early(g, w2)
  BY <1>2, <1>4 DEF Early
<1>5. ASSUME UpToDate(f, w, o) PROVE UpToDate(g, w2, o2)
  BY <1>2, <1>5 DEF UpToDate
<1>6. QED
  BY <1>3, <1>4, <1>5 DEF SocketStage

\* A component subscribes to a channel, or leaves it.
LEMMA ChangeInv ==
    ASSUME FeedInv, NEW h \in FeedChannels, NEW op \in {"subscribe", "unsubscribe"},
           wanted' \in SUBSET FeedChannels, op = "subscribe" <=> h \in wanted',
           \A k \in FeedChannels : k # h => (k \in wanted' <=> k \in wanted),
           SendEach(feedSocket, Subscriptions(op, {h})), overtaken' = Overtaking(h),
           UNCHANGED <<currentSocket, feedStatus, authAttempt, paralleled>>
    PROVE  FeedInv'
<1> DEFINE r == Subscriptions(op, {h})
           s == currentSocket
           f == feedSocket[s]
           g == [f EXCEPT !.up = f.up \o r]
<1>1. r \in Seq(Requests) /\ NoAuth(r)
  <2>1. LastAgrees(<<>>, h, wanted) /\ wanted \in SUBSET FeedChannels /\ <<>> \in Seq(Requests)
    BY DEF LastAgrees, FeedInv, FeedTypes
  <2>2. QED
    BY <2>1, ChangeSaid
<1> HIDE DEF r
<1>2. feedSocket' \in [SocketIds -> FeedSockets] /\ offlineQueue' \in Seq(Requests)
  <2>1. feedSocket \in [SocketIds -> FeedSockets] /\ FeedTypes
    BY DEF FeedInv, FeedTypes
  <2>2. SendEach(feedSocket, r)
    BY DEF r
  <2>3. QED
    BY <1>1, <2>1, <2>2, SendEachTyped
<1>3. FeedTypes' /\ overtaken \subseteq overtaken'
  BY <1>2 DEF FeedInv, FeedTypes, Overtaking
<1>4. CASE paralleled
  BY <1>3, <1>4 DEF FeedInv
<1>5. ASSUME ~paralleled, IsOpen(s) PROVE FeedInv'
  <2>1. /\ s \in SocketIds /\ f \in FeedSockets /\ f.st = "open" /\ s \in Alive
        /\ SocketStage(f, wanted, overtaken, authAttempt.listening)
    <3>1. s \in SocketIds
      BY <1>5 DEF FeedInv, FeedTypes, IsOpen, SocketIds
    <3>2. QED
      BY <1>5, <3>1, OpenSocket
  <2>2. feedSocket' = [feedSocket EXCEPT ![s] = g] /\ offlineQueue' = offlineQueue
    BY <1>5 DEF SendEach, r
  <2> HIDE DEF f
  <2>3. f.up \in Seq(Requests)
    BY <2>1 DEF FeedSockets
  <2>4. f.up \o r \in Seq(Requests)
    BY <1>1, <2>3
  <2>5. /\ g \in FeedSockets /\ g.st = f.st /\ g.server = f.server /\ g.subs = f.subs
        /\ g.down = f.down /\ g.up = f.up \o r
    BY <2>1, <2>4 DEF FeedSockets
  <2> HIDE DEF g
  <2>6. SocketStage(g, wanted', overtaken', authAttempt.listening)
    <3>1. wanted \in SUBSET FeedChannels
      BY DEF FeedInv, FeedTypes
    <3>2. QED
      BY <1>3, <2>1, <2>5, <3>1, ChangedSocket, Zenon DEF r
  <2>7. FeedTypes /\ FeedStages /\ Alive \subseteq {s} /\ s = currentSocket'
    BY <1>5 DEF FeedInv, FeedStages
  <2>8. FeedStages'
    BY <1>5, <2>1, <2>2, <2>5, <2>6, <2>7, OneSocketMoves
  <2>9. FeedQueue'
    <3>1. ASSUME NEW k \in FeedChannels \ overtaken' PROVE LastAgrees(offlineQueue, k, wanted')
      <4>1. CASE k # h
        BY <1>3, <1>5, <3>1, <4>1 DEF FeedInv, FeedQueue, LastAgrees
      <4>2. CASE k = h
        <5>1. \A i \in 1..Len(offlineQueue) : offlineQueue[i] = AuthMessage \/ offlineQueue[i].channel # h
          BY <1>5, <3>1, <4>2 DEF Overtaking
        <5>2. Silent(offlineQueue, h)
          BY <5>1 DEF Silent, Mentions, AuthMessage
        <5>3. QED
          BY <4>2, <5>2 DEF LastAgrees, Silent
      <4>3. QED
        BY <4>1, <4>2
    <3>2. QED
      BY <1>5, <2>2, <3>1 DEF FeedInv, FeedQueue
  <2>10. FeedSays'
    <3>1. feedSocket'[s] = g
      BY <2>1, <2>2 DEF FeedInv, FeedTypes
    <3>2. QED
      BY <1>5, <2>5, <3>1 DEF FeedInv, FeedSays, ServerIs, IsOpen, f
  <2>11. QED
    BY <1>3, <2>8, <2>9, <2>10 DEF FeedInv
<1>6. ASSUME ~paralleled, ~IsOpen(s) PROVE FeedInv'
  <2>1. feedSocket' = feedSocket /\ offlineQueue' = offlineQueue \o r /\ overtaken' = overtaken
    BY <1>6 DEF SendEach, r, Overtaking
  <2>2. FeedStages'
    <3>1. \A t \in SocketIds : feedSocket[t].st # "open"
      BY <1>6 DEF FeedInv, FeedStages, Alive, IsOpen, SocketIds
    <3>2. \A t \in SocketIds : SocketStage(feedSocket[t], wanted', overtaken', authAttempt'.listening)
      BY <1>6, <3>1, ClosedStage DEF FeedInv, FeedStages
    <3>3. QED
      BY <1>6, <2>1, <3>2 DEF FeedInv, FeedStages, Alive
  <2>3. FeedQueue'
    <3>1. /\ offlineQueue \in Seq(Requests) /\ NoAuth(offlineQueue) /\ wanted \in SUBSET FeedChannels
          /\ \A k \in FeedChannels \ overtaken : LastAgrees(offlineQueue, k, wanted)
      BY <1>6 DEF FeedInv, FeedTypes, FeedQueue
    <3>2. ASSUME NEW k \in FeedChannels \ overtaken PROVE LastAgrees(offlineQueue \o r, k, wanted')
      <4>1. LastAgrees(offlineQueue, k, wanted)
        BY <3>1
      <4>2. QED
        BY <3>1, <4>1, ChangeSaid DEF r
    <3>3. NoAuth(offlineQueue \o r)
      BY <1>1, <3>1, NoAuthInTurn
    <3>4. QED
      BY <2>1, <3>2, <3>3 DEF FeedQueue
  <2>4. FeedSays'
    BY <1>6 DEF FeedInv, FeedSays, ServerIs
  <2>5. QED
    BY <1>3, <2>2, <2>3, <2>4 DEF FeedInv
<1>7. QED
  BY <1>4, <1>5, <1>6

LEMMA WantInv == ASSUME FeedInv, NEW h \in FeedChannels, Want(h) PROVE FeedInv'
<1>1. /\ wanted' = wanted \cup {h} /\ overtaken' = Overtaking(h)
      /\ SendEach(feedSocket, Subscriptions("subscribe", {h}))
      /\ UNCHANGED <<currentSocket, feedStatus, authAttempt, paralleled>>
  BY DEF Want
<1>2. wanted' \in SUBSET FeedChannels /\ h \in wanted' /\ \A k \in FeedChannels : k # h => (k \in wanted' <=> k \in wanted)
  BY <1>1 DEF FeedInv, FeedTypes
<1>3. QED
  BY <1>1, <1>2, ChangeInv

LEMMA UnwantInv == ASSUME FeedInv, NEW h \in FeedChannels, Unwant(h) PROVE FeedInv'
<1>1. /\ wanted' = wanted \ {h} /\ overtaken' = Overtaking(h)
      /\ SendEach(feedSocket, Subscriptions("unsubscribe", {h}))
      /\ UNCHANGED <<currentSocket, feedStatus, authAttempt, paralleled>>
  BY DEF Unwant
<1>2. wanted' \in SUBSET FeedChannels /\ h \notin wanted' /\ \A k \in FeedChannels : k # h => (k \in wanted' <=> k \in wanted)
  BY <1>1 DEF FeedInv, FeedTypes
<1>3. QED
  BY <1>1, <1>2, ChangeInv

\* The next message of a socket is taken from it.
LEMMA MessageTaken ==
    ASSUME FeedInv, NEW s \in SocketIds, NEW m, NextIs(s, m)
    PROVE  /\ IsOpen(s) /\ s \in Alive /\ feedSocket[s] \in FeedSockets
           /\ Taken(s) = [feedSocket EXCEPT ![s] = [feedSocket[s] EXCEPT !.down = Tail(feedSocket[s].down)]]
           /\ [feedSocket[s] EXCEPT !.down = Tail(feedSocket[s].down)] \in FeedSockets
           /\ Taken(s) \in [SocketIds -> FeedSockets]
           /\ feedSocket[s].down \in Seq(Replies) /\ Len(feedSocket[s].down) > 0
           /\ feedSocket[s].down[1] = m
           /\ ~paralleled => /\ s = currentSocket /\ Alive \subseteq {s}
                              /\ SocketStage(feedSocket[s], wanted, overtaken, authAttempt.listening)
<1> DEFINE f == feedSocket[s]
           g == [f EXCEPT !.down = Tail(f.down)]
<1>1. IsOpen(s) /\ s \in Alive /\ f \in FeedSockets /\ f.down # <<>> /\ Head(f.down) = m
  BY OpenSocket DEF NextIs
<1>2. ~paralleled => /\ s = currentSocket /\ Alive \subseteq {s}
                     /\ SocketStage(f, wanted, overtaken, authAttempt.listening)
  BY <1>1, OpenSocket DEF FeedInv, FeedStages
<1>3. Taken(s) = [feedSocket EXCEPT ![s] = g] /\ feedSocket \in [SocketIds -> FeedSockets]
  BY DEF Taken, FeedInv, FeedTypes
<1> HIDE DEF f
<1>4. f.down \in Seq(Replies) /\ Tail(f.down) \in Seq(Replies) /\ Len(f.down) > 0 /\ f.down[1] = m
  <2>1. f.down \in Seq(Replies)
    BY <1>1 DEF FeedSockets
  <2>2. QED
    BY <1>1, <2>1
<1>5. g \in FeedSockets
  BY <1>1, <1>4 DEF FeedSockets
<1> HIDE DEF g
<1>6. Taken(s) \in [SocketIds -> FeedSockets]
  BY <1>3, <1>5
<1>7. QED
  BY <1>1, <1>2, <1>3, <1>4, <1>5, <1>6 DEF f, g

\* What the client does with a message of the only socket.
LEMMA ClientTakes ==
    ASSUME FeedInv, ~paralleled, NEW s \in SocketIds, IsOpen(s), NEW g \in FeedSockets,
           feedSocket' = [feedSocket EXCEPT ![s] = g], g.st = "open",
           UNCHANGED <<currentSocket, wanted, paralleled, overtaken>>,
           SocketStage(g, wanted, overtaken, authAttempt'.listening)
    PROVE  FeedStages'
<1>1. FeedTypes /\ FeedStages /\ s \in Alive
  BY OpenSocket DEF FeedInv
<1>2. Alive \subseteq {s} /\ s = currentSocket'
  BY <1>1 DEF FeedStages
<1>3. QED
  BY <1>1, <1>2, OneSocketMoves

LEMMA AuthRequiredInv == ASSUME FeedInv, NEW s \in SocketIds, AuthRequired(s) PROVE FeedInv'
<1> DEFINE f == feedSocket[s]
           d == Tail(f.down)
           g == [f EXCEPT !.down = d]
           a == <<AuthMessage>>
<1>1. /\ NextIs(s, "auth_required")
      /\ UNCHANGED <<currentSocket, feedStatus, wanted, paralleled, overtaken>>
  BY DEF AuthRequired
<1>2. /\ IsOpen(s) /\ s \in Alive /\ f \in FeedSockets /\ g \in FeedSockets
      /\ Taken(s) = [feedSocket EXCEPT ![s] = g] /\ Taken(s) \in [SocketIds -> FeedSockets]
      /\ f.down \in Seq(Replies) /\ Len(f.down) > 0 /\ f.down[1] = "auth_required"
      /\ ~paralleled => /\ s = currentSocket /\ Alive \subseteq {s}
                         /\ SocketStage(f, wanted, overtaken, authAttempt.listening)
  BY <1>1, MessageTaken
<1>3. AuthMessage \in Requests /\ a \in Seq(Requests)
  BY DEF AuthMessage, Requests
<1>4. FeedTypes'
  <2>1. CASE authAttempt.pending
    BY <1>1, <1>2, <2>1 DEF AuthRequired, FeedInv, FeedTypes
  <2>2. CASE ~authAttempt.pending
    <3>1. authAttempt' = [pending |-> TRUE, listening |-> TRUE] /\ SendEach(Taken(s), a)
      BY <2>2 DEF AuthRequired
    <3>2. feedSocket' \in [SocketIds -> FeedSockets] /\ offlineQueue' \in Seq(Requests)
      <4>1. FeedTypes
        BY DEF FeedInv
      <4> HIDE DEF a
      <4>2. QED
        BY <1>2, <1>3, <3>1, <4>1, SendEachTyped
    <3>3. QED
      BY <1>1, <3>1, <3>2 DEF FeedInv, FeedTypes
  <2>3. QED
    BY <2>1, <2>2
<1>5. ASSUME ~paralleled PROVE FeedStages' /\ FeedQueue' /\ FeedSays'
  <2>1. /\ s = currentSocket /\ f.st = "open" /\ f.server \in {"pending", "over"}
        /\ f.server = "pending" => f.down = <<"auth_required">> /\ NoAuth(f.up) /\ f.subs = {} /\ Early(f, wanted)
        /\ f.server = "over" => \A i \in 1..Len(f.down) : f.down[i] # "auth_success"
    <3>1. SocketStage(f, wanted, overtaken, authAttempt.listening) /\ s = currentSocket
      BY <1>2, <1>5
    <3>2. /\ f.st = "open"
          /\ f.server \in {"none", "pending", "verify", "register", "client", "unserved", "over"}
      BY <1>2 DEF IsOpen, FeedSockets
    <3>3. f.down # <<>> /\ f.down # <<"auth_success">>
      BY <1>2
    <3> HIDE DEF f
    <3>4. QED
      BY <3>1, <3>2, <3>3 DEF SocketStage
  <2>2. feedStatus # "connected"
    BY <1>5, <2>1 DEF FeedInv, FeedSays, ServerIs
  <2>3. FeedSays' /\ (offlineQueue' = offlineQueue => FeedQueue')
    BY <1>1, <1>5, <2>2 DEF FeedInv, FeedSays, FeedQueue
  <2> DEFINE u == IF authAttempt.pending THEN f.up ELSE f.up \o a
             k == [f EXCEPT !.down = d, !.up = u]
  <2>4. feedSocket' = [feedSocket EXCEPT ![s] = k] /\ offlineQueue' = offlineQueue
    <3>1. CASE authAttempt.pending
      <4>1. g = k
        BY <1>2, <3>1 DEF FeedSockets
      <4>2. QED
        BY <1>2, <3>1, <4>1 DEF AuthRequired
    <3>2. CASE ~authAttempt.pending
      <4>1. feedSocket' = [Taken(s) EXCEPT ![s].up = @ \o a] /\ offlineQueue' = offlineQueue
        BY <1>2, <2>1, <3>2 DEF AuthRequired, SendEach
      <4>2. Taken(s)[s] = g /\ g.up = f.up /\ feedSocket \in [SocketIds -> FeedSockets]
        BY <1>2 DEF FeedSockets, FeedInv, FeedTypes
      <4>3. feedSocket' = [feedSocket EXCEPT ![s] = [g EXCEPT !.up = f.up \o a]]
        BY <1>2, <4>1, <4>2, Zenon
      <4>4. [g EXCEPT !.up = f.up \o a] = k
        BY <3>2, Zenon
      <4>5. QED
        BY <4>1, <4>3, <4>4
    <3>3. QED
      BY <3>1, <3>2
  <2>5. /\ authAttempt.pending => authAttempt' = authAttempt
        /\ ~authAttempt.pending => authAttempt'.listening
    <3>1. CASE authAttempt.pending
      BY <3>1 DEF AuthRequired
    <3>2. CASE ~authAttempt.pending
      <4>1. authAttempt' = [pending |-> TRUE, listening |-> TRUE]
        BY <3>2 DEF AuthRequired
      <4>2. QED
        BY <3>2, <4>1
    <3>3. QED
      BY <3>1, <3>2
  <2> HIDE DEF f
  <2>6. /\ f.up \in Seq(Requests) /\ f.up \o a \in Seq(Requests)
        /\ \A h \in FeedChannels : LastAgrees(f.up, h, wanted) => LastAgrees(f.up \o a, h, wanted)
        /\ \A h \in FeedChannels : Silent(f.up \o a, h) => Silent(f.up, h)
    <3>1. f.up \in Seq(Requests)
      BY <1>2 DEF FeedSockets
    <3>2. \A h \in FeedChannels : Silent(a, h) /\ LastAgrees(a, h, wanted)
      BY DEF Silent, LastAgrees, Mentions, AuthMessage
    <3> HIDE DEF a
    <3>3. f.up \o a \in Seq(Requests)
      BY <1>3, <3>1
    <3>4. ASSUME NEW h \in FeedChannels
          PROVE  /\ LastAgrees(f.up, h, wanted) => LastAgrees(f.up \o a, h, wanted)
                 /\ Silent(f.up \o a, h) => Silent(f.up, h)
      BY <1>3, <3>1, <3>2, SaidInTurn, SilentInTurn
    <3>5. QED
      BY <3>1, <3>3, <3>4
  <2>7. d \in Seq(Replies) /\ (f.down = <<"auth_required">> => d = <<>>)
        /\ \A i \in 1..Len(d) : d[i] = f.down[i + 1] /\ i + 1 \in 1..Len(f.down)
    <3>1. d \in Seq(Replies) /\ \A i \in 1..Len(d) : d[i] = f.down[i + 1] /\ i + 1 \in 1..Len(f.down)
      BY <1>2
    <3>2. Tail(<<"auth_required">>) = <<>>
      OBVIOUS
    <3>3. QED
      BY <3>1, <3>2
  <2> HIDE DEF d, a
  <2>8. /\ k \in FeedSockets /\ k.st = f.st /\ k.server = f.server /\ k.subs = f.subs
        /\ k.down = d /\ k.up = u
    BY <1>2, <2>6, <2>7 DEF FeedSockets
  <2> HIDE DEF k
  <2>9. Early(f, wanted) => Early(k, wanted)
    BY <2>6, <2>8 DEF Early
  <2>10. SocketStage(k, wanted, overtaken, authAttempt'.listening)
    <3>1. CASE f.server = "pending"
      <4>1. authAttempt'.listening \/ NoAuth(k.up)
        BY <2>1, <2>5, <2>8, <3>1
      <4>2. k.st = "open" /\ k.server = "pending" /\ k.subs = {} /\ k.down = <<>> /\ Early(k, wanted)
        BY <2>1, <2>7, <2>8, <2>9, <3>1
      <4>3. QED
        BY <4>1, <4>2 DEF SocketStage
    <3>2. CASE f.server = "over"
      BY <2>1, <2>7, <2>8, <3>2 DEF SocketStage
    <3>3. QED
      BY <2>1, <3>1, <3>2
  <2>11. FeedStages'
    BY <1>1, <1>2, <1>5, <2>1, <2>4, <2>8, <2>10, ClientTakes
  <2>12. QED
    BY <2>3, <2>4, <2>11
<1>6. QED
  BY <1>1, <1>4, <1>5 DEF FeedInv

LEMMA AuthFailsInv == ASSUME FeedInv, NEW s \in SocketIds, AuthFails(s) PROVE FeedInv'
<1> DEFINE f == feedSocket[s]
           d == Tail(f.down)
           g == [f EXCEPT !.down = d]
<1>1. /\ NextIs(s, "auth_failed") /\ feedSocket' = Taken(s)
      /\ authAttempt' = IF authAttempt.listening THEN [pending |-> FALSE, listening |-> FALSE] ELSE authAttempt
      /\ UNCHANGED <<currentSocket, feedStatus, wanted, offlineQueue, paralleled, overtaken>>
  BY DEF AuthFails
<1>2. /\ IsOpen(s) /\ s \in Alive /\ f \in FeedSockets /\ g \in FeedSockets
      /\ Taken(s) = [feedSocket EXCEPT ![s] = g] /\ Taken(s) \in [SocketIds -> FeedSockets]
      /\ f.down \in Seq(Replies) /\ Len(f.down) > 0 /\ f.down[1] = "auth_failed"
      /\ ~paralleled => /\ s = currentSocket /\ Alive \subseteq {s}
                         /\ SocketStage(f, wanted, overtaken, authAttempt.listening)
  BY <1>1, MessageTaken
<1>3. FeedTypes'
  BY <1>1, <1>2 DEF FeedInv, FeedTypes
<1>4. ASSUME ~paralleled PROVE FeedStages' /\ FeedQueue' /\ FeedSays'
  <2>1. /\ s = currentSocket /\ f.st = "open" /\ f.server = "over"
        /\ \A i \in 1..Len(f.down) : f.down[i] # "auth_success"
    <3>1. SocketStage(f, wanted, overtaken, authAttempt.listening) /\ s = currentSocket
      BY <1>2, <1>4
    <3>2. /\ f.st = "open"
          /\ f.server \in {"none", "pending", "verify", "register", "client", "unserved", "over"}
      BY <1>2 DEF IsOpen, FeedSockets
    <3>3. f.down # <<>> /\ f.down # <<"auth_success">> /\ f.down # <<"auth_required">>
      BY <1>2
    <3> HIDE DEF f
    <3>4. QED
      BY <3>1, <3>2, <3>3 DEF SocketStage
  <2>2. feedStatus # "connected"
    BY <1>4, <2>1 DEF FeedInv, FeedSays, ServerIs
  <2>3. FeedSays' /\ FeedQueue'
    BY <1>1, <1>4, <2>2 DEF FeedInv, FeedSays, FeedQueue
  <2> HIDE DEF f
  <2>4. \A i \in 1..Len(d) : d[i] = f.down[i + 1] /\ i + 1 \in 1..Len(f.down)
    BY <1>2
  <2>5. g.st = f.st /\ g.server = f.server /\ g.down = d
    BY <1>2 DEF FeedSockets
  <2> HIDE DEF d, g
  <2>6. SocketStage(g, wanted, overtaken, authAttempt'.listening)
    BY <2>1, <2>4, <2>5 DEF SocketStage
  <2>7. FeedStages'
    BY <1>1, <1>2, <1>4, <2>1, <2>5, <2>6, ClientTakes, ZenonT(90)
  <2>8. QED
    BY <2>3, <2>7
<1>5. QED
  BY <1>1, <1>3, <1>4 DEF FeedInv

\* What is sent on a success says of every channel whether it is wanted, and
\* mentions all that are.
LEMMA ResubscriptionSays ==
    ASSUME NEW w \in SUBSET FeedChannels, NEW q \in Seq(Requests), NEW h \in FeedChannels
    PROVE  /\ Subscriptions("subscribe", w) \o q \in Seq(Requests)
           /\ LastAgrees(q, h, w) => LastAgrees(Subscriptions("subscribe", w) \o q, h, w)
           /\ Silent(Subscriptions("subscribe", w) \o q, h) => h \notin w
<1> DEFINE r == Subscriptions("subscribe", w)
<1>1. /\ r \in Seq(Requests)
      /\ \A i \in 1..Len(r) : r[i].op = "subscribe" /\ r[i].channel \in w
      /\ \A k \in w : \E i \in 1..Len(r) : r[i].channel = k
  BY SubscriptionsAre
<1> HIDE DEF r
<1>2. LastAgrees(r, h, w)
  BY <1>1 DEF LastAgrees, Mentions
<1>3. Silent(r, h) => h \notin w
  BY <1>1 DEF Silent, Mentions
<1>4. r \o q \in Seq(Requests)
  BY <1>1
<1>5. LastAgrees(q, h, w) => LastAgrees(r \o q, h, w)
  BY <1>1, <1>2, SaidInTurn
<1>6. Silent(r \o q, h) => h \notin w
  BY <1>1, <1>3, SilentInTurn
<1>7. QED
  BY <1>4, <1>5, <1>6 DEF r

LEMMA AuthSucceedsInv == ASSUME FeedInv, NEW s \in SocketIds, AuthSucceeds(s) PROVE FeedInv'
<1> DEFINE f == feedSocket[s]
           d == Tail(f.down)
           g == [f EXCEPT !.down = d]
           r == OnAuthentication(wanted)
<1>1. /\ NextIs(s, "auth_success")
      /\ UNCHANGED <<currentSocket, wanted, paralleled, overtaken>>
  BY DEF AuthSucceeds
<1>2. /\ IsOpen(s) /\ s \in Alive /\ f \in FeedSockets /\ g \in FeedSockets
      /\ Taken(s) = [feedSocket EXCEPT ![s] = g] /\ Taken(s) \in [SocketIds -> FeedSockets]
      /\ f.down \in Seq(Replies) /\ Len(f.down) > 0 /\ f.down[1] = "auth_success"
      /\ ~paralleled => /\ s = currentSocket /\ Alive \subseteq {s}
                         /\ SocketStage(f, wanted, overtaken, authAttempt.listening)
  BY <1>1, MessageTaken
<1>3. wanted \in SUBSET FeedChannels /\ offlineQueue \in Seq(Requests)
  BY DEF FeedInv, FeedTypes
<1>4. r \in Seq(Requests)
  <2>1. Subscriptions("subscribe", wanted) \in Seq(Requests)
    BY <1>3, SubscriptionsAre
  <2>2. QED
    BY <1>3, <2>1 DEF OnAuthentication
<1> HIDE DEF r
<1>5. FeedTypes'
  <2>1. CASE authAttempt.listening
    <3>1. /\ feedStatus' = "connected" /\ offlineQueue' = <<>>
          /\ authAttempt' = [pending |-> FALSE, listening |-> FALSE]
          /\ feedSocket' = IF IsOpen(currentSocket)
                            THEN [Taken(s) EXCEPT ![currentSocket].up = @ \o r] ELSE Taken(s)
      BY <2>1 DEF AuthSucceeds, r
    <3>2. feedSocket' \in [SocketIds -> FeedSockets]
      <4>1. CASE IsOpen(currentSocket)
        <5> DEFINE c == Taken(s)[currentSocket]
        <5>1. currentSocket \in SocketIds
          BY <4>1 DEF IsOpen, FeedInv, FeedTypes, SocketIds
        <5>2. c \in FeedSockets /\ c.up \in Seq(Requests)
          BY <1>2, <5>1 DEF FeedSockets
        <5>3. feedSocket' = [Taken(s) EXCEPT ![currentSocket] = [c EXCEPT !.up = c.up \o r]]
          BY <3>1, <4>1
        <5> HIDE DEF c
        <5>4. c.up \o r \in Seq(Requests)
          BY <1>4, <5>2
        <5>5. [c EXCEPT !.up = c.up \o r] \in FeedSockets
          BY <5>2, <5>4 DEF FeedSockets
        <5>6. QED
          BY <1>2, <5>3, <5>5
      <4>2. CASE ~IsOpen(currentSocket)
        BY <1>2, <3>1, <4>2
      <4>3. QED
        BY <4>1, <4>2
    <3>3. QED
      BY <1>1, <3>1, <3>2 DEF FeedInv, FeedTypes
  <2>2. CASE ~authAttempt.listening
    BY <1>1, <1>2, <2>2 DEF AuthSucceeds, FeedInv, FeedTypes
  <2>3. QED
    BY <2>1, <2>2
<1>6. ASSUME ~paralleled PROVE FeedStages' /\ FeedQueue' /\ FeedSays'
  <2>1. /\ s = currentSocket /\ f.st = "open" /\ f.server = "client" /\ authAttempt.listening
        /\ f.down = <<"auth_success">> /\ Early(f, wanted)
    <3>1. SocketStage(f, wanted, overtaken, authAttempt.listening) /\ s = currentSocket
      BY <1>2, <1>6
    <3>2. /\ f.st = "open"
          /\ f.server \in {"none", "pending", "verify", "register", "client", "unserved", "over"}
      BY <1>2 DEF IsOpen, FeedSockets
    <3>3. f.down # <<>> /\ f.down # <<"auth_required">> /\ 1 \in 1..Len(f.down)
      BY <1>2
    <3>4. f.down[1] = "auth_success"
      BY <1>2
    <3> HIDE DEF f
    <3>5. f.server = "client"
      BY <3>1, <3>2, <3>3, <3>4 DEF SocketStage
    <3>6. QED
      BY <3>1, <3>2, <3>3, <3>5 DEF SocketStage
  <2> DEFINE u == f.up \o r
             k == [f EXCEPT !.down = d, !.up = u]
  <2>2. offlineQueue' = <<>> /\ feedSocket' = [feedSocket EXCEPT ![s] = k]
    <3>1. offlineQueue' = <<>> /\ feedSocket' = [Taken(s) EXCEPT ![s].up = @ \o r]
      BY <1>2, <2>1 DEF AuthSucceeds, r
    <3>2. Taken(s)[s] = g /\ g.up = f.up /\ feedSocket \in [SocketIds -> FeedSockets]
      BY <1>2 DEF FeedSockets, FeedInv, FeedTypes
    <3>3. feedSocket' = [feedSocket EXCEPT ![s] = [g EXCEPT !.up = f.up \o r]]
      BY <1>2, <3>1, <3>2, Zenon
    <3>4. [g EXCEPT !.up = f.up \o r] = k
      BY Zenon
    <3>5. QED
      BY <3>1, <3>3, <3>4
  <2> HIDE DEF f
  <2>3. f.up \in Seq(Requests)
    BY <1>2 DEF FeedSockets
  <2>4. u \in Seq(Requests)
    BY <1>4, <2>3
  <2>5. d = <<>> /\ <<>> \in Seq(Replies)
    <3>1. Tail(<<"auth_success">>) = <<>>
      OBVIOUS
    <3>2. QED
      BY <2>1, <3>1
  <2>6. ASSUME NEW h \in FeedChannels \ overtaken
        PROVE  LastAgrees(u, h, wanted) /\ (Silent(u, h) => Silent(f.up, h) /\ h \notin wanted)
    <3>1. LastAgrees(offlineQueue, h, wanted)
      BY <1>6 DEF FeedInv, FeedQueue
    <3>2. LastAgrees(r, h, wanted) /\ (Silent(r, h) => h \notin wanted)
      BY <1>3, <3>1, ResubscriptionSays DEF OnAuthentication, r
    <3>3. LastAgrees(f.up, h, wanted)
      BY <2>1 DEF Early
    <3>4. QED
      BY <1>4, <2>3, <3>2, <3>3, SaidInTurn, SilentInTurn
  <2> HIDE DEF d, u
  <2>7. /\ k \in FeedSockets /\ k.st = "open" /\ k.server = "client" /\ k.subs = f.subs
        /\ k.down = <<>> /\ k.up = u
    BY <1>2, <2>1, <2>4, <2>5 DEF FeedSockets
  <2> HIDE DEF k
  <2>8. UpToDate(k, wanted, overtaken)
    <3>1. ASSUME NEW h \in FeedChannels \ overtaken, Silent(u, h) PROVE h \in k.subs <=> h \in wanted
      BY <2>1, <2>6, <2>7, <3>1 DEF Early
    <3>2. QED
      BY <2>6, <2>7, <3>1 DEF UpToDate
  <2>9. SocketStage(k, wanted, overtaken, authAttempt'.listening)
    BY <2>7, <2>8 DEF SocketStage
  <2>10. FeedStages'
    BY <1>1, <1>2, <1>6, <2>2, <2>7, <2>9, ClientTakes
  <2>11. FeedQueue'
    BY <2>2 DEF FeedQueue, NoAuth, LastAgrees
  <2>12. FeedSays'
    <3>1. feedSocket'[s] = k
      BY <2>2 DEF FeedInv, FeedTypes
    <3>2. QED
      BY <1>1, <1>2, <2>1, <2>7, <3>1 DEF FeedSays, ServerIs, IsOpen
  <2>13. QED
    BY <2>10, <2>11, <2>12
<1>7. QED
  BY <1>1, <1>5, <1>6 DEF FeedInv

LEMMA FeedReceivesInv == ASSUME FeedInv, NEW s \in SocketIds, FeedReceives(s) PROVE FeedInv'
<1>1. CASE ServerClosed(s)
  <2>1. NextIs(s, "close") /\ Closed(s) /\ UNCHANGED <<currentSocket, authAttempt, wanted, offlineQueue, paralleled, overtaken>>
    BY <1>1 DEF ServerClosed
  <2>2. s \in Alive
    BY <2>1, MessageTaken
  <2>3. QED
    BY <2>1, <2>2, ClosedInv
<1>2. QED
  BY <1>1, AuthRequiredInv, AuthSucceedsInv, AuthFailsInv DEF FeedReceives

LEMMA DropsInv == ASSUME FeedInv, NEW s \in SocketIds, Drops(s) PROVE FeedInv'
<1>1. s \in Alive /\ Closed(s) /\ UNCHANGED <<currentSocket, authAttempt, wanted, offlineQueue, paralleled, overtaken>>
  BY DEF Drops
<1>2. QED
  BY <1>1, ClosedInv

LEMMA AuthTimesOutInv == ASSUME FeedInv, AuthTimesOut PROVE FeedInv'
<1>1. /\ authAttempt' = [authAttempt EXCEPT !.pending = FALSE]
      /\ UNCHANGED <<feedSocket, currentSocket, feedStatus, wanted, offlineQueue, paralleled, overtaken>>
  BY DEF AuthTimesOut
<1>2. authAttempt \in [pending : BOOLEAN, listening : BOOLEAN]
  BY DEF FeedInv, FeedTypes
<1>3. authAttempt' \in [pending : BOOLEAN, listening : BOOLEAN] /\ authAttempt'.listening = authAttempt.listening
  BY <1>1, <1>2
<1>4. FeedTypes'
  BY <1>1, <1>3 DEF FeedInv, FeedTypes
<1>5. ~paralleled' => FeedStages' /\ FeedQueue' /\ FeedSays'
  BY <1>1, <1>3 DEF FeedInv, FeedStages, Alive, FeedQueue, FeedSays, ServerIs, IsOpen
<1>6. QED
  BY <1>4, <1>5 DEF FeedInv

\* The parts of the invariant in the variables they read.
LEMMA FeedInvUntouched ==
    ASSUME FeedInv, UNCHANGED <<feedSocket, currentSocket, feedStatus, authAttempt, wanted,
                                offlineQueue, paralleled, overtaken>>
    PROVE  FeedInv'
BY DEF FeedInv, FeedTypes, FeedStages, Alive, FeedQueue, FeedSays, ServerIs, IsOpen

LEMMA FeedInitInv == FeedInit => FeedInv
<1> SUFFICES ASSUME FeedInit PROVE FeedInv
  OBVIOUS
<1>1. NoSocket \in FeedSockets /\ NoSocket.st = "none" /\ <<>> \in Seq(Requests)
  <2>1. <<>> \in Seq(Requests) /\ <<>> \in Seq(Replies)
    OBVIOUS
  <2>2. QED
    BY <2>1 DEF NoSocket, FeedSockets
<1>2. \A w, o, l : SocketStage(NoSocket, w, o, l)
  BY DEF SocketStage, NoSocket
<1> HIDE DEF NoSocket
<1>3. FeedTypes
  <2>1. feedSocket \in [SocketIds -> FeedSockets]
    BY <1>1 DEF FeedInit
  <2>2. authAttempt \in [pending : BOOLEAN, listening : BOOLEAN]
    BY DEF FeedInit
  <2>3. currentSocket \in 0..MaxFeedSockets
    <3>1. currentSocket = 0 /\ MaxFeedSockets \in Nat
      BY FeedAssumption DEF FeedInit
    <3>2. QED
      BY <3>1
  <2>4. paralleled \in BOOLEAN
    BY Zenon DEF FeedInit
  <2>5. /\ feedStatus \in {"disconnected", "connecting", "connected"}
        /\ wanted \subseteq FeedChannels /\ overtaken \subseteq FeedChannels
    BY DEF FeedInit
  <2>6. offlineQueue \in Seq(Requests)
    BY <1>1 DEF FeedInit
  <2>7. QED
    BY <2>1, <2>2, <2>3, <2>4, <2>5, <2>6 DEF FeedTypes
<1>4. FeedStages
  BY <1>1, <1>2 DEF FeedInit, FeedStages, Alive
<1>5. FeedQueue
  BY DEF FeedInit, FeedQueue, NoAuth, LastAgrees
<1>6. FeedSays
  BY DEF FeedInit, FeedSays
<1>7. QED
  BY <1>3, <1>4, <1>5, <1>6 DEF FeedInv

LEMMA FeedNextInv == FeedInv /\ [FeedNext]_feedVars => FeedInv'
<1> SUFFICES ASSUME FeedInv, [FeedNext]_feedVars PROVE FeedInv'
  OBVIOUS
<1>1. CASE Launch \/ ComesOnline \/ BecomesVisible \/ TimerConnects
  <2>1. NewSocket /\ UNCHANGED <<authAttempt, wanted, offlineQueue, overtaken>>
    BY <1>1 DEF Launch, ComesOnline, BecomesVisible, TimerConnects
  <2>2. QED
    BY <2>1, NewSocketInv
<1>2. CASE GoesOffline
  BY <1>2, FeedInvUntouched DEF GoesOffline
<1>3. CASE AuthTimesOut
  BY <1>3, AuthTimesOutInv
<1>4. ASSUME NEW h \in FeedChannels, Want(h) \/ Unwant(h) PROVE FeedInv'
  BY <1>4, WantInv, UnwantInv
<1>5. ASSUME NEW s \in SocketIds, Drops(s) \/ FeedReceives(s) \/ FeedServer(s) PROVE FeedInv'
  BY <1>5, DropsInv, FeedReceivesInv, FeedServerInv
<1>6. CASE UNCHANGED feedVars
  BY <1>6, FeedInvUntouched DEF feedVars
<1>7. QED
  BY <1>1, <1>2, <1>3, <1>4, <1>5, <1>6 DEF FeedNext

\* For any channels, sockets and changes: as long as no two sockets lived at
\* once, what has arrived is what the page wants, whatever was sent too early,
\* lost, queued or overtaken by the resubscription, and "connected" is said
\* only of an authenticated socket (websocket-service.ts and its managers).
THEOREM FeedShowsWhatIsWanted == FeedSpec => []FeedCarriesWhatIsWanted
<1>1. FeedInv => FeedCarriesWhatIsWanted
  BY FeedInvIsEnough
<1>2. QED
  BY <1>1, FeedInitInv, FeedNextInv, PTL DEF FeedSpec

=============================================================================
