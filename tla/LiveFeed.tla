------------------------------- MODULE LiveFeed -------------------------------
(***************************************************************************)
(* The web client's end of the live feed: websocket-service.ts and its     *)
(* websocket, auth and subscription managers.  Sockets are made at the     *)
(* start, when the browser comes online, when the page becomes visible     *)
(* while the feed is disconnected, and by a timer after a socket closed;   *)
(* connect replaces the current socket and leaves the one before it alone. *)
(* Messages go through the current socket, or into the offline queue.      *)
(*                                                                         *)
(* The server's end is what Connections models, one socket by itself: it   *)
(* asks for authentication, closes a socket that says anything else first  *)
(* or is late, hears nothing while it registers a client, and then serves  *)
(* the subscriptions.  Left out: Firebase, the data, the heartbeat, the    *)
(* promises of subscribe, closes with code 1000 or 1001 and disconnect.    *)
(***************************************************************************)
EXTENDS Naturals, Sequences, FiniteSets

CONSTANTS
    FeedChannels,       \* channels the components of the page subscribe to
    MaxReconnects,      \* maxReconnectAttempts
    MaxFeedSockets,     \* bound: sockets made
    MaxFeedChanges      \* bound: subscriptions, changes of the network, faults of Redis

ASSUME FeedAssumption ==
    /\ IsFiniteSet(FeedChannels)
    /\ MaxReconnects \in Nat /\ MaxFeedSockets \in Nat \ {0} /\ MaxFeedChanges \in Nat

VARIABLES
    feedSocket,     \* each socket: its state, the server's, and what is on its way
    currentSocket,  \* this.ws, 0 before the first connect
    feedStatus,     \* connectionStatus.websocket
    online,         \* connectionStatus.online
    authAttempt,    \* the promise is pending; its listeners are there
    wanted,         \* subscriptions
    offlineQueue,
    reconnects,     \* reconnectAttempts
    feedTimers,     \* timers that will connect
    feedChanges,    \* changes so far
    paralleled,     \* a socket was made while another lived
    overtaken       \* channels changed on a socket while the queue held older changes

feedVars == <<feedSocket, currentSocket, feedStatus, online, authAttempt, wanted, offlineQueue,
              reconnects, feedTimers, feedChanges, paralleled, overtaken>>

SocketIds == 1..MaxFeedSockets
Requests == [op : {"subscribe", "unsubscribe"}, channel : FeedChannels]
            \cup [op : {"authenticate"}]
Replies == {"auth_required", "auth_success", "auth_failed", "close"}
AuthMessage == [op |-> "authenticate"]

FeedTypeOK ==
    /\ \A s \in SocketIds :
          /\ feedSocket[s].st \in {"none", "opening", "open", "closed"}
          /\ feedSocket[s].server \in {"none", "pending", "verify", "register", "client", "unserved", "over"}
          /\ feedSocket[s].subs \subseteq FeedChannels
          /\ feedSocket[s].up \in Seq(Requests) /\ feedSocket[s].down \in Seq(Replies)
    /\ currentSocket \in 0..MaxFeedSockets
    /\ feedStatus \in {"disconnected", "connecting", "connected"}
    /\ online \in BOOLEAN /\ paralleled \in BOOLEAN
    /\ authAttempt \in [pending : BOOLEAN, listening : BOOLEAN]
    /\ wanted \subseteq FeedChannels /\ overtaken \subseteq FeedChannels
    /\ offlineQueue \in Seq(Requests)
    /\ reconnects \in 0..MaxReconnects /\ feedTimers \in 0..MaxFeedSockets
    /\ feedChanges \in 0..MaxFeedChanges

NoSocket == [st |-> "none", server |-> "none", subs |-> {}, up |-> <<>>, down |-> <<>>]

FeedInit ==
    /\ feedSocket = [s \in SocketIds |-> NoSocket] /\ currentSocket = 0
    /\ feedStatus = "disconnected" /\ online = TRUE
    /\ authAttempt = [pending |-> FALSE, listening |-> FALSE]
    /\ wanted = {} /\ offlineQueue = <<>>
    /\ reconnects = 0 /\ feedTimers = 0 /\ feedChanges = 0
    /\ paralleled = FALSE /\ overtaken = {}

Unmade == {s \in SocketIds : feedSocket[s].st = "none"}
Alive == {s \in SocketIds : feedSocket[s].st \in {"opening", "open"}}
IsOpen(s) == s # 0 /\ feedSocket[s].st = "open"
Change == feedChanges < MaxFeedChanges /\ feedChanges' = feedChanges + 1

-----------------------------------------------------------------------------
(* What makes a socket.                                                    *)

\* connect: the new socket is the current one; the old one keeps its handlers.
NewSocket ==
    \E s \in Unmade :
        /\ \A t \in Unmade : s <= t
        /\ feedSocket' = [feedSocket EXCEPT ![s].st = "opening"]
        /\ currentSocket' = s /\ feedStatus' = "connecting"
        /\ paralleled' = (paralleled \/ Alive # {})

Launch ==
    /\ currentSocket = 0 /\ online /\ NewSocket
    /\ UNCHANGED <<online, authAttempt, wanted, offlineQueue, reconnects, feedTimers,
                   feedChanges, overtaken>>

GoesOffline ==
    /\ online /\ Change /\ online' = FALSE
    /\ UNCHANGED <<feedSocket, currentSocket, feedStatus, authAttempt, wanted, offlineQueue,
                   reconnects, feedTimers, paralleled, overtaken>>

\* The 'online' event connects whatever there is.
ComesOnline ==
    /\ ~online /\ online' = TRUE /\ NewSocket
    /\ UNCHANGED <<authAttempt, wanted, offlineQueue, reconnects, feedTimers,
                   feedChanges, overtaken>>

BecomesVisible ==
    /\ online /\ currentSocket # 0 /\ feedStatus = "disconnected" /\ Change /\ NewSocket
    /\ UNCHANGED <<online, authAttempt, wanted, offlineQueue, reconnects, feedTimers,
                   overtaken>>

TimerConnects ==
    /\ feedTimers > 0 /\ feedTimers' = feedTimers - 1 /\ NewSocket
    /\ UNCHANGED <<online, authAttempt, wanted, offlineQueue, reconnects, feedChanges,
                   overtaken>>

\* Mutant: a close by the server for an error counts as a normal one.
ClosedUnlessRefused(s) ==
    /\ feedSocket' = [feedSocket EXCEPT ![s] = [NoSocket EXCEPT !.st = "closed"]]
    /\ feedStatus' = "disconnected"
    /\ IF reconnects < MaxReconnects /\ feedSocket[s].server # "over"
       THEN reconnects' = reconnects + 1 /\ feedTimers' = feedTimers + 1
       ELSE UNCHANGED <<reconnects, feedTimers>>

\* onclose and handleReconnection, for any socket, current or not.
Closed(s) ==
    /\ feedSocket' = [feedSocket EXCEPT ![s] = [NoSocket EXCEPT !.st = "closed"]]
    /\ feedStatus' = "disconnected"
    /\ IF reconnects < MaxReconnects
       THEN reconnects' = reconnects + 1 /\ feedTimers' = feedTimers + 1
       ELSE UNCHANGED <<reconnects, feedTimers>>

\* The connection is lost, or was never made.
Drops(s) ==
    /\ s \in Alive /\ Change /\ Closed(s)
    /\ UNCHANGED <<currentSocket, online, authAttempt, wanted, offlineQueue,
                   paralleled, overtaken>>

-----------------------------------------------------------------------------
(* What the client sends and receives.                                     *)

\* One message for each channel, in some order.
Subscriptions(op, channels) ==
    CHOOSE q \in [1..Cardinality(channels) -> [op : {op}, channel : channels]] :
        \A h \in channels : \E i \in 1..Cardinality(channels) : q[i].channel = h

\* send: each message in turn, through the current socket if it is open.
SendEach(sockets, messages) ==
    IF IsOpen(currentSocket)
    THEN /\ feedSocket' = [sockets EXCEPT ![currentSocket].up = @ \o messages]
         /\ UNCHANGED offlineQueue
    ELSE /\ feedSocket' = sockets /\ offlineQueue' = offlineQueue \o messages

\* The queue is sent after authentication: behind what was sent since.
Overtaking(h) ==
    IF IsOpen(currentSocket) /\ \E i \in 1..Len(offlineQueue) : offlineQueue[i] # AuthMessage
                                                        /\ offlineQueue[i].channel = h
    THEN overtaken \cup {h} ELSE overtaken

Want(h) ==
    /\ currentSocket # 0 /\ h \notin wanted /\ Change
    /\ wanted' = wanted \cup {h} /\ SendEach(feedSocket, Subscriptions("subscribe", {h}))
    /\ overtaken' = Overtaking(h)
    /\ UNCHANGED <<currentSocket, feedStatus, online, authAttempt, reconnects,
                   feedTimers, paralleled>>

Unwant(h) ==
    /\ h \in wanted /\ Change
    /\ wanted' = wanted \ {h} /\ SendEach(feedSocket, Subscriptions("unsubscribe", {h}))
    /\ overtaken' = Overtaking(h)
    /\ UNCHANGED <<currentSocket, feedStatus, online, authAttempt, reconnects,
                   feedTimers, paralleled>>

\* The next message of a socket.
Taken(s) == [feedSocket EXCEPT ![s].down = Tail(@)]
NextIs(s, m) == IsOpen(s) /\ feedSocket[s].down # <<>> /\ Head(feedSocket[s].down) = m

\* authenticate: nothing while an attempt is pending, even one of another socket.
AuthRequired(s) ==
    /\ NextIs(s, "auth_required")
    /\ IF authAttempt.pending
       THEN feedSocket' = Taken(s) /\ UNCHANGED <<authAttempt, offlineQueue>>
       ELSE /\ authAttempt' = [pending |-> TRUE, listening |-> TRUE]
            /\ SendEach(Taken(s), <<AuthMessage>>)
    /\ UNCHANGED <<currentSocket, feedStatus, online, wanted, reconnects, feedTimers,
                   feedChanges, paralleled, overtaken>>

\* Ten seconds; the listeners stay.
AuthTimesOut ==
    /\ authAttempt.pending /\ authAttempt' = [authAttempt EXCEPT !.pending = FALSE]
    /\ UNCHANGED <<feedSocket, currentSocket, feedStatus, online, wanted, offlineQueue,
                   reconnects, feedTimers, feedChanges, paralleled, overtaken>>

\* Mutant: only what was queued is sent.
OnAuthenticationQueued(channels) == offlineQueue

\* resubscribeAll, then the queue, which is emptied in any case.
OnAuthentication(channels) == Subscriptions("subscribe", channels) \o offlineQueue

AuthSucceeds(s) ==
    /\ NextIs(s, "auth_success")
    /\ IF authAttempt.listening
       THEN /\ feedStatus' = "connected" /\ reconnects' = 0
            /\ authAttempt' = [pending |-> FALSE, listening |-> FALSE]
            /\ feedSocket' = IF IsOpen(currentSocket)
                    THEN [Taken(s) EXCEPT ![currentSocket].up = @ \o OnAuthentication(wanted)]
                    ELSE Taken(s)
            /\ offlineQueue' = <<>>
       ELSE feedSocket' = Taken(s) /\ UNCHANGED <<feedStatus, reconnects, authAttempt,
                                                  offlineQueue>>
    /\ UNCHANGED <<currentSocket, online, wanted, feedTimers, feedChanges, paralleled,
                   overtaken>>

AuthFails(s) ==
    /\ NextIs(s, "auth_failed")
    /\ feedSocket' = Taken(s)
    /\ authAttempt' = IF authAttempt.listening THEN [pending |-> FALSE, listening |-> FALSE]
                      ELSE authAttempt
    /\ UNCHANGED <<currentSocket, feedStatus, online, wanted, offlineQueue, reconnects,
                   feedTimers, feedChanges, paralleled, overtaken>>

ServerClosed(s) ==
    /\ NextIs(s, "close") /\ Closed(s)
    /\ UNCHANGED <<currentSocket, online, authAttempt, wanted, offlineQueue,
                   feedChanges, paralleled, overtaken>>

-----------------------------------------------------------------------------
(* The server's end of a socket.                                           *)

clientVars == <<currentSocket, feedStatus, online, authAttempt, wanted, offlineQueue, reconnects,
                feedTimers, feedChanges, paralleled, overtaken>>
ServerIs(s, st) == IsOpen(s) /\ feedSocket[s].server = st
Arrived(s) == feedSocket[s].up # <<>>
Refusal(s, replies) == [feedSocket[s] EXCEPT !.server = "over", !.down = @ \o replies]

Opened(s) ==
    /\ feedSocket[s].st = "opening"
    /\ feedSocket' = [feedSocket EXCEPT ![s] = [@ EXCEPT !.st = "open", !.server = "pending",
                                                         !.down = <<"auth_required">>]]
    /\ UNCHANGED clientVars

\* A message before the authentication is through: authenticate, or the end.
ServerHearsPending(s) ==
    /\ feedSocket[s].server \in {"pending", "verify"} /\ IsOpen(s) /\ Arrived(s)
    /\ LET m == Head(feedSocket[s].up)
           rest == Tail(feedSocket[s].up)
       IN feedSocket' = [feedSocket EXCEPT ![s] =
            IF m = AuthMessage THEN [@ EXCEPT !.server = "verify", !.up = rest]
            ELSE [Refusal(s, <<"close">>) EXCEPT !.up = rest]]
    /\ UNCHANGED clientVars

\* Nobody listens between the verification and the new handlers, or without them.
ServerHearsNothing(s) ==
    /\ feedSocket[s].server \in {"register", "unserved"} /\ IsOpen(s) /\ Arrived(s)
    /\ feedSocket' = [feedSocket EXCEPT ![s].up = Tail(@)]
    /\ UNCHANGED clientVars

ServerServes(s) ==
    /\ ServerIs(s, "client") /\ Arrived(s)
    /\ LET m == Head(feedSocket[s].up)
       IN feedSocket' = [feedSocket EXCEPT ![s] =
            [feedSocket[s] EXCEPT
                      !.up = Tail(@),
                      !.subs = IF m.op = "subscribe" THEN @ \cup {m.channel}
                               ELSE IF m.op = "unsubscribe" THEN @ \ {m.channel} ELSE @]]
    /\ UNCHANGED clientVars

ServerVerifies(s) ==
    /\ ServerIs(s, "verify")
    /\ \/ feedSocket' = [feedSocket EXCEPT ![s].server = "register"]
       \/ feedSocket' = [feedSocket EXCEPT ![s] = Refusal(s, <<"auth_failed", "close">>)]
    /\ UNCHANGED clientVars

ServerRegisters(s) ==
    /\ ServerIs(s, "register")
    /\ feedSocket' = [feedSocket EXCEPT ![s] =
            [feedSocket[s] EXCEPT !.server = "client", !.down = Append(@, "auth_success")]]
    /\ UNCHANGED clientVars

\* Redis fails: the pending entry is gone, so the error handler finds no socket
\* to close, and neither does the timeout.
ServerFailsToRegister(s) ==
    /\ ServerIs(s, "register") /\ Change
    /\ feedSocket' = [feedSocket EXCEPT ![s].server = "unserved"]
    /\ UNCHANGED <<currentSocket, feedStatus, online, authAttempt, wanted, offlineQueue,
                   reconnects, feedTimers, paralleled, overtaken>>

\* Ten seconds without authentication.
ServerTimesOut(s) ==
    /\ feedSocket[s].server \in {"pending", "verify"} /\ IsOpen(s)
    /\ feedSocket' = [feedSocket EXCEPT ![s] = Refusal(s, <<"close">>)]
    /\ UNCHANGED clientVars

-----------------------------------------------------------------------------
FeedReceives(s) == AuthRequired(s) \/ AuthSucceeds(s) \/ AuthFails(s) \/ ServerClosed(s)
FeedServer(s) == \/ Opened(s) \/ ServerHearsPending(s) \/ ServerHearsNothing(s) \/ ServerServes(s)
                 \/ ServerVerifies(s) \/ ServerRegisters(s) \/ ServerTimesOut(s)
                 \/ ServerFailsToRegister(s)

FeedNext ==
    \/ Launch \/ GoesOffline \/ ComesOnline \/ BecomesVisible \/ TimerConnects \/ AuthTimesOut
    \/ \E h \in FeedChannels : Want(h) \/ Unwant(h)
    \/ \E s \in SocketIds : Drops(s) \/ FeedReceives(s) \/ FeedServer(s)

FeedSpec == FeedInit /\ [][FeedNext]_feedVars

\* Timers run down, messages arrive, and the server answers or times out.
FairFeed ==
    /\ WF_feedVars(TimerConnects) /\ WF_feedVars(AuthTimesOut)
    /\ \A s \in SocketIds : WF_feedVars(FeedReceives(s)) /\ WF_feedVars(FeedServer(s))

-----------------------------------------------------------------------------
\* Nothing is on its way, and the server takes the socket for a client.
Settled(s) == ServerIs(s, "client") /\ feedSocket[s].up = <<>> /\ feedSocket[s].down = <<>>

(* Unless two sockets lived at once, the page gets what it shows: when all *)
(* messages have arrived, the server serves exactly the wanted channels,   *)
(* whatever was sent too early, dropped or queued, except those changed on *)
(* an open socket while an older change waited in the queue, which is sent *)
(* behind it; "connected" is said only of a socket that is authenticated.  *)
FeedCarriesWhatIsWanted ==
    ~paralleled =>
        /\ \A s \in SocketIds : Settled(s) =>
              s = currentSocket /\ feedSocket[s].subs \ overtaken = wanted \ overtaken
        /\ feedStatus = "connected" => ServerIs(currentSocket, "client")

\* No attempt is left, and no socket or timer.
GivenUp == reconnects = MaxReconnects /\ feedTimers = 0 /\ Alive = {}

(* A feed that is not connected will be, or has made all its attempts in   *)
(* vain: an attempt to authenticate that is still pending for a lost       *)
(* socket does not block the next one for ever.  Only a socket the server  *)
(* failed to register stays open, and keeps the page waiting; and where    *)
(* two sockets lived at once, the one that closes may leave the page       *)
(* "disconnected", but then another one is served (the last disjunct is    *)
(* where MaxFeedSockets ends a behaviour).                                 *)
FeedRestored ==
    currentSocket # 0 ~>
        \/ feedStatus = "connected" \/ GivenUp
        \/ \E s \in SocketIds : ServerIs(s, "unserved")
        \/ paralleled /\ \E s \in SocketIds : ServerIs(s, "client")
        \/ feedTimers > 0 /\ Unmade = {}

=============================================================================
