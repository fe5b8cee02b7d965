---------------------------- MODULE Connections ----------------------------
(***************************************************************************)
(* Sockets of one user at a websocket server: connectionHandler.ts, the    *)
(* subscribe, unsubscribe and heartbeat handlers of messageHandlers.ts and *)
(* connectionManager.ts.  A socket authenticates by a message; the token   *)
(* is verified, the client is entered in the maps of the manager, and only *)
(* after the awaits on Redis are the socket's handlers attached.  Nothing  *)
(* is asked again after an await, so the socket may have been closed.      *)
(*                                                                         *)
(* A client is the number of the authentication that made it.  Left out:   *)
(* what the messages say, the answers, the metrics and the copies of the   *)
(* maps kept in Redis, which no code reads.                                *)
(***************************************************************************)
EXTENDS Naturals, FiniteSets

CONSTANTS
    Sockets,          \* sockets that connect
    Channels,         \* channels clients may subscribe to; UserRoom is one
    UserRoom,         \* the channel user:<id> a client joins by itself
    MaxClients,       \* bound: authentications
    MaxRedisFaults    \* bound: registrations whose Redis commands fail

ASSUME ConnectionsAssumption ==
    /\ UserRoom \in Channels
    /\ MaxClients \in Nat /\ MaxRedisFaults \in Nat

VARIABLES
    socket,           \* new, open, closing (the close frame is sent), closed
    pending,          \* pendingConnections: sockets to be authenticated
    client,           \* the authentications and the clients they made
    connected,        \* connections and userConnections: the registered clients
    members,          \* subscriptions: channel |-> clients
    channels,         \* client.subscriptions
    speaker,          \* the client a socket's messages are handled for, 0 for none
    quiet,            \* clients whose last ping is more than two minutes old
    stale,            \* the stale clients a cleanup has listed and not yet removed
    swept,            \* history: clients a cleanup removed
    redisFaults

registry == <<connected, members, channels>>
connectionVars == <<socket, pending, client, registry, speaker, quiet, stale, swept, redisFaults>>

Clients == 1..MaxClients
NoClient == [socket |-> "none", pc |-> "none", twins |-> {}]

ConnectionsTypeOK ==
    /\ socket \in [Sockets -> {"new", "open", "closing", "closed"}]
    /\ pending \subseteq Sockets
    /\ client \in [Clients ->
         [socket : Sockets, pc : {"verify", "register", "live", "over"}, twins : SUBSET Clients]
           \cup {NoClient}]
    /\ connected \subseteq Clients /\ quiet \subseteq Clients
    /\ stale \subseteq Clients /\ swept \subseteq Clients
    /\ members \in [Channels -> SUBSET Clients] /\ channels \in [Clients -> SUBSET Channels]
    /\ speaker \in [Sockets -> 0..MaxClients]
    /\ redisFaults \in 0..MaxRedisFaults

ConnectionsInit ==
    /\ socket = [s \in Sockets |-> "new"] /\ pending = {}
    /\ client = [a \in Clients |-> NoClient]
    /\ connected = {} /\ members = [h \in Channels |-> {}] /\ channels = [a \in Clients |-> {}]
    /\ speaker = [s \in Sockets |-> 0]
    /\ quiet = {} /\ stale = {} /\ swept = {} /\ redisFaults = 0

\* A closing socket still hands over the messages that were on their way.
Hears(s) == socket[s] \in {"open", "closing"}
OfSocket(s) == {a \in Clients : client[a].socket = s}
StateIs(a, pc) == client[a].pc = pc

\* socket.close(): the 'close' event follows later.
Closing(s) == [socket EXCEPT ![s] = IF @ = "open" THEN "closing" ELSE @]

\* removeConnection: the client leaves every map at once; the awaits only concern Redis.
Removed(gone) ==
    /\ connected' = connected \ gone
    /\ members' = [h \in Channels |-> members[h] \ {a \in gone \cap connected : h \in channels[a]}]
    /\ UNCHANGED channels

-----------------------------------------------------------------------------
(* A socket connects, and is authenticated or closed.                      *)

Connect(s) ==
    /\ socket[s] = "new"
    /\ socket' = [socket EXCEPT ![s] = "open"] /\ pending' = pending \cup {s}
    /\ UNCHANGED <<client, registry, speaker, quiet, stale, swept, redisFaults>>

Awaited(s) == s \in pending /\ Hears(s) /\ speaker[s] = 0

\* A message that isn't an authentication with a token.
RefuseMessage(s) ==
    /\ Awaited(s)
    /\ socket' = Closing(s)
    /\ UNCHANGED <<pending, client, registry, speaker, quiet, stale, swept, redisFaults>>

\* The token goes to the auth service.
Authenticate(s) ==
    /\ Awaited(s)
    /\ LET others == {b \in OfSocket(s) : StateIs(b, "verify")} IN
       \E a \in Clients :
         /\ StateIs(a, "none") /\ \A b \in 1..(a - 1) : ~StateIs(b, "none")
         /\ client' = [client EXCEPT ![a] = [socket |-> s, pc |-> "verify", twins |-> others]]
    /\ UNCHANGED <<socket, pending, registry, speaker, quiet, stale, swept, redisFaults>>

Refused(a) ==
    /\ StateIs(a, "verify")
    /\ client' = [client EXCEPT ![a].pc = "over"]
    /\ socket' = Closing(client[a].socket)
    /\ UNCHANGED <<pending, registry, speaker, quiet, stale, swept, redisFaults>>

NotPending(s) == pending \ {s}

\* addConnection enters the client in the maps before its first await.
Verified(a) ==
    /\ StateIs(a, "verify")
    /\ client' = [client EXCEPT ![a].pc = "register"]
    /\ pending' = NotPending(client[a].socket)
    /\ connected' = connected \cup {a}
    /\ UNCHANGED <<socket, members, channels, speaker, quiet, stale, swept, redisFaults>>

\* Mutant: the channel gets the client whether or not it is registered.
JoinedUnchecked(a, h) ==
    /\ members' = [members EXCEPT ![h] = @ \cup {a}]
    /\ channels' = [channels EXCEPT ![a] = @ \cup {h}]

\* addToSubscription, of a registered client only.
Joined(a, h) ==
    IF a \in connected
      THEN /\ members' = [members EXCEPT ![h] = @ \cup {a}]
           /\ channels' = [channels EXCEPT ![a] = @ \cup {h}]
      ELSE UNCHANGED <<members, channels>>

\* removeFromSubscription looks for the channel first, and for the client only to note it there.
Left(a, h) ==
    /\ members' = [members EXCEPT ![h] = @ \ {a}]
    /\ channels' = IF a \in connected THEN [channels EXCEPT ![a] = @ \ {h}] ELSE channels

\* Redis has answered: from here on the socket's messages and its 'close' are the client's.
Registered(a) ==
    /\ StateIs(a, "register")
    /\ client' = [client EXCEPT ![a].pc = "live"]
    /\ speaker' = [speaker EXCEPT ![client[a].socket] = a]
    /\ Joined(a, UserRoom)
    /\ UNCHANGED <<socket, pending, connected, quiet, stale, swept, redisFaults>>

\* Redis fails: the pending entry is gone, so the error handler finds no socket to close.
RegistrationFails(a) ==
    /\ StateIs(a, "register") /\ redisFaults < MaxRedisFaults
    /\ redisFaults' = redisFaults + 1
    /\ client' = [client EXCEPT ![a].pc = "over"]
    /\ UNCHANGED <<socket, pending, registry, speaker, quiet, stale, swept>>

\* Mutant: the socket is left to the client to close.
AuthTimeoutOnly(s) ==
    /\ s \in pending
    /\ pending' = NotPending(s)
    /\ UNCHANGED <<socket, client, registry, speaker, quiet, stale, swept, redisFaults>>

\* The timer of setupAuthTimeout.
AuthTimeout(s) ==
    /\ s \in pending
    /\ socket' = Closing(s) /\ pending' = NotPending(s)
    /\ UNCHANGED <<client, registry, speaker, quiet, stale, swept, redisFaults>>

\* The 'close' event runs the handlers that are attached by then.
ClosedClients(s) == {a \in OfSocket(s) : StateIs(a, "live")}

Close(s) ==
    /\ Hears(s)
    /\ socket' = [socket EXCEPT ![s] = "closed"]
    /\ pending' = NotPending(s)
    /\ Removed(ClosedClients(s))
    /\ UNCHANGED <<client, speaker, quiet, stale, swept, redisFaults>>

-----------------------------------------------------------------------------
(* Messages of a client.                                                   *)

Subscribe(s, h) ==
    /\ Hears(s) /\ speaker[s] # 0
    /\ Joined(speaker[s], h)
    /\ UNCHANGED <<socket, pending, client, connected, speaker, quiet, stale, swept, redisFaults>>

Unsubscribe(s, h) ==
    /\ Hears(s) /\ speaker[s] # 0
    /\ Left(speaker[s], h)
    /\ UNCHANGED <<socket, pending, client, connected, speaker, quiet, stale, swept, redisFaults>>

\* The answer is "pong" also when the client is not registered any more.
Heartbeat(s) ==
    /\ Hears(s) /\ speaker[s] # 0
    /\ quiet' = quiet \ ({speaker[s]} \cap connected)
    /\ UNCHANGED <<socket, pending, client, registry, speaker, stale, swept, redisFaults>>

-----------------------------------------------------------------------------
(* cleanup, once a minute: the stale clients are listed, then removed one  *)
(* by one with awaits between; their sockets are not closed.               *)

TwoMinutesPass(a) ==
    /\ a \in connected \ quiet
    /\ quiet' = quiet \cup {a}
    /\ UNCHANGED <<socket, pending, client, registry, speaker, stale, swept, redisFaults>>

\* Mutant: only clients whose handlers are attached are looked at.
StaleAmongLive(known) == {a \in known \cap quiet : StateIs(a, "live")}

StaleAmong(known) == known \cap quiet

ListStale ==
    /\ ~(StaleAmong(connected) \subseteq stale)
    /\ stale' = stale \cup StaleAmong(connected)
    /\ UNCHANGED <<socket, pending, client, registry, speaker, quiet, swept, redisFaults>>

SweepOne(a) ==
    /\ a \in stale
    /\ stale' = stale \ {a}
    /\ swept' = swept \cup ({a} \cap connected)
    /\ Removed({a})
    /\ UNCHANGED <<socket, pending, client, speaker, quiet, redisFaults>>

-----------------------------------------------------------------------------
SocketStep(s) ==
    \/ Connect(s) \/ RefuseMessage(s) \/ Authenticate(s) \/ AuthTimeout(s) \/ Close(s)
    \/ Heartbeat(s)
    \/ \E h \in Channels : Subscribe(s, h) \/ Unsubscribe(s, h)

ClientStep(a) ==
    \/ Refused(a) \/ Verified(a) \/ Registered(a) \/ RegistrationFails(a)
    \/ TwoMinutesPass(a) \/ SweepOne(a)

ConnectionsNext ==
    \/ \E s \in Sockets : SocketStep(s)
    \/ \E a \in Clients : ClientStep(a)
    \/ ListStale

ConnectionsSpec == ConnectionsInit /\ [][ConnectionsNext]_connectionVars

\* Time passes, and the timer of the cleanup and the awaits of a removal go on.
FairConnections ==
    /\ WF_connectionVars(ListStale)
    /\ \A a \in Clients : WF_connectionVars(TwoMinutesPass(a)) /\ WF_connectionVars(SweepOne(a))

-----------------------------------------------------------------------------
(* However subscribing, closing and cleaning up interleave, a channel has  *)
(* registered members only, and exactly those that list the channel: an    *)
(* event is never sent to a client that has left, nor to one that did not  *)
(* ask for it.                                                             *)
SubscriptionsAgree ==
    \A h \in Channels :
        /\ members[h] \subseteq connected
        /\ \A a \in connected : a \in members[h] <=> h \in channels[a]

(* An open socket waits to be authenticated, is being authenticated, or    *)
(* has a client that hears it, unless Redis failed: no socket is forgotten *)
(* by the timeout, a refusal or an error.  One whose messages are answered *)
(* is registered, and so gets its events, unless a cleanup removed it; it  *)
(* is registered twice, and gets every event twice, only if the second     *)
(* token was sent while the first was being verified.                      *)
SocketsAreServed ==
    /\ \A s \in Sockets : socket[s] = "open" =>
        /\ \/ s \in pending \/ speaker[s] # 0 \/ redisFaults > 0
           \/ \E a \in OfSocket(s) : StateIs(a, "verify") \/ StateIs(a, "register")
        /\ speaker[s] # 0 => speaker[s] \in connected \cup swept
    /\ \A a, b \in connected :
        a < b /\ client[a].socket = client[b].socket => a \in client[b].twins

(* A socket that closes while its client is registered leaves a ghost no   *)
(* 'close' event removes; the cleanup does in the end.                     *)
GhostsAreSwept ==
    \A a \in Clients :
        a \in connected /\ socket[client[a].socket] = "closed" ~> a \notin connected
=============================================================================
