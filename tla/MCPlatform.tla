----------------------------- MODULE MCPlatform -----------------------------
(* The services around the sync pipeline.  None of them reads or writes    *)
(* what another one's module models, so one of them works in a behaviour   *)
(* while the others rest: interleaving two of them would show nothing new. *)
EXTENDS Orders, AuthSessions, WalletRegistry, Connections, Quotes,
        EventPublisher, EventConsumer, LiveFeed, RouterSwap, Holdings, Trades,
        SwapPage, TLC

CONSTANT Services   \* the services that may be the one at work

VARIABLE atWork

Symmetry == Permutations(OrderCalls)

\* Floats of two bits: from 4 on not every number is one, and 2 + 3 is rounded to 4.
SmallFloats == {m * 2^e : m \in 0..3, e \in 0..3}
SmallEven == {m * 2^e : m \in {0, 2}, e \in 0..3}

\* Limits of which one is within the other; a permission without contracts restricts none.
PermissionSets ==
    {[contracts |-> {}, methods |-> {}, gas |-> 1, amount |-> 0],
     [contracts |-> {"x"}, methods |-> {"m"}, gas |-> 2, amount |-> 1]}

\* The router may hold a little of everything, which no swap is about.
RouterBalances ==
    {[h \in Holders |-> [c \in Currencies |->
        IF h = "recipient" THEN 0 ELSE IF h = "router" THEN n ELSE 4]] : n \in {0, 1}}

\* The wallet starts on the chain of "eth-x"; both "eth" are native tokens.
PairChains == [p \in TokenPairs |-> IF p = "eth-x" THEN "A" ELSE "B"]
PairAddresses == [p \in TokenPairs |-> IF p = "eth2-x" THEN "eth-x" ELSE p]

PlatformInit ==
    /\ atWork \in Services
    /\ OrdersInit /\ AuthInit /\ RegistryInit /\ ConnectionsInit /\ QuotesInit
    /\ PublisherInit /\ ConsumerInit /\ FeedInit /\ SwapInit /\ HoldingsInit
    /\ TradesInit /\ PageInit
    /\ atWork # "orders" => order = NoRow
    /\ atWork # "router" => balance["router"][Native] = 0
    /\ atWork # "holdings" => lastSave.answer = {}
    /\ atWork # "trades" => trades = NoTrades

OrdersWork ==
    /\ atWork = "orders" /\ OrdersNext
    /\ UNCHANGED <<atWork, authVars, registryVars, connectionVars, quoteVars,
                   publisherVars, consumerVars, feedVars, swapVars, holdingVars, tradeVars, pageVars>>

AuthWorks ==
    /\ atWork = "auth" /\ AuthNext
    /\ UNCHANGED <<atWork, orderVars, registryVars, connectionVars, quoteVars,
                   publisherVars, consumerVars, feedVars, swapVars, holdingVars, tradeVars, pageVars>>

RegistryAtWork ==
    /\ atWork = "registry" /\ RegistryNext
    /\ UNCHANGED <<atWork, orderVars, authVars, connectionVars, quoteVars,
                   publisherVars, consumerVars, feedVars, swapVars, holdingVars, tradeVars, pageVars>>

ConnectionsWork ==
    /\ atWork = "connections" /\ ConnectionsNext
    /\ UNCHANGED <<atWork, orderVars, authVars, registryVars, quoteVars,
                   publisherVars, consumerVars, feedVars, swapVars, holdingVars, tradeVars, pageVars>>

QuotesWork ==
    /\ atWork = "quotes" /\ QuotesNext
    /\ UNCHANGED <<atWork, orderVars, authVars, registryVars, connectionVars,
                   publisherVars, consumerVars, feedVars, swapVars, holdingVars, tradeVars, pageVars>>

PublisherWorks ==
    /\ atWork = "publisher" /\ PublisherNext
    /\ UNCHANGED <<atWork, orderVars, authVars, registryVars, connectionVars,
                   quoteVars, consumerVars, feedVars, swapVars, holdingVars, tradeVars, pageVars>>

ConsumerWorks ==
    /\ atWork = "consumer" /\ ConsumerNext
    /\ UNCHANGED <<atWork, orderVars, authVars, registryVars, connectionVars,
                   quoteVars, publisherVars, feedVars, swapVars, holdingVars, tradeVars, pageVars>>

FeedWorks ==
    /\ atWork = "feed" /\ FeedNext
    /\ UNCHANGED <<atWork, orderVars, authVars, registryVars, connectionVars,
                   quoteVars, publisherVars, consumerVars, swapVars, holdingVars, tradeVars, pageVars>>

RouterWorks ==
    /\ atWork = "router" /\ SwapNext
    /\ UNCHANGED <<atWork, orderVars, authVars, registryVars, connectionVars,
                   quoteVars, publisherVars, consumerVars, feedVars, holdingVars, tradeVars, pageVars>>

HoldingsWork ==
    /\ atWork = "holdings" /\ HoldingsNext
    /\ UNCHANGED <<atWork, orderVars, authVars, registryVars, connectionVars,
                   quoteVars, publisherVars, consumerVars, feedVars, swapVars, tradeVars, pageVars>>

TradesWork ==
    /\ atWork = "trades" /\ TradesNext
    /\ UNCHANGED <<atWork, orderVars, authVars, registryVars, connectionVars, quoteVars,
                   publisherVars, consumerVars, feedVars, swapVars, holdingVars, pageVars>>

PageWorks ==
    /\ atWork = "page" /\ PageNext
    /\ UNCHANGED <<atWork, orderVars, authVars, registryVars, connectionVars, quoteVars,
                   publisherVars, consumerVars, feedVars, swapVars, holdingVars, tradeVars>>

PlatformNext ==
    \/ OrdersWork \/ AuthWorks \/ RegistryAtWork \/ ConnectionsWork \/ QuotesWork
    \/ PublisherWorks \/ ConsumerWorks \/ FeedWorks \/ RouterWorks
    \/ HoldingsWork \/ TradesWork \/ PageWorks

PlatformVars == <<atWork, orderVars, authVars, registryVars, connectionVars, quoteVars,
                  publisherVars, consumerVars, feedVars, swapVars, holdingVars, tradeVars, pageVars>>

PlatformSpec == PlatformInit /\ [][PlatformNext]_PlatformVars

\* A service at rest has no action that fairness would make it take.
FairPlatformSpec ==
    /\ PlatformSpec
    /\ FairOrders /\ FairAuth /\ FairConnections /\ FairQuotes /\ FairConsumer /\ FairFeed

(* The variables of every service keep their types; those of a service at   *)
(* rest do not change.                                                     *)
PlatformTypeOK ==
    /\ atWork = "orders" => OrdersTypeOK
    /\ atWork = "auth" => AuthTypeOK
    /\ atWork = "registry" => RegistryTypeOK
    /\ atWork = "connections" => ConnectionsTypeOK
    /\ atWork = "quotes" => QuotesTypeOK
    /\ atWork = "publisher" => PublisherTypeOK
    /\ atWork = "consumer" => ConsumerTypeOK
    /\ atWork = "feed" => FeedTypeOK
    /\ atWork = "router" => SwapTypeOK
    /\ atWork = "holdings" => HoldingsTypeOK
    /\ atWork = "trades" => TradesTypeOK
    /\ atWork = "page" => PageTypeOK
=============================================================================
