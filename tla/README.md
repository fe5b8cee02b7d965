# MoonX Farm: models, checks and proofs

TLA+ models of the parts of MoonX Farm whose behaviour depends on order,
failure and concurrency. Paths below are relative to the repository.

- [1. Inventory](#1-inventory): the components, what each keeps and does, what makes it correct
- [2. Modules](#2-modules): which module models what, and how it corresponds to the code
- [3. Runs](#3-runs): what TLC checks, with which bounds and which fairness
- [4. Proofs](#4-proofs): what holds for every value of the constants, and why
- [5. Where code and documentation disagree](#5-where-code-and-documentation-disagree)
- [6. What is not modelled](#6-what-is-not-modelled)
- [7. Plan](#7-plan)

To check a configuration: `tlc -config MCSyncProcessor.cfg MCSyncProcessor.tla`.
To check the proofs: `tlapm` on `SyncProcessorProofs.tla`, `DiamondProofs.tla`,
`RouterProofs.tla`, `AuthProofs.tla`, `ChannelProofs.tla`, `ServiceProofs.tla`,
`EventProofs.tla` and `QuotesProofs.tla`.
`PROJECT.json` names, for every definition, the lines it models, and for every
property of a passing run a bug of the code (a definition marked `Mutant:`)
that the property rules out.

## 1. Inventory

| Component | State | Operations | Interacts with |
|---|---|---|---|
| **Sync worker: processor** `workers/sync-worker/src/workers/syncProcessor.ts` | one `circuitBreaker` map per process; the awaits of each running `processJob` | `processJob`, `performPortfolioSync`, `loadCircuitBreakerStates`, `isCircuitBreakerOpen`, `recordFailure`, `recordSuccess` | MongoDB `sync_operations` and `user_sync_status` (`mongoSyncService.ts`), PostgreSQL `user_token_holdings` (`databaseService.ts`), Kafka (`kafkaEventPublisher.ts`), Alchemy |
| **Sync worker: queue and cluster** `messageQueueListener.ts`, `main.ts` | BullMQ queue `sync-jobs` in Redis; one process per fork | add, take, acknowledge, stall, cancel a job; fork a process that exited | the processor; the Redis lists of the core |
| **Sync worker: scheduler** `scheduler/periodicSyncScheduler.ts` | `userSyncInfo` map of each process, two timers | main loop, stale-data loop, hourly reload | reads both MongoDB collections, adds jobs to the queue |
| **Sync on demand** core `syncProxyService.ts`, `messageQueueService.ts`; worker `messageQueueListener.ts` | Redis lists `sync:requests`, `sync:responses:<jobId>`; `rateLimitMap` | `triggerUserSync`, `sendSyncRequest`, `waitForResponse`; `listenToQueue`, `handleSyncRequest`, `sendResponse` | the queue |
| **Router contract: diamond** `contracts/src/Diamond.sol`, `libraries/LibDiamond.sol`, cut, loupe and ownership facets | the function table by selector and by facet; the owner | `diamondCut` (add, replace, remove, initialise), `fallback`, the loupe, `transferOwnership` | the facets it delegates to |
| **Sync worker: fetch and holdings** `alchemyService.ts`, `databaseService.ts` | PostgreSQL `user_token_holdings` | `getFullPortfolio` chain by chain, `savePortfolioHoldings` in a transaction | the processor; Alchemy; the core reads the table |
| **Router contract: swaps and fees** `helpers/AggregatorProxy.sol` and the swap facets | token balances, fee recipient | one aggregator call with fees on either side | tokens, aggregators |
| **Core: orders** `orderService.ts`, `models/order.ts` | orders and executions in PostgreSQL, four cached views in Redis | create, update, cancel, `recordExecution`, the reads | the keeper that executes |
| **Core: trades and P&L** `tradesService.ts`, `pnlService.ts`, `cacheService.ts` | table `user_trades`; lists and P&L cached in Redis | add, update and list trades, calculate the P&L | the web client, PostgreSQL |
| **Core: portfolio, market data, stats reader** | caches | queries and arithmetic | outside APIs, PostgreSQL, MongoDB |
| **Wallet registry** `walletService.ts`, `sessionKeyManager.ts`, `zeroDevClient.ts` | wallets, private keys and session keys in PostgreSQL, permissions on chain | create, deploy, status; find, create, validate, use, revoke a session key | ZeroDev, the chain |
| **Auth service** `authController.ts`, `sessionController.ts`, `jwtService.ts`, `redisService.ts`, `authMiddleware.ts` | sessions in PostgreSQL, refresh tokens and revoked tokens in Redis, answers held in memory | login, refresh, logout, revoke, revoke others, deactivate, authenticate | Privy |
| **WebSocket service** `connectionManager.ts`, `connectionHandler.ts`, `messageHandlers.ts` | maps of connections and subscriptions in memory | connect, authenticate, subscribe, heartbeat, close, clean up | auth service, clients |
| **WebSocket service: Kafka consumer** `kafkaConsumer.ts` | `isRunning`, the timer of the health checks, the consumer | start, stop, handle an event, check the health, restart | Kafka, the pool of the shared client |
| **Aggregator service** (Go) `aggregator.go`, `aggregator_quotes.go`, `lifi.go`, `cache.go` | the goroutines and channels of a request; caches | fan-out of a quote with timers and a context; prices, token lists | providers |
| **Notify service** `notificationService.ts`, `databaseService.ts` | notifications, delivery records, queue | send, schedule, minute timer, retry | channels, templates, preferences |
| **Stats worker** `scheduler.ts`, `statsAggregator.ts` | `isRunning` of each job | cron jobs | MongoDB, providers |
| **Shared Kafka client and event publisher** `kafka.ts`, `events/eventPublisher.ts` | pool of producers and consumers with their last use | publish with attempts, dead letters, removal of idle connections, shutdown | Kafka; the workers and the websocket service |
| **Shared packages** Redis, Mongo and PostgreSQL clients, common, configs | connections | retries, prefixes | everything |
| **Web: live feed** `apps/web/src/services/websocket` | the current socket, the authentication under way, wanted subscriptions, offline queue, timers | connect, reconnect, authenticate, subscribe, resubscribe, replay | the websocket service, the auth service |
| **Web: swap page** `swap-interface.tsx`, `swap-button.tsx`, `use-swap.ts`, `use-quote.ts`, `use-auto-chain-switch.ts`, `contracts.ts` | inputs, quotes by key, the selected quote, the wallet's client, the button's state, the executor's lock | type, select tokens or a quote, swap, retry, switch the chain, record the trade | the aggregator, the wallet, the router, core |
| **Web: other pages; landing application; deployment** | user interface | | |

What is hard in each, and what makes it correct:

- **Processor.** A job is some fifteen awaits against three stores. Calls of one
  user interleave in one process and across processes; any update may fail and
  most errors are swallowed; the process may die between any two awaits and
  BullMQ then runs the job again under a new operation id. Correct means: a
  record that says *completed* is true, an outcome is final, events agree with
  the records, the counters lose nothing, every job ends, and every record left
  behind is accounted for.
- **Breaker.** It is in the memory of each process and is rebuilt after a crash
  from another source by another rule. Correct means: it holds nothing against
  a user that is not a recorded failure.
- **Scheduler.** It decides from an answer that is an await old, and from a map
  a reload replaces. Correct means: stale data is synced, and a user is not
  synced twice at once. Neither holds without conditions; see section 5.
- **Sync on demand.** The core's timer races the answer, and the poll loop
  outlives the call; commands are repeated when a reply is lost; a request taken
  from the list dies with its process. Correct means: success is never reported
  for a job that is not there, no call hangs, no answer stays behind.
- **Diamond.** Two representations of one table, kept in step by swap-and-pop in
  nested arrays. Correct means: they never disagree, and the router's own
  functions cannot be cut away.
- **Orders.** A request reads the row, awaits, and writes what follows from the
  old row; four views are set after an await and dropped by every writer.
  The amounts are texts, added as floats. Correct means: the executed amount is a sum
  of executions, each counted once; one is lost only to another execution at the same
  time; no read answers what is older than the request.
- **Auth.** A session is a row, two keys in Redis and an answer held in memory;
  ending it is three calls sent together of which any may fail. Correct means:
  an ended session is not brought back by a login or refresh under way.
- **Wallet registry.** Find-or-create without a lock, at the level of wallets and
  of keys, and keys that are found by four limits and the time they last; a user
  operation that is sent and then not confirmed, or whose reply is lost. Correct means:
  duplicates come from overlap only, and a caller told of a failure may retry unless a
  call was lost.
- **Connections.** The maps change between the awaits of the authentication, of a
  close and of the cleanup. Correct means: both directions of the subscription
  maps agree, no open socket is forgotten, every ghost goes away.
- **Quotes.** Results, two timers and the context race in two nested collections.
  Correct means: the answer is in order and complete, and everything ends.
- **Publisher.** Calls share one producer that a timer removes when it looks idle,
  and two calls that find none each make one; a reply may be lost. Correct means:
  what is reported as sent is there, what is not is a dead letter, and nothing is
  there twice that Kafka did not keep silent about.
- **Consumer.** A health check that takes longer than its period overlaps the next,
  and both stop and start the same consumer. Correct means: the flag says whether
  events are read, and a restart ends.
- **Live feed.** Three events make sockets without asking whether one is being made;
  the authentication is remembered apart from the socket it was begun on; changes
  made offline are replayed. Correct means: the server ends up with the
  subscriptions the page wants, and the feed comes back after a close unless the server
  forgot the socket.
- **Router's money.** The amounts of a swap are differences of balances around a
  call of an unknown contract, and the balances are read at different moments: of the
  native currency first, less what the call brings, of the input before its transfer, of
  the output after it and only if there is a fee. Correct means: the router ends a swap
  with what it had before.
- **Holdings.** Delete and insert of the same rows by transactions that do not see
  each other. Correct means: the table holds what the last save fetched.
- **Trades.** Writers clear some of the views, and readers fill them an await after
  they read the table. Correct means: a read made long enough after an acknowledged
  write shows it.
- **Swap page.** The user goes on editing while amounts settle, quotes arrive, the
  wallet changes its chain and a swap is under way; the button is replaced while it
  does. Correct means: what is sent is what was shown at the click, by one swap at a
  time, and a swap that succeeded is recorded.

## 2. Modules

| Module | Models | State and actions |
|---|---|---|
| `Breaker` | the circuit breaker's transitions, as operators on one entry of the map | `Asked` (isCircuitBreakerOpen), `AfterFailure`, `AfterSuccess`, `Reloaded` |
| `SyncProcessor` | queue, processes, every await of `processJob` | `job`: BullMQ's record; `pc`, `op`: where the call is and its `syncOperationId`; `ops`, `sync`: the MongoDB collections; `wrote`: which operations' holdings PostgreSQL committed (a history variable); `events`: Kafka; `breaker`, `up`: per process |
| `SyncPipeline` | extends `SyncProcessor` with the two loops of every process's scheduler and the clock | `age`, `idle`, `loaded`: `userSyncInfo`, which is empty in a process whose `start` failed to load the users; `loop`: where each loop is and what it read |
| `SyncChannel` | the request and response lists between core and worker | `call`, `polls`: the promise and the poll loop of `waitForResponse`, apart because the timer stops only one; `limit`; `inbox`, `answers` by prefix; `jobs`; `poller` |
| `SyncRequests` | what `SyncChannel` promises who triggers a sync | `told`, `queued`; `Admit`, `Queue`, `Report` |
| `Diamond` | the function table of the router and its cuts | `ds`: `DiamondStorage`; `begun`: the storage a revert goes back to; `phase`; `owner` |
| `RouterTable` | what `Diamond` promises: one table, changed by whole cuts of the owner | `routes`, `loupe`, `owner`; `Cut`, `Transfer` |
| `Orders` | one DCA order of one user | `order`: the row and its version; `executions`: the table with UNIQUE(order_id, execution_index); `FloatSum`: parseFloat and the sum of two floats; `views`: the cached views; `orderCall`: where each request is and what it read |
| `AuthSessions` | the tokens of one user | `sessions`: table user_sessions; `refreshKeys`, `blacklist`: Redis; `heldAnswers`: the process's blacklistCache; `authCall`: where each request is and which of its deletions are still out |
| `WalletRegistry` | wallets and session keys of one user | `wallets`, `privateKeys`, `keys`: the tables; `onChain`; `registryTime`: the clock of validities and lives; `Compatible`: arePermissionsCompatible, limit by limit; `registryCall` |
| `Connections` | the sockets of one user at one server | `socket`, `pending`: the handshake; `client`: each authentication; `connected`, `members`, `channels`: the manager's maps; `speaker`: for whom a socket's messages are handled; `quiet`, `stale`: the cleanup |
| `Quotes` | one request for quotes | `context`; `call`, `reply`: the goroutines and their channels; `lifi`, `collection`: the two collections with their timers. The two sorts are functions of the list, one place after another as the loops go |
| `EventPublisher` | the events of a worker on their way to Kafka | `publication`: where the call of each event is; `producer`, `pooled`: the producers made and the one the pool keeps; `topic`, `deadLetters` |
| `EventConsumer` | the consumer of the websocket service | `isRunning`, `monitored`; `manager`, `consumer`, `keptConsumer`: KafkaManager and its pool; `starter`: what the server's start and each check do; `handled`: how often each event was |
| `LiveFeed` | the web client's end of the live feed, against the server's end of each socket | `feedSocket`; `currentSocket`, `feedStatus`, `authAttempt`, `wanted`, `offlineQueue`, `reconnects`: the managers' fields; `feedTimers` |
| `RouterSwap` | the money of a swap through `_callAggregator` | `balance`: of each holder in each currency; `lastSwap` |
| `Holdings` | overlapping saves of one wallet's holdings | `holdings`: the committed rows; `save`: each sync's transaction, row by row |
| `Trades` | trades and P&L of one user | `trades`: the table; `cached`: the views; `acknowledged`: the writes whose callers were told; `tradeCall` |
| `SwapPage` | the swap page | `shown`, `debounced`: the inputs; `book`: react-query's state by key; `selected`, with whether the quotes shown list its id; `pageClient`, `switching`, `lastProcessed`: useAutoChainSwitch; `swapStep`, `swapTimers`: useSwap; `executing`: the executor's lock; `attempt`: each swap, with what was shown at its click |
| `MCPlatform` | the twelve from `Orders` on, one of them at work in a behaviour | `atWork` |
| `SyncProcessorProofs` | theorems about `SyncProcessor` and `SyncPipeline` | |
| `DiamondProofs`, `AuthProofs`, `QuotesProofs` | theorems about `Diamond`, `AuthSessions`, `Quotes` | |
| `ChannelProofs` | theorems about `SyncChannel` and `Holdings` | |
| `RouterProofs` | theorems about `Diamond` as an implementation of `RouterTable`, `RouterSwap` and `SwapPage` | |
| `ServiceProofs` | theorems about `Orders`, `Trades` and `WalletRegistry` | |
| `EventProofs` | theorems about `Connections`, `EventPublisher`, `EventConsumer` and `LiveFeed` | |
| other `MC...` | instances for TLC: symmetry and the constraint `OneDisruption` | |

**How a call becomes actions.** In `SyncProcessor` an action is one await: the
effect on the store together with the synchronous code up to the next await.
The order of a call, with the awaits of `Awaits` in parentheses:

    processJob: createSyncOperation (create), markSyncStarted, breaker (start)
      performPortfolioSync: markSyncStarted (restart), getFullPortfolio (fetch),
        savePortfolioHoldings (save), markSyncCompleted (synced),
        getUserTokenHoldings, recordSuccess (verify)
        on an error: markSyncFailed (unsynced), recordFailure
      updateSyncOperation completed (complete), markSyncCompleted (recount),
        publishSyncCompleted (announce)
      on an error: updateSyncOperation failed (fail), markSyncFailed (refail),
        publishSyncFailed (lament)

so the double marking of the status, by the inner and the outer function, is in
the model, and `StatusSettles` says what it does to the counters.
The operation id is chosen before the first await, so a call whose
`createSyncOperation` threw with the record stored still closes that record.
`saveCircuitBreakerState` is translated as the no-op it is: it looks the wallet
up in PostgreSQL's `sync_operations`, which the worker never fills, and swallows
the error.

**Faults.** `DbFault` is a database call that fails (bounded by `MaxFaults`); in
`Save` and `CreateOp` it may also have taken effect with its reply lost.
A failing portfolio fetch, a rolled-back transaction and an event that is not
published are ordinary outcomes and are not bounded. `Crash` is an exit with
jobs under way; memory (calls, breakers, scheduler map) is gone, the lock of
each held job expires, and `Stalled` is BullMQ finding it.

**Composition.** `SyncPipeline` has no client: requests of the core do not reach
the worker (section 5), so the scheduler is the only source of jobs.
`SyncChannel` keeps of the queue only what it needs: BullMQ ignores a second add
under a known job id.

In the twelve services of `MCPlatform` an action is again what runs from one await
to the next, and a request is a record with the await it is at (`pc`) and what it
has read. In `SwapPage` a render with the effects it causes belongs to the step that
causes it. None of these services reads or writes what the module of another
models: they meet only through data that is abstracted (a token's validity, a
user's id). `MCPlatform` therefore lets one of them work in each behaviour; every
pair of steps that could disturb each other is still interleaved.

**Failing calls of the services.** In `Orders` any await may reject and end the
request (`Abort`); an invalidation sends its deletions together, so any of them
may have been done. In `AuthSessions` most handlers go on when a call of Redis or
PostgreSQL fails, which `Fails` counts against `MaxFaults`; the same holds in
`WalletRegistry`, where a failure ends some requests and is only logged in others, and
where `sendUserOperation` may fail although the bundler took the operation.
In `Connections` the one failure with consequences is Redis's in the middle of a
registration. In `Quotes` every provider may fail or never answer. A send of
`EventPublisher` may fail, or be appended and its reply lost, and a connection may
fail (`MaxSendFaults`). In `EventConsumer` any call of Kafka may fail and a running
consumer crash (`MaxConsumerFaults`). Sockets of `LiveFeed` close, are refused or are
never answered, the server's Redis fails while it registers one, and the browser goes
offline. In `RouterSwap` a call that reverts
leaves nothing. In `Holdings` a transaction may roll back, and of two that wait for
each other one is aborted. In `Trades` the cache's errors are swallowed, a query may
fail, and a write may be stored with its reply lost (`MaxTradeFaults`). In `SwapPage`
a request for quotes, a switch of the chain and a swap may each fail, and a failed
swap may have been sent.

**Data.** User ids, tokens, holdings, provider answers and messages are model
values or are left out; time is `age`, in ticks since `lastSyncAt`, and the flags
`cooled` (nextAttemptTime has passed) and `over` (the rate-limit window ended).
`failureCount` saturates at the threshold, the only value it is compared with.
A version of an order's row counts its updates, so that *older* has a meaning; an
access and a refresh token issued together are one number. The amounts of an order
are whole numbers in some unit, `Floats` are those a float holds, and a sum is the
nearest of them, with an even significand if two are as near; `FilledFrom` is the least
of them whose ratio to the order's amount is 0.99 or more, which is one threshold since
rounding a quotient keeps its order. The permissions of a session key are the contracts
and methods it may call, a limit of gas and one of amounts, and the end of its validity;
the gas limits, which the code compares as texts, are numbered in the order of texts.
A quote is its source and its amount for the aggregator, and for the page the inputs it
was asked for and whether its id is listed: ids are compared
(`swap-interface.tsx:786-806`), and one may name only the second it was made in
(`oneinch.go:591`) or come from a cache (`oneinch.go:118`), so any answer may list the
id of a quote for other inputs. Further, a row of trades is the number of its writes, a row of holdings who made it
and who wrote it last; an amount of the router is a small number and a fee a share
of `FeeBase`.

**Diamond.** Positions are one higher than in Solidity; storage is a record of
functions and sequences. A transaction is `Begin`, one step for each selector,
`Commit` or `Revert`; between its steps nothing else runs, as on chain.
It is assumed that the initializer of a cut does not write the table itself
(it runs by delegatecall and could).

## 3. Runs

| Run | Question | Bounds |
|---|---|---|
| `processor_safety` | Do records, events, counters and breakers stay true of one another? | 1 user, 2 processes, 2 jobs, 3 operations, one crash or one failure, breaker on |
| `processor_liveness` | Does every job end, and every record with it? | 1 process, 2 jobs, one crash and one failure, breaker off |
| `pipeline` | What does an orphaned operation do to its user, and is stale data synced again otherwise? | 1 user, 1 process, both loops, 2 jobs, one crash |
| `pipeline_duplicate` | Does the duplicate check keep a user from two syncs at once? (no) | `Concurrency` 2, no faults |
| `pipeline_stale` | Is stale data synced whatever happened? (no) | one crash |
| `channel` | Do timeouts, repeated and lost commands and crashes leave the caller and the lists right? | 2 calls, 1 worker, 2 failing commands, 1 crash, one prefix |
| `channel_prefix` | Does a request reach the worker? (no) | the two prefixes of the code, no faults |
| `channel_limit` | Is the limit of requests kept? (no) | 2 calls at once, limit 1 |
| `diamond` | Do the two views of the table agree, and do they implement one plain table? | 3 selectors, 4 addresses, one without code |
| `platform` | What do two requests, sockets or goroutines of one service do to each other? | `MCPlatform.cfg` |
| `platform_liveness` | What do the services promise in the end? | `MCPlatformLive.cfg` |
| `quotes_timeout` | Does the collection's timer end the waiting, as its comment says? (no) | the aggregator alone |

What the properties say is at their definitions. Shown by the passing runs:

- `CompletedMeansSaved`, `TerminalIsFinal`, `EventsAreTrue`: no interleaving of two
  calls, no failure and no crash makes the worker claim a sync that is not in
  PostgreSQL, change an outcome, or announce both outcomes of one operation.
- `OrphansExplained`: each crash orphans at most one operation for each job the
  process may hold, each swallowed failure at most one; nothing else does.
- `StatusSettles`: after undisturbed calls the status is not left at *running*,
  and each success is counted twice, each failure twice, a failure after the
  holdings were saved as one success and two failures. *Undisturbed* excludes failing
  calls of a database: a lost write of the status is left as it is by the code too, and
  so is a COMMIT whose reply is lost, after which a stored portfolio counts as a failure.
- `FailuresAreBacked`: a breaker, rebuilt or not, counts no failure that is not
  recorded or about to be.
- `EverySyncEnds`: jobs survive crashes, and no record stays *running* but an orphan.
- `OrphanSilences`: once a user has an orphaned operation no loop of any process
  ever adds a job for it again. `StaleIsForcedUnlessOrphaned`: that is the only
  thing that keeps stale data from being synced. *Synced* means that `lastSyncAt` is
  new, which `markSyncStarted` makes it: a fetch that fails again and again is
  started again and again.
- `ImplementsRequests`, `CallsAreWoundUp`: the channel's late, lost and repeated
  messages harm neither the caller (a call is admitted or turned away, queued once,
  answered once, with success after the job only) nor Redis.
- `TableConsistent`, `ImplementsRouter`: see section 4. `RouterTable` asks of who cuts
  only that the router has an owner; that it is the owner is a guard of `Begin`.
- `ExecutionsAddUp`: recordExecution computes from a row it
  read two awaits before. Unless a client sets it, the executed amount is always what
  executions in the table add up to in some order, each taken once, with the rounding
  of their float additions and no other error; one is
  lost from the order only to another recordExecution under way at the same time.
- `AnswersAreCurrent`, `ViewsExpire`: whatever readers and writers leave in the
  cache, a successful read is not older than its request, the details of an order
  list every execution the order counts, and a view that makes reads fail goes away unless a reader died between SET and
  EXPIRE.
- `EndedStaysEnded`, `LogoutLeavesNothing`, `RevocationSticks`: no login or refresh
  under way revives an ended session; a logout all of whose calls worked leaves
  neither row nor key; a revoked token is refused for good once the answer held
  for a minute is gone.
- `TwinsNeedOverlap`: a second wallet, or a second key although an earlier usable one
  allows all that it does, lasts as long and has an hour left, comes from overlapping
  requests or an explicit creation only. A request without a validity asks for 30 days
  from now, so a key made a moment ago does not last as long and is not found: that is
  what the code does, and not a duplicate in this sense (section 5).
  `SentIsToldUnlessExpired`: a request answered with an error although its
  operation was sent was one that waited while its key expired, or one of whose own
  calls failed: the reply of the bundler or the receipt was lost.
- `SubscriptionsAgree`, `SocketsAreServed`, `GhostsAreSwept`: the maps of the websocket
  server agree through every close, cleanup and late authentication, no open socket
  is forgotten unless Redis failed or registered twice unless its tokens overlapped,
  and a client that registered after its socket closed is removed by the cleanup.
- `BestQuoteFirst`, `QuotesEnd`: two sorts and a truncation keep the best quote
  first; no timer loses one; the context ends every goroutine.
- `EventsAreAccounted`: an event reported as sent is in the topic; one reported as
  failed is a dead letter, unless Kafka failed every time or the pool removed the
  producer under it; it is there twice only after a reply was lost.
- `FlagIsTrue`, `RestartsEnd`: unless checks cross, `isRunning` tells the truth, one
  consumer at most lives, each event is handled once at most, and a restart ends
  with a consumer or with a start that failed.
- `FeedCarriesWhatIsWanted`: unless two sockets lived at once, the
  server serves what the page wants once all messages have arrived.
  `FeedRestored`: a lost feed comes back or has used up its attempts. The exceptions are
  named: a socket the server failed to register stays open and keeps the page waiting,
  and where two sockets lived at once the page may say *disconnected* while one of them
  is served.
- `RouterKeepsItsOwn`: whatever the aggregator takes and gives, a swap leaves the
  router's tokens as they were, in a swap of a currency for itself too. The one exception
  is an output token without a fee, whose earlier balance the code does not read.
- `LastSaveStands`: overlapping saves leave what the last of them fetched, and beside
  it only rows that a save open at the same time inserted.
- `LateReadsSeeWrites`: a list or P&L asked for after an acknowledged write shows it,
  unless the view is one no write clears, was filled during the write, or a call of
  Redis failed.
- `SentIsShown`, `SwapsAreReported`: a swap is for the pair and the amount shown when
  the button was clicked, but for three windows the property names: the amount had
  not settled, a quote selected for other inputs outlived them (the quotes shown list
  its id, the request for them failed or was not made, or the click was a retry), or the
  switch of the chain had failed. One swap is under way at a time, even from a new button, and a
  successful one is reported unless its button was replaced.

**Why the bounds are enough.** The processor's hazards are between two calls for
one user: two jobs, in one process or two, reach every pair of awaits. Three
operations let one job stall and run again beside the other. One disruption at
a time (`OneDisruption`) is the bound of the safety run; the liveness run has a
crash and a failure together. `Threshold` is 2 and `ReloadThreshold` 1, so that
both opening and reloading happen with three operations; the code's 5 and 3 need
more jobs and no other behaviour. `MaxCount` 8 is above what three operations
can count, so no counter saturates where `StatusSettles` reads it; where it is
0 the counters are not looked at. `Due`, `Stale` and `Dormant` keep the code's
order, and `Exhausted` excepts states in which the bound on jobs is used up.
Two calls and two failing commands reach every race of a call with its timer
and with a repeated or lost command; `MaxErrors` 2 lets the poll loop give up.
Three selectors and three facets with code make every case of swap-and-pop
happen in both arrays: first, middle, last and only entry.
In `platform` every hazard is between two requests, so each service has two at
once and as many requests in all as let a third find what the two left: three
for orders (two executions and a read) and the registry (a wallet, a key and its
use), two for auth beside the login that has happened. Two execution indexes and
two amounts let an order be filled at once, in two parts, or overfilled; with floats of
two bits 2 + 3 is rounded to 4, so sums are inexact too. Two
contracts and two sets of limits, one within the other, let a key be found for one
request and not for another; with one step of the clock, lives of one step and of two (the
month), and an hour of one, a key can outlive the step or end with it, and two default
validities differ; two sockets and two
authentications let one socket have two clients and one user two sockets; two
tools and `MaxQuotes` 1 let LiFi's answer be cut short. Two events with one retry
and three faults let every attempt and the dead letter of one fail while the other
makes a producer; two checks overlap, and three consumers are what they and the
server's start can make; three sockets of the feed are a first, its replacement and
one beside it. One swap starts with a router that holds 0 or 1 of each currency,
with a fee of none or a half on either side. Three saves of two assets let one
save meet two others one after the other; three requests of trades, with one key a
write clears and one it does not, let a read fill a view during a write and another
read it after. Three pairs of the page, on two chains, are one, its twin with the same
addresses on the other chain, and one with others there; two amounts are close enough
for a selection to stay, and an empty input is a third; two swaps let one be tried
while another is under way, and two edits change the inputs before and after the
first click. Each exception `SentIsShown` names happens in the run. The liveness run has the smallest instance in which the promise can
fail: two readers of one view, two requests and one failing call at auth, one socket
that authenticates twice, two checks, one channel of the feed with one attempt to
reconnect, three sockets and two changes (a subscription, the network or a fault of the
server's Redis); that two sockets live at once and one is left happens there.

**Symmetry** is used only in runs without liveness; in `platform` only the calls of
`Orders` are symmetric, which is where it saves most. **Deadlock** is not checked:
every run can use up its bounded jobs, calls, requests or faults and stop, and the
diamond stops when its owner is the zero address or diamondCut is unrouted.

**Fairness.** Weak fairness of each await of a started call (Node goes on running
callbacks; every external call here answers or fails), of taking waiting jobs, of
the stalled check, of the two timers of the scheduler, of the core's 90 s timer,
and of forking: the primary forks a process that exited with a nonzero code
(one that exits with 0 is not forked again and is not a `Crash` here). In the
pipeline, time passes, and the hourly reload is reached again and again (strongly fair:
`runScheduler` comes round every `interval`, and reloads if the hour began less than an
`interval` ago, so one run in each hour does); a load that fails may be skipped, but not
every hour. Clients, crashes, failures, cancellations, the end of a
rate-limit window and the outcome of a fetch are not fair: they may never happen.
In the services: the awaits of a request that do not fail, the eviction of a
key that has an expiry, the timer of a held answer, the cleanup timer with its
removals and the passing of its two minutes, the deadline of a request's context
and the goroutines that wait for it, the calls of a start of the consumer, the
pauses of a restart, and in the feed the timers of reconnecting and authenticating,
the messages on their way and the server's answers. Clients, closes of a socket, expiry of tokens,
failing calls and the answers of providers are not fair.

## 4. Proofs

Every theorem is about any values of the constants that satisfy the assumption the
module states by name: any sets of users, processes, requests, sockets, events and
channels, any number of steps, and any number of crashes and failures. `StatusesSettle` alone
has a hypothesis of its own, `Uncapped`, explained with it. Every safety
invariant was first checked by TLC, and so was the inductive one it was
strengthened to, for some on instances larger than the run's: the subscriptions with two
sockets, three clients and two channels (6.1 million states), the publisher with four
producers and four faults (0.3), the consumer with three checks and two faults (6.5), the
swap page with three edits and three pairs (5.3), the feed with two channels, three
sockets and two reconnections (about 10). Strengthened invariants belong to the proofs
and are in the proof modules.

Some assumptions are there for the proofs alone, and say what the code gives for
granted: a start of a swap is a balance for each currency, `Contracts` and `TradeHashes`
are not empty, `NoChain` is no chain of the page, and a feed has finitely many channels.

### Sync worker (`SyncProcessorProofs`)

| Theorem | States | Along |
|---|---|---|
| `TypeCorrect` | `Spec => []TypeOK` | `Inv` |
| `CompletedIsSaved` | `Spec => []CompletedMeansSaved` | `Inv` |
| `OutcomesAreFinal` | `Spec => TerminalIsFinal` | `Inv`, step by step |
| `AnnouncementsAreTrue` | `Spec => []EventsAreTrue` | `Inv` and `EventsMatch` |
| `OrphansAreExplained` | `Spec => []OrphansExplained` | `WithinCapacity` and `LossesExplained` |
| `FailuresBacked` | `Spec => []FailuresAreBacked` | what each breaker has counted, over the failed operations |
| `StatusesSettle` | `Uncapped => (Spec => []StatusSettles)` | `Settled`: the counters add up to the operations' shares in them |
| `OrphansSilence` | `PipelineSpec => OrphanSilences` | `PipelineInv`, which is `Inv` with typed loops |

`updateSyncOperation` writes whatever status it is told over whatever the record
says, so none of these is inductive. `Inv` adds who may write, and when:
`CallsAreHeld` (a running call belongs to an active job of a process and a
user), `OpsAreOwned` (no two calls hold the same operation id) and `StagesAgree`
(for each await, what the call's record says, and that past the transaction the
holdings are committed). A crash disowns its operations, so no later call can
write them. There is a lemma for each action; `NextInv` puts them together.

Three more count. `OrphansExplained` is proved of a larger set, `Lost`: a
running record is lost as soon as its call is past the await that should have
closed it, and from there on no step adds to the set but a refused update, by one,
and a crash, by no more than the jobs the process held (`CapacityKept`). A breaker
and the failed records of its user change one await apart, so `FailuresBacked`
counts the calls between the two with the records.

`StatusSettles` speaks of a user at rest; `Settled` says what its counters hold while
the calls still run. Each operation has a `Share` in each counter, a first and a second
time, which its call's await, its record and whether its holdings are committed
determine; `Tally` adds the shares up over the operations of a user, and `AddsUp`
says how the counters follow from the tally, whatever the order of the calls. Each
action moves one operation, so it changes the tally by that operation's share
(`TallyMoves`), and `Ledger` is the table of those changes: the same as what the
action's update does to the document. `Uncapped` (`MaxCount` is at least twice the number
of operations) is about the model alone: its counters saturate at `MaxCount`, the
numbers in `user_sync_status` do not. TLC checked `Settled` over 2 users, 2 processes,
3 jobs and 3 operations with `MaxCount` 6 (2.0 million states).

`OrphansSilence` needs `Inv` again, now with the scheduler as the only source of jobs:
a batch puts its jobs where no call runs. Then nothing closes an orphan, since whoever
writes a record holds its id (`OrphansStay`), and a batch that reads the active
operations reads it (`BatchesKnow`).

### Sync on demand (`ChannelProofs`)

| Theorem | States | Along |
|---|---|---|
| `ChannelTypeCorrect` | `Spec => []ChannelTypeOK` | `ChannelInv` |
| `OneJobPerSuccess` | `Spec => []SuccessIsOneJob` (no run checks it: `ImplementsRequests` implies it) | `ChannelInv` |
| `ChannelImplements` | `Spec => ImplementsRequests` | `ChannelInv`, `Followed` |

Everything that can say *queued* is followed back to the job: the result of a call,
the answers in Redis under either prefix (`QueuedIsTrue`), and what a worker's poll
loop is about to answer (`PollersAgree`). `CountsEnds` bounds the rate limit's count
by the calls that ended, which is what keeps it within its type.

`ChannelImplements` shows that the channel implements `SyncRequests`. What a caller
knows, `Told`, is read from its call; what was queued is BullMQ's job. The lists, the
answers, the poll loops, the rate limit and the faults are invisible. The one thing
to add to `ChannelInv` is that a request on its way, in a list or in a worker, is one
of a call that was admitted (`Followed`): so a call turned away leaves no job behind, and
a job comes late only to a call that failed or still waits. Every step of a call then maps
to `Admit`, `Report` or a stutter (`CallMoves`), and of a worker's only the first add of
a job to anything, `Queue`.

### Router (`DiamondProofs`, `RouterProofs`)

| Theorem | States | Along |
|---|---|---|
| `TypeCorrect` | `Spec => []TypeOK` | `Inv` |
| `TableStaysConsistent` | `Spec => []TableConsistent` | `Inv` |
| `LoupeIsRouting` | the loupe lists what is routed (no run checks it: `TableConsistent` implies it) | from `TableConsistent` |
| `ImmutableStays` | no step of a cut moves the router's own functions (no run checks it: part of what `RouterProofs` uses) | `Inv` and what each step leaves routed |
| `RouterImplemented` | `Spec => ImplementsRouter` | `Inv`, `CutInv` |
| `RouterKeeps` | `SwapSpec => RouterKeepsItsOwn` | arithmetic over one swap |

`Consistent(d, opening)` says that each array entry and each mapping entry point
at each other. Inside a step it fails: `addFacet` lists a facet that has no
selector yet, and `replaceFunctions` removes the old selector in that state,
which may drop another facet and move the opening one in the array. The lemmas
therefore carry the facet along as `opening`. A revert returns to `begun`,
so `Inv` says of both storages that they are consistent.

`RouterImplemented` shows that this implements `RouterTable`. Under the refinement
mapping `Committed` a transaction is invisible until it commits: the routes are those
of the storage before its first step, and the loupe is read from the arrays, not from
the mapping. Every step of a cut, a refused cut and a revert then map to a stutter;
`Commit` maps to `Cut`, for which `CutInvHolds` keeps what all steps since `Begun`
have left alone.

`RouterKeeps` follows the router's balance of each currency through the transfers of
one swap (`Gains`, `Loses`); what it needs of the rounding of fees is that a fee is
between nothing and the amount, and nothing at a rate of nothing.

### Swap page (`RouterProofs`)

`PageSendsWhatItShows` (`PageSpec => []SentIsShown`) and `PageReportsItsSwaps`
(`PageSpec => []SwapsAreReported`) along `PageInv`, which says what the page holds
before a click: `Quoted` (a selected quote has the addresses of the inputs, and while there are quotes to
show its id is among theirs), `PageWallet` (the client follows the inputs unless the
switch failed) and `PageSwaps` (one attempt under way, and it holds the lock).
The attempt to prove the first showed that the property was false beyond the run's
bound on edits: a selected quote also outlives the inputs when the amount is emptied,
the pair replaced by its twin and an amount typed again, since no request is made in
between. `kept` names that case now.

### Core service and wallet registry (`ServiceProofs`)

| Theorem | States | Along |
|---|---|---|
| `OrderAnswersAreCurrent` | `OrdersSpec => []AnswersAreCurrent` | `OrdersInv` |
| `ExecutionsKept` | `OrdersSpec => []ExecutionsAreKept`, a conjunct of `ExecutionsAddUp` | `KeptInv` |
| `ExecutionsCounted` | `OrdersSpec => []ExecutionsAddUp` | `SumInv`, `KeptInv` |
| `LateReadsAreExplained` | `TradesSpec => []LateReadsSeeWrites` | `TradesInv` |
| `TwinsOverlapped` | `RegistrySpec => []TwinsNeedOverlap` | `RegistryInv` |
| `SentIsTold` | `RegistrySpec => []SentIsToldUnlessExpired` | `RegistryInv` |

The invariants say for each await of a request what it holds (`Agrees`, `RequestKeeps`,
`Fits`) and for each two requests what they know of one another (`Apart`, `Meets`,
`Together`). A step of one request is checked against itself and every other one.
`OrdersInv` says of every request, from its first read on, that the row it has read is
no older than the request and that the executions it has listed contain every one that
row counts.
`KeptInv` says that a recording which ran alone is read by every recording that writes
after it.
`SumInv` says that a row's executed amount is one of the sums of its own executions
(`Covered`), of the row in the table and of the one each recording has read: a
recording adds its amount to a row it has read awaits ago, and what keeps the sum
right is that its execution is in the table under its index and not yet in that row
(`Adds`). Additions of floats are not associative, so `FloatSums` is a set: what can
come of adding the executions in any order. It is a function on sets that takes one
element away at a time, of which `SubsetInduction` proves that it depends on the
executions summed only (`SumsAgree`), and that a sum and one number more is a sum of
them all (`OneMore`). Of floats nothing is assumed but that there is one and that they
are numbers: `RoundedType` shows that one of them is nearest. TLC checked `SumInv` over
two calls at once, three requests and two indexes (0.7 million states).
In `RegistryInv` a row is only looked for before the first of its kind: that
two usable keys overlap is the choice of the least. A request that found no key knows of
every usable one that it lacks a limit, ends before what is asked or within the hour
(`Covers`), and the clock only adds to that.

### Auth (`AuthProofs`)

`EndedSessionsStayEnded` (`AuthSpec => []EndedStaysEnded`) along `AuthInv`. The
property alone is not inductive, since a login stores the key of its new pair: what
has to be added is `Fresh`, that a pair which is being issued is one number no
other request holds, no client was given and no deletion has seen.
`LogoutsLeaveNothing` (`AuthSpec => []LogoutLeavesNothing`) along `LogoutInv`: a row
is known by the pair of its login (`RowsAgree`), and the rows a logout has read carry
its token until a refresh races it (`LogoutAgrees`). The race is marked by the row
the refresh has found and not by its token, which several refreshes replace in turn.

### Holdings (`ChannelProofs`)

`SavesStand` (`HoldingsSpec => []LastSaveStands`) along `HoldingsInv`. When a save
commits, a row it has neither written nor deleted must be one that another save
inserted while both were open. Nothing in `LastSaveStands` says so of a save still
open, so `Accounted` says of every open save and every committed row that the
DELETE has still to reach the row, has deleted it, or could not see it since its
inserter was open too; and `Apart`, that no two open saves hold the same row, makes
`Accounted` survive the commits of others.

### Quotes (`QuotesProofs`)

| Theorem | States | Along |
|---|---|---|
| `BestQuotesAnswered` | `QuotesSpec => []BestQuoteFirst` | `QuotesInv` |
| `QuotesTypes` | `QuotesSpec => []QuotesTypeOK` | `QuotesInv` |

Half of the proof is about the two sorts, for lists of any length. A loop is a recursive
function on an interval; `LoopsRun` unfolds such a function, and what a loop keeps is
proved by `SetInduction`, where a set of numbers stands in for the predicate. `Moves`
says what one pass may do to a list (quotes change places from one place on),
`BestAt` what it must reach there; `SortedTo` says so of every place before, and
`LoopSorts` puts the passes together once for both sorts, since an exchange (LiFi) and
a selection (the aggregator) satisfy the same two. For a caller a sort is then: the
same quotes, none twice, best first (`ExchangeSortedFacts`, `OrderedFacts`), and
LiFi's answer: the best `MaxQuotes` of them, or all (`LiFiAnswerFacts`).

The other half is about the request. `Gathers` says of a collector's list that it has
one quote for each call it took that replied with one, whatever came first; `Serves` says the
same of LiFi's answer, cut short, with what was cut off no better than what was kept;
`Collects` and `Answers` of the aggregator's list before and after its sort. A call
not yet taken matters to none of them (`OnlyTakenCount`), which is why neither a late
reply nor a timer does any harm. TLC checked `QuotesInv` with three tools and
`MaxQuotes` 2 (184 thousand states).

### Events on their way to the user (`EventProofs`)

| Theorem | States | Along |
|---|---|---|
| `ChannelsAgree` | `ConnectionsSpec => []SubscriptionsAgree` | `MembershipInv` |
| `NoSocketIsForgotten` | `ConnectionsSpec => []SocketsAreServed` | `MembershipInv`, `ServedInv` |
| `PublisherKeepsItsWord` | `PublisherSpec => []EventsAreAccounted` | `PublisherInv` |
| `FlagTellsTheTruth` | `ConsumerSpec => []FlagIsTrue` | `FlagInv` |
| `FeedShowsWhatIsWanted` | `FeedSpec => []FeedCarriesWhatIsWanted` | `FeedInv` |

- `ServedInv`: a socket that is open is pending, has a speaker, or has an
  authentication on its way; an authentication knows the earlier ones of its socket
  (`TwinsKnown`), which is what makes two registered clients of one socket overlap.
- `PublisherInv`: every failed attempt of a call was a fault of Kafka unless the pool
  was removing a producer, and every copy of an event but the one that ended its call
  has lost its reply (`Accounted`); the pool knows every open producer unless two
  calls made one at once (`PoolKnows`).
- `FlagInv`: as long as checks do not cross, one start or restart at a time is
  under way, and no other consumer runs beside it (`Stage`).
- `FeedInv`: the messages on their way to the server are read as a sequence. The last
  one about a channel says whether it is wanted (`LastAgrees`), and a channel no
  message is about is served exactly if it is wanted (`UpToDate`); before the
  client's resubscription only the first half holds of what is served (`Early`).
  `SocketStage` says which of the two it is at each stage of the handshake; a socket
  the server failed to register hears and answers nothing more.
  `Subscriptions` is some sequence with one message for each channel, whose order the
  proof does not know.

### What stays with TLC

- Liveness: the prover does not reason about fairness or ENABLED.
- `PlatformTypeOK`, which only collects the types of twelve modules; of eight of them
  the inductive invariants contain the types.
- The five disagreements of section 5, which are counterexamples.

The library's induction theorems take the predicate as an operator, which the provers
cannot instantiate. Where a proof needs induction over data (the sorts, the sums), it is
over the members of a set: `Smallest` and `SetInduction`, both from the fact that `<` is
well founded on `Nat`.

No module declares a recursive operator.

## 5. Where code and documentation disagree

Each of the first five is a run that finds the disagreement.

- **Two syncs of one user at once** (`pipeline_duplicate`). The duplicate check
  reads operation records, which exist only once a job runs. Two loops, or two
  processes, each add a job before either runs.
- **Stale data that is never synced** (`pipeline_stale`). A crash leaves a record
  *running*; nothing closes it, and the duplicate check then excludes the user
  for ever. `PERIODIC_SYNC.md` promises a forced sync.
- **Requests that never arrive** (`channel_prefix`). The Redis clients of core
  and worker put different prefixes before the list names the comment says must
  match. `channel` shows that the protocol is sound once the prefixes agree.
- **More requests than the limit** (`channel_limit`). The limit is asked before
  the awaits of a call and counted after them.
- **A timeout that is none** (`quotes_timeout`). The `break` in the timer's case
  leaves Go's `select` and not the loop: the collection goes on waiting until the
  context ends. That no quote is lost (`BestQuoteFirst`) holds for the same reason.

The models describe more of the kind without a property of their own:

- the state of the breaker, which the worker's README says survives restarts, is
  never stored, and a job the open breaker turns away counts as a failure and
  restarts the cool-down;
- `getActiveOrders` and `getOrderDetails` fail while their view is cached, since
  RedisManager has parsed what they parse again; `getUserOrders` and
  `getOrderStats` fall back to the database;
- `executionCount` of a DCA order is read as undefined, so each execution counts
  as the first;
- the refresh token a refresh hands out is not stored in Redis and is refused when
  it is used, while the old one stays valid;
- revoking a session key looks in the wallet with the empty id and never finds it;
- an approval without contracts grants every contract, while the search for a
  compatible key treats it as granting none;
- `deleteAllRefreshTokens` scans for a pattern that lacks the key prefix;
- two health checks that overlap can leave `isRunning` set with no consumer, for
  ever; a restart whose start fails is not repeated, its timer being gone;
- an event may be in the topic and a dead letter too, when a reply is lost;
- a message the web client sends before it is authenticated makes the server close
  the socket, and a change queued offline is replayed after newer ones;
- a swap whose output token has no fee pays out the router's whole balance of it;
- a chain whose requests to Alchemy fail is an empty answer, so the sync deletes the
  holdings on that chain and reports success; two saves at once can leave the union
  of what they fetched;
- a request to execute transactions that names no validity never finds the session key
  an earlier one made, since that key's 30 days began earlier: a second later it creates
  another, where `walletController.ts:396` and `sessionKeyManager.ts:480` speak of
  reusing keys and preventing duplicates;
- a user operation the bundler took is answered with an error when its reply is lost;
- when Redis fails while the server registers a socket, the error handler looks for the
  pending entry that is gone by then and leaves the socket open: the page stays
  *connecting* until the network closes it;
- a quote selected on the swap page outlives a change of the inputs when the quotes for
  the new ones list the same id, and ids of some providers repeat within a second;
- a write clears a fixed list of `recent_trades` keys, while the route allows any
  limit and number of days, and never the P&L; a failing query of the trades is
  cached as a P&L without trades;
- the route of trades accepts the types buy and sell, which the table rejects;
- the cached portfolio is kept by user, so another wallet of the same user is
  answered the first one's for five minutes;
- the swap page sends a quote the user selected for another amount, or for a native
  token of another chain, while the request for what is shown has failed, and within
  the debounce the quote of the amount before; after a failed switch of the chain it
  sends through the client of the default chain;
- a swap whose button was replaced by a switch of the chain succeeds without its
  trade being recorded;
- four seconds after a success the input is emptied, whatever has been typed since.

## 6. What is not modelled

Within modelled components: priorities of jobs and the eviction of finished ones,
the breaker's cleanup after 24 hours, sync statistics, the portfolio-updated
event, a process exiting with code 0, `registerUser` and other entry points
nobody calls, the status, operations and cancel lists (they work as the request
list does), malformed requests; limit orders (a DCA order without its counter);
attempt counters and the cached profile of auth; permissions with a limit missing;
the copies of the connection maps in Redis, which no code reads; the circuit
breakers of the aggregator, which nothing records a result in; batches, metrics and
the bound of the Kafka pool; the consumer's routing rules, topics and signals;
Firebase, the heartbeat, the promises of `subscribe` and `disconnect` of the web
client; the cross-chain facet, the setter of the fee recipient and tokens that move
another amount than they are told; the requests to Alchemy with their retries,
breaker, prices and metadata; the sums of the P&L and `updateTradePnL`, which
nothing calls; the swap page's balances, price impact, slippage, URL, gas and building
of the call, an answer without a quote, and `globalExecutionLock`, which only ignores
a click.

Whole components:

- **Notify.** Little of it can run: `sendNotification` reads camelCase fields of
  snake_case rows and throws after its insert, and PostgreSQL rejects the query for
  due notifications. A model of the queue behind them would describe states the
  program does not reach.
- **Stats worker.** Cron jobs over outside data; `isRunning` is read and set without
  an await between.
- **Market data, portfolio, prices, stats queries.** Reads of outside data with caches
  that expire.
- **Gas, channels, templates, preferences.** Thin layers over outside services.
- **Shared packages other than Kafka.** Prefixes, parsing, retries and errors appear in the models
  that use them.
- **Other pages, landing application, deployment, scripts.** No state other components rely on.

## 7. Plan

Modelled in this order: the processor and its breaker, the scheduler, the channel,
the diamond; then orders, auth, the registry, connections and quotes; then the
plain table the diamond implements and the requests the channel does; then the publisher, the consumer, the live feed,
the money of a swap, the holdings, the trades and the swap page. Proved: every
safety and action property the runs check, but for `PlatformTypeOK`. What is left:

1. More of what is listed in section 6, above all the other lists of the channel and
   the requests to Alchemy.
2. An abstract specification of the subscriptions, with the refinement.
