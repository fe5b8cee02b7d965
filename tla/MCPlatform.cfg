\* One service at work at a time; two requests, calls or sockets at once in each.
SPECIFICATION PlatformSpec

CONSTANTS
    Services = {"orders", "auth", "registry", "connections", "quotes",
                "publisher", "consumer", "feed", "router", "holdings", "trades",
                "page"}

    OrderCalls = {c1, c2}
    MaxOrderRequests = 3
    Floats <- SmallFloats
    EvenFloats <- SmallEven
    FilledFrom = 4
    Indices = {0, 1}
    Amounts = {2, 3}
    SetStatuses = {"PENDING"}

    AuthCalls = {a1, a2}
    MaxPairs = 2
    MaxRequests = 2
    MaxFaults = 1

    RegistryCalls = {r1, r2}
    Contracts = {"x", "y"}
    Methods = {"m"}
    Permissions <- PermissionSets
    ValidUntils = {2}
    ExpirationDays = {1}
    Month = 2
    Hour = 1
    MaxRegistryTime = 1
    MaxWallets = 2
    MaxKeys = 2
    MaxRegistryRequests = 3
    MaxRegistryFaults = 1

    Sockets = {s1, s2}
    Channels = {user, prices}
    UserRoom = user
    MaxClients = 2
    MaxRedisFaults = 1

    Tools = {t1, t2}
    OneInch = oneinch
    QuoteAmounts = {0, 1, 2}
    MaxQuotes = 1

    Events = {e1, e2}
    RetryAttempts = 1
    MaxProducers = 3
    MaxSendFaults = 3

    Checks = {k1, k2}
    Boot = boot
    MaxConsumers = 3
    MaxEvents = 1
    MaxConsumerFaults = 2

    FeedChannels = {h1}
    MaxReconnects = 2
    MaxFeedSockets = 3
    MaxFeedChanges = 3

    Tokens = {usd, eur}
    Native = eth
    FeeBase = 4
    FeeRates = {0, 2}
    SwapAmounts = {0, 2}
    MaxSwaps = 1
    StartBalances <- RouterBalances

    PortfolioSyncs = {p1, p2, p3}
    Earlier = earlier
    Assets = {x1, x2}

    TradeCalls = {d1, d2}
    TradeHashes = {t}
    ListKeys = {"common", "rare"}
    ClearedKeys = {"common"}
    MaxTradeRequests = 3
    MaxTradeFaults = 1

    TokenPairs = {"eth-x", "eth2-x", "b-x"}
    ChainOf <- PairChains
    AddressOf <- PairAddresses
    DefaultChain = "A"
    PageAmounts = {20, 21}
    MaxEdits = 2
    MaxAttempts = 2

SYMMETRY Symmetry

INVARIANTS
    PlatformTypeOK
    ExecutionsAddUp
    AnswersAreCurrent
    EndedStaysEnded
    LogoutLeavesNothing
    TwinsNeedOverlap
    SentIsToldUnlessExpired
    SubscriptionsAgree
    SocketsAreServed
    BestQuoteFirst
    EventsAreAccounted
    FlagIsTrue
    FeedCarriesWhatIsWanted
    LastSaveStands
    LateReadsSeeWrites
    SentIsShown
    SwapsAreReported

PROPERTY RouterKeepsItsOwn

\* Calls, requests and sockets are bounded, and the services may stop.
CHECK_DEADLOCK FALSE
