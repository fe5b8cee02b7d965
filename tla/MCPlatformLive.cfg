\* Small instances of the services that promise something in the end.
SPECIFICATION FairPlatformSpec
CONSTANTS
    Services = {"orders", "auth", "connections", "quotes", "consumer", "feed"}
    OrderCalls = {c1, c2}
    MaxOrderRequests = 2
    Floats = {0, 1, 2}
    EvenFloats = {0, 2}
    FilledFrom = 1
    Indices = {0}
    Amounts = {1}
    SetStatuses = {"EXPIRED"}
    AuthCalls = {a1, a2}
    MaxPairs = 1
    MaxRequests = 2
    MaxFaults = 1
    RegistryCalls = {}
    Contracts = {"x"}
    Methods = {}
    Permissions = {}
    ValidUntils = {}
    ExpirationDays = {}
    Month = 0
    Hour = 0
    MaxRegistryTime = 0
    MaxWallets = 1
    MaxKeys = 1
    MaxRegistryRequests = 0
    MaxRegistryFaults = 0
    Sockets = {s1}
    Channels = {user}
    UserRoom = user
    MaxClients = 2
    MaxRedisFaults = 1
    Tools = {t1, t2}
    OneInch = oneinch
    QuoteAmounts = {1}
    MaxQuotes = 1
    Events = {}
    RetryAttempts = 0
    MaxProducers = 1
    MaxSendFaults = 0
    Checks = {k1, k2}
    Boot = boot
    MaxConsumers = 2
    MaxEvents = 0
    MaxConsumerFaults = 2
    FeedChannels = {h1}
    MaxReconnects = 1
    MaxFeedSockets = 3
    MaxFeedChanges = 2
    Tokens = {}
    Native = eth
    FeeBase = 1
    FeeRates = {}
    SwapAmounts = {}
    MaxSwaps = 0
    StartBalances <- RouterBalances
    PortfolioSyncs = {}
    Earlier = earlier
    Assets = {}

    TradeCalls = {}
    TradeHashes = {t}
    ListKeys = {}
    ClearedKeys = {}
    MaxTradeRequests = 0
    MaxTradeFaults = 0

    TokenPairs = {"eth-x"}
    ChainOf <- PairChains
    AddressOf <- PairAddresses
    DefaultChain = "A"
    PageAmounts = {}
    MaxEdits = 0
    MaxAttempts = 0
PROPERTIES
    ViewsExpire
    RevocationSticks
    GhostsAreSwept
    QuotesEnd
    RestartsEnd
    FeedRestored
CHECK_DEADLOCK FALSE
