SPECIFICATION FairSpec
CONSTANTS
    NumFallbacks = 2
    SubscriptionTimeout = 2
    CallTimeout = 2
    ReconnectInterval = 3
    Capacity = 2
    HttpProviders <- HttpFallback
    AllowHttp = TRUE
    Emitters <- EveryProvider
    Cancellable = TRUE
INVARIANTS
    TypeOK
    IndexNamesBackend
    ClockArmedOnFallback
PROPERTIES
    FailoverInOrder
    AttemptsKeepInterval
    ImplementsPromise
    ReturnsToPrimary
    RecvReturns
    RecvGetsOn
