SPECIFICATION FairSpec
CONSTANTS
    NumFallbacks = 1
    SubscriptionTimeout = 1
    CallTimeout = 1
    ReconnectInterval = 1
    Capacity = 1
    HttpProviders <- NoProvider
    AllowHttp = TRUE
    Emitters <- EveryProvider
    Cancellable = FALSE
PROPERTY
    ClosedIsRepaired
