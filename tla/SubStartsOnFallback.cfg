SPECIFICATION Spec
CONSTANTS
    NumFallbacks = 2
    SubscriptionTimeout = 1
    CallTimeout = 1
    ReconnectInterval = 2
    Capacity = 1
    HttpProviders <- HttpFallback
    AllowHttp = TRUE
    Emitters <- EveryProvider
    Cancellable = FALSE
INVARIANT
    FallbackIsNoticed
