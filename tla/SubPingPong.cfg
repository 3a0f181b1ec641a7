SPECIFICATION FairSpec
CONSTANTS
    NumFallbacks = 2
    SubscriptionTimeout = 1
    CallTimeout = 1
    ReconnectInterval = 1
    Capacity = 1
    HttpProviders <- NoProvider
    AllowHttp = TRUE
    Emitters <- LastFallback
    Cancellable = FALSE
PROPERTY
    HealthyFallbackIsReached
