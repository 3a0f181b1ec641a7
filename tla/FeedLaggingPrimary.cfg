SPECIFICATION StreamSpec
CONSTANTS
    NumFallbacks = 1
    SubscriptionTimeout = 1
    CallTimeout = 1
    ReconnectInterval = 1
    Capacity = 1
    HttpProviders <- HttpFallback
    AllowHttp = TRUE
    Emitters <- EveryProvider
    Cancellable = FALSE
    MaxHeight <- MCMaxHeight
PROPERTY
    NotFoundMeansUnavailable
