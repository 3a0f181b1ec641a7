SPECIFICATION FairStreamSpec
CONSTANTS
    NumFallbacks = 1
    SubscriptionTimeout = 1
    CallTimeout = 1
    ReconnectInterval = 2
    Capacity = 1
    HttpProviders <- HttpFallback
    AllowHttp = TRUE
    Emitters <- EveryProvider
    Cancellable = TRUE
    MaxHeight <- MCMaxHeight
INVARIANT
    StreamTypeOK
PROPERTIES
    InSequence
    StreamKeepsBlock
    EndsOnlyWhenClosed
    StreamGoesOn
