SPECIFICATION Spec
CONSTANTS
    fill = fill
    http = http
    ws1 = ws1
    ws2 = ws2
    Given <- MCGiven
    Urls <- MCUrls
    WsUrls <- MCWsUrls
    Options <- MCOptions
    MaxFallbacks = 2
INVARIANTS
    TypeOK
    DialledInTurn
    BuiltAsConfigured
PROPERTY
    BuildEnds
CHECK_DEADLOCK FALSE
