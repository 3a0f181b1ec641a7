SPECIFICATION Spec
CONSTANTS
    NumFallbacks = 2
    MaxRetries = 1
    MaxFilters = 2
    MaxLogs = 1
INVARIANTS
    TypeOK
    LogsAccounted
    NoFilterLeftBehind
PROPERTIES
    NotFoundForCause
    FeesFromOneProvider
    ImplementsCalls
