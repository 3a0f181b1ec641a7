SPECIFICATION Spec
CONSTANTS
    NumFallbacks = 2
    MaxRetries = 3
    CallTimeout = 6
    MinDelay = 1
    MaxDelay = 3
    OrBlockNotFound = TRUE
    Replies <- MCReplies
INVARIANTS
    TypeOK
    DeadlineBound
    RepeatedForCause
    ExecutionBudget
    BackoffPaid
    NotFoundIsLastVerdict
PROPERTIES
    CallGetsOn
    ImplementsFailover
CHECK_DEADLOCK FALSE
