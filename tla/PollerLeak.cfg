SPECIFICATION Spec
CONSTANTS
    Capacity = 1
    MaxBlocks = 2
PROPERTY
    PollerStops
CHECK_DEADLOCK FALSE
