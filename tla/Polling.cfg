SPECIFICATION Spec
CONSTANTS
    Capacity = 2
    MaxBlocks = 5
INVARIANTS
    TypeOK
    NothingLostInChannel
    DeliveredInOrder
PROPERTIES
    AllDelivered
    ProvidesChannel
CHECK_DEADLOCK FALSE
