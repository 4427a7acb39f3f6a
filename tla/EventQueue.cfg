CONSTANTS
    Event = {up, down, iam}
    NoEvent = NoEvent
    MaxEvents = 3
SPECIFICATION QueueSpec
INVARIANTS
    HeldEventIntact
PROPERTIES
    FifoOrder
