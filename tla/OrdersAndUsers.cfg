SPECIFICATION System
CONSTANTS
    Requests = {r1, r2}
    Keys = {k1}
    TTL = 1
    MaxAge = 2
    None = None
    TooLong = TooLong
    MaxRetries = 1
    Others = {p1, p2}
    Emails = {e1, e2}
    Faults = {"db", "crash"}
INVARIANTS
    OrdersArePaid
    RefusalLeavesNoOrder
    OneAcknowledgedOrder
    RefusedIsNotRegistered
    RepliesNameRows
    OneAcknowledgedReply
PROPERTIES
    ImplementsOrderCreation
    ImplementsOncePerKey
    LiveRowStays
SYMMETRY Symmetry
