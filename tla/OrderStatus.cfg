SPECIFICATION Spec
CONSTANTS
    Updates = {u1, u2, u3, u4}
    Orders = {o1, o2}
    NoOrder = NoOrder
    None = None
    Faults = {"db", "redis", "crash"}
SYMMETRY Symmetry
INVARIANTS
    NoneSkipped
    AnnouncedIsWritten
PROPERTIES
    ImplementsLifecycle
