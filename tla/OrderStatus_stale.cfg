SPECIFICATION Spec
CONSTANTS
    Updates = {u1, u2, u3}
    Orders = {o1}
    NoOrder = NoOrder
    None = None
    Faults = {}
PROPERTIES
    ForwardOnly
