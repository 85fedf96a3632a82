SPECIFICATION Spec
CONSTANTS
    Clients = {c1}
    Users = {u1, u2}
    Manager = Manager
    MaxOrders = 7
    MaxLegacy = 2
    PageSize = 2
    None = None
SYMMETRY Symmetry
INVARIANTS
    TypeOK
    WalkSeesAll
    ShortPageIsLast
    NoneBare
    FailsByLegacyOnly
CHECK_DEADLOCK FALSE
