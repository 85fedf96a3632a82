SPECIFICATION Spec
CONSTANTS
    Requests = {r1, r2}
    Keys = {k1}
    TTL = 1
    MaxAge = 1
    None = None
    TooLong = TooLong
    MaxRetries = 1
    Others = {}
    Faults = {}
INVARIANTS
    OneOrderPerKey
