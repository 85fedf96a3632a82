SPECIFICATION Spec
CONSTANTS
    Requests = {r1, r2}
    Keys = {k1}
    TTL = 1
    MaxAge = 2
    None = None
    TooLong = TooLong
    MaxRetries = 1
    Others = {}
    Faults = {}
INVARIANTS
    ExpiredKeyIsFresh
