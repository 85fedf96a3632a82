SPECIFICATION FairSpec
CONSTANTS
    Requests = {r1, r2, r3}
    Tokens = {t1}
    Lifetime = 1
    MaxTime = 3
    Faults = {"db", "crash"}
    MaxFaults = 1
    None = None
INVARIANTS
    DenylistHolds
    LateRequestsRefused
    OneSignOut
PROPERTIES
    DeniedRowsGo
