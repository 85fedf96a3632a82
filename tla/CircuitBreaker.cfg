SPECIFICATION FairSpec
CONSTANTS
    Calls = {c1, c2, c3, c4}
    FailureThreshold = 3
    RecoveryTimeout = 2
    None = None
INVARIANTS
    TripsOnConsecutiveFailures
    HalfOpenHasProbe
PROPERTIES
    ProbeSpacing
    Recovers
