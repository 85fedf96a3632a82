SPECIFICATION FairSpec
CONSTANTS
    Calls = {c1, c2}
    FailureThreshold = 2
    RecoveryTimeout = 1
    None = None
    MaxRetries = 3
PROPERTIES
    ImplementsBreaker
