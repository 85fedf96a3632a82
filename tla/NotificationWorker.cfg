SPECIFICATION FairSpec
CONSTANTS
    Workers = {w1}
    MaxMessages = 4
    BatchSize = 2
    MaxRetries = 2
    IdleLimit = 2
    Faults = {"redis", "crash", "startup"}
    MaxFaults = 2
    None = None
INVARIANTS
    BatchIsPending
    DuplicatesCostFaults
    InOrder
    NoneLost
PROPERTIES
    SettledWhileRunning
