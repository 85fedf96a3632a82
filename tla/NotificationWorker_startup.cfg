SPECIFICATION FairSpec
CONSTANTS
    Workers = {w1}
    MaxMessages = 1
    BatchSize = 2
    MaxRetries = 2
    IdleLimit = 1
    Faults = {"startup"}
    MaxFaults = 1
    None = None
PROPERTIES
    EventuallySettled
