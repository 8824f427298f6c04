SPECIFICATION Spec
CONSTANTS
    Intents = {i1}
    Legacy = {e1}
    Workers = {w1, w2}
    NoWorker = NoWorker
    Quota = 2
    MaxAttempts = 2
    MaxCrashes = 0
    MaxRetries = 1
SYMMETRY Symmetry
CHECK_DEADLOCK FALSE
INVARIANTS
    StorageWithinQuota
