SPECIFICATION Spec
CONSTANTS
    Intents = {i1}
    Legacy = {}
    Workers = {w1}
    NoWorker = NoWorker
    Quota = 2
    MaxAttempts = 2
    MaxCrashes = 0
    MaxRetries = 0
CHECK_DEADLOCK FALSE
INVARIANTS
    EveryObjectAccounted
