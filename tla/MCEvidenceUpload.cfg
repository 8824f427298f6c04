SPECIFICATION Spec
CONSTANTS
    Intents = {i1}
    Legacy = {}
    Workers = {w1, w2}
    NoWorker = NoWorker
    Quota = 2
    MaxAttempts = 2
    MaxCrashes = 1
    MaxRetries = 0
CHECK_DEADLOCK FALSE
INVARIANTS
    CleanEvidenceIsStored
    EvidenceMatchesIntent
PROPERTIES
    EveryObjectResolved
