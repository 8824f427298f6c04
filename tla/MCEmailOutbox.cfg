SPECIFICATION Spec
CONSTANTS
    Emails = {e1}
    Workers = {w1, w2}
    NoWorker = NoWorker
    Queues = {"payment_reminder", "invitation", "recall"}
    MaxAttempts = 3
    MaxCrashes = 2
    MaxRetries = 1
CHECK_DEADLOCK FALSE
INVARIANTS
    DuplicateNeedsMishap
    NoStaleSubmission
PROPERTIES
    SentIsFinal
    EveryEmailResolved
