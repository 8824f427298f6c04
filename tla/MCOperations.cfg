SPECIFICATION Spec
CONSTANTS
    Hosts = {h1, h2}
    NoHost = NoHost
    Operators = {o1}
    Incidents <- IncidentIds
    MaxAttempts = 2
    MaxChanges = 2
    MaxOutages = 1
    MaxLosses = 2
    MaxCrashes = 1
    MaxRetries = 1
    MaxEvents = 2
INVARIANTS
    TypeOK
    HealthyHidesNothing
PROPERTIES
    ResolvedWasRelieved
    PersistentSignalReported
    RecoveryClosesIncidents
