SPECIFICATION Spec
CONSTANTS
    farmer = farmer
    mill = mill
    buyer = buyer
    h1 = h1
    h2 = h2
    b1 = b1
    b2 = b2
    l1 = l1
    l2 = l2
    l3 = l3
    Orgs = {farmer, mill, buyer}
    Recalls = {r1, r2}
    Holdings = {h1, h2}
    Batches = {b1, b2}
    Lots = {l1, l2, l3}
    Genealogies <- MCGenealogies
    LotBatch <- MCLotBatch
    LotOwner <- MCLotOwner
    Takers = {buyer}
    Authorities = {buyer}
    SeedChoices <- MCSeedChoices
    Outcomes <- MCOutcomes
    Stock <- MCStock
    WorkLimit = 8
    DepthLimit = 3
SYMMETRY Either
CHECK_DEADLOCK FALSE
INVARIANTS
    SafetyReconciles
PROPERTIES
    ScopeIsExact
    ResolutionCoversEveryone
    ResolvedOnStoredEvidence
    DisposedNeverTraded
