SPECIFICATION Spec
CONSTANTS
    Batches = {b1}
    Orgs = {o1, o2}
    HoldingIds = {h1, h2, h3}
    ListingIds = {1, 2}
    OfferIds = {f1}
    TransferIds = {t1}
    MaxGrams = 2
SYMMETRY Symmetry
CHECK_DEADLOCK FALSE
INVARIANTS
    SourceNotOverallocated
    ReservationsFit
    PromisesKept
PROPERTIES
    ImplementsLedger
