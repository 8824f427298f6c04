SPECIFICATION Spec
CONSTANTS
    Batches = {b1}
    Orgs = {o1, o2}
    HoldingIds = {h1, h2}
    ListingIds = {1, 2}
    OfferIds = {f1, f2}
    TransferIds = {t1}
    MaxGrams = 2
SYMMETRY Symmetry
CHECK_DEADLOCK FALSE
INVARIANTS
    CommittedForOneContract
    ContractsMatchOffers
    NothingPublishedUnderRecall
PROPERTIES
    OfferDecidedOnce
    RecalledStockStays
