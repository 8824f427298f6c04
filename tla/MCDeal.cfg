SPECIFICATION Spec
CONSTANTS
    Total = 2
    Deposits = {1}
    FeeAmount = 1
    Policies = {"seller-predispatch-v3"}
    Plans = {"deposit_balance", "bank_secured", "pay_after_delivery"}
    ProofChoices = {TRUE}
    Arrangements = {{"carrier", "route", "document"}}
    Incoterm = "FCA"
    Reported = {"handed_over", "delivered"}
    MaxExceptions = 1
CHECK_DEADLOCK FALSE
INVARIANTS
    PaymentAddsUp
    ReadyIsSettled
    ReleaseIsJustified
    DispatchIsCovered
    RefundOnlyUnstarted
    CancelledIsClean
    AskedIsAccepted
    SomebodyIsAsked
PROPERTIES
    ReadySetIsPresented
    ImplementsExchange
