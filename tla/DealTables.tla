---------------------------- MODULE DealTables ------------------------------
(***************************************************************************)
(* One accepted trade: its contract, payment request and instalments, its  *)
(* shipment, payment issue, delivery record, cancellation request and      *)
(* platform fee, and the settlement every one of them can trigger.         *)
(*                                                                         *)
(* Every operation on a trade is one transaction that locks the contract   *)
(* row first (lockPayment, lockTerms, lockProgress, lockContract ...), so  *)
(* an action is the whole transaction and trades do not interfere: the     *)
(* module has one.  A refused or repeated request changes nothing and has  *)
(* no action.  Currencies and precisions are fixed when the contract is    *)
(* created and are left out; amounts are whole minor units.                *)
(***************************************************************************)
EXTENDS Integers

CONSTANTS
    Total,          \* payment_requests.amount_total, in minor units
    Deposits,       \* the deposits a percentage of 5 to 90 can round to
    FeeAmount,      \* platform_fee_invoices.amount_total
    Policies,       \* fee policy versions a contract may have been created under
    Plans,          \* the payment plans a seller proposes
    ProofChoices,   \* whether the terms ask for payment proof, and a payment has one
    Incoterm,       \* the contract's incoterm
    Arrangements,   \* the sets of arrangement fields a coordinator gives at once
    Reported,       \* the milestones the parties report
    MaxExceptions   \* bound on exceptional dispatches of one shipment

VARIABLES
    contract,       \* sales_contracts: status, payment terms
    payment,        \* payment_requests
    items,          \* payment_installments, by installment_type
    proofs,         \* the payment proof attached to each instalment
    issue,          \* the payment issue that is not resolved, if any
    shipment,       \* shipments and shipment_milestones
    delivery,       \* delivery_acceptances and delivery_discrepancies
    cancellation,   \* a cancellation request awaits the other party's decision
    fee,            \* platform_fee_invoices, its terms, submissions and refunds
    holding,        \* the batch holding committed to the contract
    documents,      \* the required documents are validated, clean and stored
    recalled        \* assertBatchNotRecalled throws for the batch

vars == <<contract, payment, items, proofs, issue, shipment, delivery, cancellation,
          fee, holding, documents, recalled>>

AllPlans == {"pay_before_dispatch", "deposit_balance", "bank_secured",
             "documentary_collection", "pay_after_delivery"}
Items    == {"deposit", "balance", "full"}

-----------------------------------------------------------------------------
(***************************************************************************)
(* Payment plans (services/paymentProtection.ts).                          *)
(***************************************************************************)
\* buildInstallments: which instalments a plan has, and what makes them due.
PlanItems(plan) == IF plan = "deposit_balance" THEN {"deposit", "balance"} ELSE {"full"}

Trigger(plan, item) ==
    IF item = "deposit" \/ plan = "pay_before_dispatch" THEN "terms_agreed"
    ELSE IF plan = "pay_after_delivery" THEN "delivery"
    ELSE "documents_presented"

AmountDue(c, item) == CASE item = "deposit" -> c.deposit
                        [] item = "balance" -> Total - c.deposit
                        [] item = "full"    -> Total

buildInstallments(plan) ==
    [i \in Items |-> IF i \in PlanItems(plan) THEN "awaiting_trigger" ELSE "absent"]

requiredBeforeDispatch(c) == CASE c.plan = "pay_before_dispatch" -> Total
                               [] c.plan = "deposit_balance"     -> c.deposit
                               [] OTHER                          -> 0

dispatchDecision ==
    /\ contract.terms = "agreed"
    /\ contract.plan = "bank_secured" => payment.security = "verified"
    /\ payment.confirmed >= requiredBeforeDispatch(contract)

\* activatePaymentInstallments: what waits for the trigger becomes due.
activatePaymentInstallments(trigger) ==
    [i \in Items |-> IF items[i] = "awaiting_trigger" /\ Trigger(contract.plan, i) = trigger
                     THEN "due" ELSE items[i]]

\* SUM(amount_due) FILTER(WHERE status='paid')
Confirmed(c, its) ==
    LET paid(i) == IF its[i] = "paid" THEN AmountDue(c, i) ELSE 0
    IN  paid("deposit") + paid("balance") + paid("full")

-----------------------------------------------------------------------------
(***************************************************************************)
(* Milestones (modules/transport/responsibilities.ts).                     *)
(***************************************************************************)
milestoneOrder ==
    [planning |-> 1, booked |-> 2, requested |-> 3, accepted |-> 4, cargo_ready |-> 5,
     export_cleared |-> 6, picked_up |-> 7, warehouse_received |-> 8, handed_over |-> 9,
     port_received |-> 10, loaded |-> 11, departed |-> 12, arrived |-> 13,
     customs_cleared |-> 14, unloaded |-> 15, delivered |-> 16]

Milestones == DOMAIN milestoneOrder

Incoterms == {"EXW", "FCA", "FAS", "FOB", "CFR", "CIF", "CPT", "CIP", "DAP", "DPU", "DDP"}

coordinatorParty == IF Incoterm \in {"EXW", "FCA", "FAS", "FOB"} THEN "buyer" ELSE "seller"

milestoneParty(m) ==
    CASE m \in {"planning", "booked", "requested", "accepted", "departed", "arrived"}
           -> coordinatorParty
      [] m = "cargo_ready" -> "seller"
      [] m \in {"export_cleared", "picked_up", "warehouse_received", "handed_over",
                "port_received"}
           -> IF Incoterm = "EXW" THEN "buyer" ELSE "seller"
      [] m = "loaded" -> IF Incoterm \in {"EXW", "FAS"} THEN "buyer" ELSE "seller"
      [] m = "customs_cleared" -> IF Incoterm = "DDP" THEN "seller" ELSE "buyer"
      [] m = "unloaded" -> IF Incoterm = "DPU" THEN "seller" ELSE "buyer"
      [] m = "delivered" -> "buyer"

\* The goods have left: the shipment is at or beyond picked_up.
Dispatched(s) == milestoneOrder[s.milestone] >= milestoneOrder["picked_up"]

Fields == {"carrier", "route", "document"}

ASSUME DealAssumption ==
    /\ Total \in Nat \ {0}
    /\ Deposits # {} /\ Deposits \subseteq 0..Total
    /\ FeeAmount \in Nat
    /\ Policies # {}
    /\ Policies \subseteq {"seller-predispatch-v3", "seller-completion-v2"}
    /\ Plans \subseteq AllPlans
    /\ ProofChoices \subseteq BOOLEAN
    /\ Incoterm \in Incoterms
    /\ Arrangements \subseteq SUBSET Fields
    /\ Reported \subseteq Milestones \ {"planning"}
    /\ MaxExceptions \in Nat

-----------------------------------------------------------------------------
(***************************************************************************)
(* The rows.                                                               *)
(***************************************************************************)
Closed == {"settled", "cancelled"}

ContractRow ==
    [status : {"accepted", "fulfilment_in_progress", "in_transit", "payment_risk_exception",
               "delivered", "delivered_payment_risk"} \cup Closed,
     terms : {"draft", "proposed", "agreed"}, plan : AllPlans, deposit : Deposits,
     proofRequired : BOOLEAN]
PaymentRow ==
    [status : {"awaiting_terms", "payment_due", "awaiting_security", "awaiting_documents",
               "awaiting_delivery", "payment_pending_verification", "partially_paid",
               "security_verified", "settled", "cancelled"},
     confirmed : 0..Total,
     security : {"not_required", "awaiting_submission", "submitted", "verified"},
     release : {"locked", "authorized"}, presented : BOOLEAN,
     referenced : BOOLEAN]      \* payment_reference_external IS NOT NULL
ItemStatus == {"absent", "awaiting_trigger", "due", "payment_submitted", "paid", "cancelled"}
ProofState == {"none", "usable", "unusable"}
IssueRow ==
    [type : {"payment_dispute", "reference_correction", "receipt_reversal"},
     item : Items \cup {"none"}, status : {"open", "resolution_proposed"}]
NoIssue == [status |-> "none"]
ShipmentRow ==
    [milestone : Milestones, recorded : SUBSET Milestones,
     fields : SUBSET Fields,    \* arrangement: provider or booking; mode, origin and
                                \* destination; transport document reference
     exception : 0..MaxExceptions, acknowledged : 0..MaxExceptions]
DeliveryRow ==
    [accepted : BOOLEAN, discrepancy : {"none", "open", "resolution_proposed", "resolved"}]
FeeRow ==
    [policy : Policies, status : {"estimated", "invoiced", "paid", "written_off", "void"},
     consent : BOOLEAN, credit : BOOLEAN,
     submission : {"none", "submitted", "rejected", "verified"},
     refund : {"none", "requested", "sent", "confirmed", "rejected"}]

-----------------------------------------------------------------------------
(***************************************************************************)
(* Settlement (services/tradeSettlement.ts, modules/fees/lifecycle.ts).    *)
(***************************************************************************)
\* makeFeeDue: a fee that is still an estimate is invoiced when the trade settles.
makeFeeDue(f) == IF f.status = "estimated" THEN [f EXCEPT !.status = "invoiced"] ELSE f

TradeReadyWithoutAcceptance(c, p, s, d, i) ==
    /\ c.status # "settled"
    /\ s.milestone = "delivered"
    /\ p.status = "settled"
    /\ i = NoIssue
    /\ holding = "committed"

\* The conditions of completeTradeIfReady, on the rows as the transaction left them.
TradeReady(c, p, s, d, i) ==
    /\ c.status # "settled"
    /\ s.milestone = "delivered"
    /\ p.status = "settled"
    /\ d.accepted /\ d.discrepancy \in {"none", "resolved"}
    /\ i = NoIssue
    /\ holding = "committed"

completeTradeIfReady(c, p, s, d, i) ==
    IF TradeReady(c, p, s, d, i)
    THEN /\ contract' = [c EXCEPT !.status = "settled"]
         /\ holding' = "transferred"
         /\ fee' = makeFeeDue(fee)
    ELSE contract' = c /\ UNCHANGED <<holding, fee>>

(***************************************************************************)
(* createFulfillment: the trade as the acceptance of its offer leaves it.  *)
(* A currency without minor units starts with the plan pay_before_dispatch.*)
(***************************************************************************)
Init ==
    /\ \E plan \in {"deposit_balance", "pay_before_dispatch"}, d \in Deposits :
         /\ contract = [status |-> "accepted", terms |-> "draft", plan |-> plan,
                        deposit |-> d, proofRequired |-> FALSE]
         /\ items = buildInstallments(plan)
    /\ payment = [status |-> "awaiting_terms", confirmed |-> 0, security |-> "not_required",
                  release |-> "locked", presented |-> FALSE, referenced |-> FALSE]
    /\ proofs = [i \in Items |-> "none"]
    /\ issue = NoIssue
    /\ shipment = [milestone |-> "planning", recorded |-> {}, fields |-> {},
                   exception |-> 0, acknowledged |-> 0]
    /\ delivery = [accepted |-> FALSE, discrepancy |-> "none"]
    /\ cancellation = FALSE
    /\ \E p \in Policies :
         fee = [policy |-> p, status |-> "estimated", consent |-> FALSE, credit |-> FALSE,
                submission |-> "none", refund |-> "none"]
    /\ holding = "committed"
    /\ documents = FALSE
    /\ recalled = FALSE
=============================================================================
