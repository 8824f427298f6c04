----------------------------- MODULE Payments -------------------------------
(***************************************************************************)
(* Payment terms, instalments, document presentation, bank security and    *)
(* payment issues of a trade (modules/payments).                           *)
(***************************************************************************)
EXTENDS DealTables

NoActiveIssue == issue = NoIssue

\* assertNoFeeRefundHold
FeeRefundHold == fee.refund \in {"requested", "sent", "confirmed"}

\* lockPayment, requireAgreed, assertNoActivePaymentIssue
PaymentOpen ==
    /\ contract.status # "cancelled"
    /\ contract.terms = "agreed"
    /\ NoActiveIssue

-----------------------------------------------------------------------------
(***************************************************************************)
(* Terms (terms.ts).                                                       *)
(***************************************************************************)
Replaceable ==
    /\ contract.status \notin Closed
    /\ contract.terms # "agreed"
    /\ \A i \in Items : items[i] \notin {"payment_submitted", "paid"}

\* proposePaymentTerms: the instalments are deleted and built again.
proposePaymentTerms(plan, deposit, proofRequired) ==
    /\ Replaceable
    /\ contract' = [contract EXCEPT !.plan = plan, !.deposit = deposit, !.terms = "proposed",
                                    !.proofRequired = proofRequired]
    /\ payment' = [payment EXCEPT
                     !.status = "awaiting_terms", !.confirmed = 0, !.release = "locked",
                     !.security = IF plan = "bank_secured" THEN "awaiting_submission"
                                  ELSE "not_required"]
    /\ items' = buildInstallments(plan)
    /\ proofs' = [i \in Items |-> "none"]
    /\ UNCHANGED <<issue, shipment, delivery, cancellation, fee, holding, documents, recalled>>

paymentStateAfterAgreement(plan) ==
    CASE plan \in {"pay_before_dispatch", "deposit_balance"} -> "payment_due"
      [] plan = "bank_secured"           -> "awaiting_security"
      [] plan = "documentary_collection" -> "awaiting_documents"
      [] plan = "pay_after_delivery"     -> "awaiting_delivery"

TermsProposed == contract.status \notin Closed /\ contract.terms = "proposed"

agreePaymentTerms ==
    /\ TermsProposed
    /\ contract' = [contract EXCEPT !.terms = "agreed"]
    /\ items' = activatePaymentInstallments("terms_agreed")
    /\ payment' = [payment EXCEPT
                     !.status = paymentStateAfterAgreement(contract.plan),
                     !.release = IF contract.plan = "pay_after_delivery" THEN "authorized"
                                 ELSE @]
    /\ UNCHANGED <<proofs, issue, shipment, delivery, cancellation, fee, holding, documents,
                   recalled>>

-----------------------------------------------------------------------------
(***************************************************************************)
(* Instalments (installments.ts).  The proof may be rejected or            *)
(* quarantined between submission and confirmation.                        *)
(***************************************************************************)
Payable(i, proof) ==
    /\ PaymentOpen /\ ~FeeRefundHold
    /\ items[i] = "due"
    /\ contract.proofRequired => proof

submitPayment(i, proof) ==
    /\ Payable(i, proof)
    /\ items' = [items EXCEPT ![i] = "payment_submitted"]
    /\ proofs' = [proofs EXCEPT ![i] = IF proof THEN "usable" ELSE "none"]
    /\ payment' = [payment EXCEPT !.status = "payment_pending_verification",
                                  !.referenced = TRUE]
    /\ UNCHANGED <<contract, issue, shipment, delivery, cancellation, fee, holding, documents,
                   recalled>>

\* The proof of a payment under review is rejected, or its bytes are gone.
proofRejected(i) ==
    /\ items[i] = "payment_submitted" /\ proofs[i] = "usable"
    /\ proofs' = [proofs EXCEPT ![i] = "unusable"]
    /\ UNCHANGED <<contract, payment, items, issue, shipment, delivery, cancellation, fee,
                   holding, documents, recalled>>

ProofHolds(i) == (contract.proofRequired \/ proofs[i] # "none") => proofs[i] = "usable"

ConfirmedRowAdded(its) ==
    LET sum == payment.confirmed + Confirmed(contract, its)
    IN  [payment EXCEPT !.confirmed = sum,
                        !.status = IF sum = Total THEN "settled" ELSE "partially_paid",
                        !.release = IF sum = Total THEN "authorized" ELSE @]

ConfirmedRow(its) ==
    LET sum == Confirmed(contract, its)
    IN  [payment EXCEPT !.confirmed = sum,
                        !.status = IF sum = Total THEN "settled" ELSE "partially_paid",
                        !.release = IF sum = Total THEN "authorized" ELSE @]

Confirmable(i) ==
    /\ PaymentOpen /\ ~FeeRefundHold
    /\ items[i] = "payment_submitted"
    /\ ProofHolds(i)

\* The settlement is attempted once everything is confirmed.
confirmReceipt(i) ==
    /\ Confirmable(i)
    /\ items' = [items EXCEPT ![i] = "paid"]
    /\ payment' = ConfirmedRow(items')
    /\ IF payment'.status = "settled"
       THEN completeTradeIfReady(contract, payment', shipment, delivery, issue)
       ELSE UNCHANGED <<contract, holding, fee>>
    /\ UNCHANGED <<proofs, issue, shipment, delivery, cancellation, documents, recalled>>

Rejectable(i) == PaymentOpen /\ items[i] = "payment_submitted"

rejectReceipt(i) ==
    /\ Rejectable(i)
    /\ items' = [items EXCEPT ![i] = "due"]
    /\ payment' = [payment EXCEPT !.status = "payment_due"]
    /\ UNCHANGED <<contract, proofs, issue, shipment, delivery, cancellation, fee, holding,
                   documents, recalled>>

-----------------------------------------------------------------------------
(***************************************************************************)
(* Documents and security (documentsAndSecurity.ts, automaticDocuments.ts).*)
(* The seller's request and the scheduled reconcileDocumentSets keep the   *)
(* readiness rule each in its own words: one in TypeScript, one in SQL.    *)
(***************************************************************************)
DocumentPlans == {"deposit_balance", "documentary_collection", "bank_secured"}

documentsCanBePresentedAt(m) ==
    m \in {"handed_over", "loaded", "departed", "arrived", "customs_cleared", "unloaded",
           "delivered"}

\* The trade is ready for its documents, and the documents for the trade.
Presentable ==
    /\ PaymentOpen
    /\ contract.status # "settled"
    /\ contract.plan \in DocumentPlans
    /\ contract.plan = "bank_secured" => payment.security = "verified"
    /\ documentsCanBePresentedAt(shipment.milestone)

DocumentsReady == Presentable /\ "document" \in shipment.fields /\ documents

presentDocumentSet ==
    /\ DocumentsReady
    /\ ~payment.presented
    /\ items' = activatePaymentInstallments("documents_presented")
    /\ payment' = [payment EXCEPT !.status = "payment_due", !.presented = TRUE]
    /\ UNCHANGED <<contract, proofs, issue, shipment, delivery, cancellation, fee, holding,
                   documents, recalled>>

CandidateMilestonesUndelivered ==
    {"handed_over", "loaded", "departed", "arrived", "customs_cleared", "unloaded"}

\* The milestones of reconcileDocumentSets' query.
CandidateMilestones ==
    {"handed_over", "loaded", "departed", "arrived", "customs_cleared", "unloaded", "delivered"}

DocumentSetCandidate ==
    /\ ~payment.presented
    /\ contract.status \notin Closed
    /\ contract.terms = "agreed"
    /\ contract.plan \in DocumentPlans
    /\ contract.plan # "bank_secured" \/ payment.security = "verified"
    /\ shipment.milestone \in CandidateMilestones
    /\ "document" \in shipment.fields
    /\ NoActiveIssue

reconcileDocumentSets == DocumentSetCandidate /\ presentDocumentSet

\* Uploads, scans and reviews complete the required set, or take from it.
documentsChange ==
    /\ ~payment.presented         \* nobody reads the set afterwards
    /\ documents' = ~documents
    /\ UNCHANGED <<contract, payment, items, proofs, issue, shipment, delivery, cancellation,
                   fee, holding, recalled>>

SecurityAwaits(from) ==
    /\ PaymentOpen /\ ~FeeRefundHold
    /\ contract.plan = "bank_secured"
    /\ payment.security = from

SecurityStep(from, to, status, release) ==
    /\ SecurityAwaits(from)
    /\ payment' = [payment EXCEPT !.security = to, !.status = status, !.release = release]
    /\ UNCHANGED <<contract, items, proofs, issue, shipment, delivery, cancellation, fee,
                   holding, documents, recalled>>

submitSecurity ==
    SecurityStep("awaiting_submission", "submitted", payment.status, payment.release)
confirmSecurity == SecurityStep("submitted", "verified", "security_verified", "authorized")

-----------------------------------------------------------------------------
(***************************************************************************)
(* Payment issues (issues.ts).  Every other payment step and the dispatch  *)
(* wait while one is active.                                               *)
(***************************************************************************)
Correctable(type, item) ==
    CASE type = "reference_correction" ->      \* by the buyer
           item \in Items /\ items[item] = "payment_submitted"
      [] type = "receipt_reversal" ->          \* by the seller
           item \in Items /\ items[item] = "paid" /\ contract.status # "settled"
      [] type = "payment_dispute" -> item = "none"

openPaymentIssue(type, item) ==
    /\ contract.status # "cancelled"
    /\ NoActiveIssue
    /\ Correctable(type, item)
    /\ issue' = [type |-> type, item |-> item, status |-> "open"]
    /\ UNCHANGED <<contract, payment, items, proofs, shipment, delivery, cancellation, fee,
                   holding, documents, recalled>>

\* The party that asked for a correction or reversal proposes it; a dispute either party.
proposeIssueResolution ==
    /\ issue.status = "open"
    /\ issue' = [issue EXCEPT !.status = "resolution_proposed"]
    /\ UNCHANGED <<contract, payment, items, proofs, shipment, delivery, cancellation, fee,
                   holding, documents, recalled>>

ReversedRowReleased(its) ==
    [payment EXCEPT !.confirmed = Confirmed(contract, its), !.status = "partially_paid"]

\* The payment request after a receipt was reversed.
ReversedRow(its) ==
    LET sum == Confirmed(contract, its)
    IN  [payment EXCEPT
           !.confirmed = sum,
           !.status = IF \E i \in Items : its[i] = "payment_submitted"
                      THEN "payment_pending_verification"
                      ELSE IF sum > 0 THEN "partially_paid" ELSE "payment_due",
           !.release = IF \/ contract.plan = "pay_after_delivery"
                          \/ contract.plan = "bank_secured" /\ payment.security = "verified"
                       THEN "authorized" ELSE "locked"]

\* approveIssueResolution by the party that did not propose the resolution.
approveIssueResolution ==
    /\ issue.status = "resolution_proposed"
    /\ CASE issue.type = "receipt_reversal" ->
              /\ contract.status # "settled" /\ items[issue.item] = "paid"
              /\ items' = [items EXCEPT ![issue.item] = "due"]
              /\ payment' = ReversedRow(items')
         [] issue.type = "reference_correction" ->
              items[issue.item] = "payment_submitted" /\ UNCHANGED <<items, payment>>
         [] issue.type = "payment_dispute" -> UNCHANGED <<items, payment>>
    /\ issue' = NoIssue
    /\ completeTradeIfReady(contract, payment', shipment, delivery, NoIssue)
    /\ UNCHANGED <<proofs, shipment, delivery, cancellation, documents, recalled>>
=============================================================================
