-------------------------------- MODULE Deal --------------------------------
(***************************************************************************)
(* The whole life of an accepted trade: payments, transport, the platform  *)
(* fee, and here delivery acceptance (modules/delivery) and bilateral      *)
(* cancellation (modules/cancellation), which join them.                   *)
(***************************************************************************)
EXTENDS Fees

-----------------------------------------------------------------------------
(***************************************************************************)
(* Delivery.  The received quantity is the contracted one or the request   *)
(* is refused.                                                             *)
(***************************************************************************)
requireDelivered == contract.status \notin Closed /\ shipment.milestone = "delivered"

Discrepancy(to) ==
    /\ delivery' = [delivery EXCEPT !.discrepancy = to]
    /\ UNCHANGED <<contract, payment, items, proofs, issue, shipment, cancellation, fee,
                   holding, documents, recalled>>

NoOpenDiscrepancy == delivery.discrepancy \in {"none", "resolved"}

Acceptable ==
    requireDelivered /\ ~delivery.accepted /\ ~recalled /\ NoOpenDiscrepancy

acceptDeliveryOnly ==
    /\ Acceptable
    /\ delivery' = [delivery EXCEPT !.accepted = TRUE]
    /\ UNCHANGED <<contract, payment, items, proofs, issue, shipment, cancellation, fee,
                   holding, documents, recalled>>

acceptDelivery ==
    /\ Acceptable
    /\ delivery' = [delivery EXCEPT !.accepted = TRUE]
    /\ completeTradeIfReady(contract, payment, shipment, delivery', issue)
    /\ UNCHANGED <<payment, items, proofs, issue, shipment, cancellation, documents, recalled>>

reportDiscrepancy ==
    requireDelivered /\ ~delivery.accepted /\ NoOpenDiscrepancy /\ Discrepancy("open")

DiscrepancyIs(state) == requireDelivered /\ delivery.discrepancy = state

proposeResolution == DiscrepancyIs("open") /\ Discrepancy("resolution_proposed")
approveResolution == DiscrepancyIs("resolution_proposed") /\ Discrepancy("resolved")

-----------------------------------------------------------------------------
(***************************************************************************)
(* Cancellation.  A pending request freezes nothing: the facts are read    *)
(* again when the other party approves it.                                 *)
(***************************************************************************)
\* An invoice nobody has paid against is voided with the trade.
FeeVoidable ==
    \/ fee.status = "estimated"
    \/ fee.status = "invoiced" /\ Enrolled /\ fee.submission = "none"

FeeActivity == ~FeeVoidable /\ ~hasConfirmedFeeRefund

cancellationBlockUnpaid ==
    \/ contract.status \in Closed
    \/ PaymentActivity
    \/ holding # "committed"

\* inventorySafe also refuses while listings or transfers use the holding; see Inventory.
cancellationBlock ==
    \/ contract.status \in Closed
    \/ PaymentActivity
    \/ SecurityActivity
    \/ TransportActivity
    \/ ~NoActiveIssue \/ ~NoOpenDiscrepancy \/ delivery.accepted
    \/ FeeActivity
    \/ holding # "committed"

requestCancellation ==
    /\ ~cancellation
    /\ ~cancellationBlock
    /\ cancellation' = TRUE
    /\ UNCHANGED <<contract, payment, items, proofs, issue, shipment, delivery, fee, holding,
                   documents, recalled>>

rejectCancellation ==
    /\ cancellation
    /\ cancellation' = FALSE
    /\ UNCHANGED <<contract, payment, items, proofs, issue, shipment, delivery, fee, holding,
                   documents, recalled>>

approveCancellation ==
    /\ cancellation
    /\ ~cancellationBlock
    /\ ~recalled
    /\ cancellation' = FALSE
    /\ contract' = [contract EXCEPT !.status = "cancelled"]
    /\ holding' = "available"
    /\ payment' = [payment EXCEPT !.status = "cancelled", !.release = "locked"]
    /\ items' = [i \in Items |-> IF items[i] = "absent" THEN "absent" ELSE "cancelled"]
    /\ fee' = IF FeeVoidable THEN [fee EXCEPT !.status = "void"] ELSE fee
    /\ UNCHANGED <<proofs, issue, shipment, delivery, documents, recalled>>

\* A recall of the batch is activated or released (modules/recall).
recallChanges ==
    /\ contract.status \notin Closed     \* nobody reads it afterwards
    /\ recalled' = ~recalled
    /\ UNCHANGED <<contract, payment, items, proofs, issue, shipment, delivery, cancellation,
                   fee, holding, documents>>

-----------------------------------------------------------------------------
PaymentStep ==
    \/ \E plan \in Plans, d \in Deposits, proof \in ProofChoices :
         proposePaymentTerms(plan, d, proof)
    \/ agreePaymentTerms
    \/ \E i \in Items, proof \in ProofChoices : submitPayment(i, proof)
    \/ \E i \in Items : proofRejected(i) \/ confirmReceipt(i) \/ rejectReceipt(i)
    \/ presentDocumentSet
    \/ reconcileDocumentSets
    \/ documentsChange
    \/ submitSecurity
    \/ confirmSecurity
    \/ \E type \in {"payment_dispute", "reference_correction", "receipt_reversal"},
          item \in Items \cup {"none"} : openPaymentIssue(type, item)
    \/ proposeIssueResolution
    \/ approveIssueResolution

TransportStep ==
    \/ \E given \in Arrangements : updateArrangement(given)
    \/ \E m \in Reported, exceptional \in BOOLEAN : recordMilestone(m, exceptional)
    \/ acknowledgeException

FeeStep ==
    \/ consentFeeTerms
    \/ submitFee
    \/ \E verified \in BOOLEAN : reviewFee(verified)
    \/ writeOffFee
    \/ \E granted \in BOOLEAN : setFeeCredit(granted)
    \/ creditExpires
    \/ requestFeeRefund \/ sendFeeRefund \/ confirmFeeRefund \/ rejectFeeRefund

ClosingStep ==
    \/ acceptDelivery \/ reportDiscrepancy \/ proposeResolution \/ approveResolution
    \/ requestCancellation \/ rejectCancellation \/ approveCancellation
    \/ recallChanges

Next == PaymentStep \/ TransportStep \/ FeeStep \/ ClosingStep

\* reconcileDocumentSets is a scheduled job; everything else waits for a person.
Spec == Init /\ [][Next]_vars /\ WF_vars(reconcileDocumentSets)

-----------------------------------------------------------------------------
TypeOK ==
    /\ contract \in ContractRow
    /\ payment \in PaymentRow
    /\ items \in [Items -> ItemStatus]
    /\ proofs \in [Items -> ProofState]
    /\ issue \in IssueRow \cup {NoIssue}
    /\ shipment \in ShipmentRow
    /\ delivery \in DeliveryRow
    /\ cancellation \in BOOLEAN
    /\ fee \in FeeRow
    /\ holding \in {"committed", "available", "transferred"}
    /\ documents \in BOOLEAN
    /\ recalled \in BOOLEAN

\* The payment request's figures are those of its instalments, whichever of
\* confirmation, reversal, new terms or cancellation touched them last, and it is
\* settled only when the whole amount is confirmed.
PaymentAddsUp ==
    /\ payment.confirmed = Confirmed(contract, items)
    /\ payment.status = "settled" => payment.confirmed = Total

\* A trade that meets every condition of settlement is settled in the step that met the
\* last one, be it a payment, an issue, the delivery or its acceptance; nobody has to
\* ask for it again (completeTradeIfReady's callers).
ReadyIsSettled == ~TradeReady(contract, payment, shipment, delivery, issue)

\* Documents are released to the buyer only against the agreed terms: everything is
\* confirmed, the buyer has credit, or the bank's security is verified; a reversed
\* receipt locks them again.
ReleaseIsJustified ==
    payment.release = "authorized" =>
        /\ contract.terms = "agreed"
        /\ \/ payment.confirmed = Total
           \/ contract.plan = "pay_after_delivery"
           \/ payment.security = "verified"

\* Goods that left without an exception left under agreed terms, with verified security
\* where the plan has one; and no goods leave a trade of the pre-dispatch fee policy
\* whose fee terms the seller has not accepted, exception or not.
DispatchIsCovered ==
    Dispatched(shipment) =>
        /\ shipment.exception = 0 =>
             /\ contract.terms = "agreed"
             /\ contract.plan = "bank_secured" => payment.security = "verified"
        /\ Enrolled => fee.consent

\* A fee refund and the trade it belongs to exclude each other: while a refund is under
\* way, or was made, no goods money or security is committed and no goods leave.
RefundOnlyUnstarted ==
    FeeRefundHold => ~PaymentActivity /\ ~SecurityActivity /\ ~Dispatched(shipment)

\* A cancelled trade leaves nothing behind: stock released, no money, security,
\* transport or issue, no instalment alive, and the fee void or refunded.
CancelledIsClean ==
    contract.status = "cancelled" =>
        /\ holding = "available"
        /\ payment.confirmed = 0 /\ payment.release = "locked" /\ ~SecurityActivity
        /\ \A i \in Items : items[i] \in {"absent", "cancelled"}
        /\ ~TransportActivity /\ NoActiveIssue
        /\ fee.status = "void" \/ hasConfirmedFeeRefund

\* A document set that stays ready is presented by the scheduled job, wherever the
\* shipment has got to meanwhile.
ReadySetIsPresented == []<>(~DocumentsReady \/ payment.presented)

\* Delivery makes due what the agreed plan ties to delivery.
DeliveryCollects ==
    shipment.milestone = "delivered" /\ contract.terms = "agreed"
        => \A i \in Items : items[i] = "awaiting_trigger" => Trigger(contract.plan, i) # "delivery"
=============================================================================
