-------------------------------- MODULE Fees --------------------------------
(***************************************************************************)
(* The platform fee of a trade (modules/fees, modules/feeEnforcement,      *)
(* modules/feeRefunds): consent, submission and review of the external     *)
(* payment, write-off, credit, and the refund of a paid fee on a trade     *)
(* that has not started.  The payer is the seller; reviews are by platform *)
(* finance.  The fingerprints and revisions a request carries make it fail *)
(* when the row changed since it was read, so that reading and writing are *)
(* one step.                                                               *)
(***************************************************************************)
EXTENDS Transport

dealOnly == <<contract, payment, items, proofs, issue, shipment, delivery, cancellation,
              holding, documents, recalled>>

\* enrollFeePolicy: only contracts of this policy have collection terms.
Enrolled == fee.policy = "seller-predispatch-v3"

requireCollectible ==
    /\ fee.status = "invoiced"
    /\ Enrolled \/ contract.status = "settled"
    /\ contract.status # "cancelled"
    /\ FeeAmount > 0

FeeTermsPending == Enrolled /\ ~fee.consent /\ fee.status = "estimated"

consentFeeTerms ==
    /\ FeeTermsPending
    /\ fee' = [fee EXCEPT !.consent = TRUE, !.status = "invoiced"]
    /\ UNCHANGED dealOnly

FeeOpen == requireCollectible /\ fee.submission # "submitted"

submitFee ==
    /\ FeeOpen
    /\ fee' = [fee EXCEPT !.submission = "submitted"]
    /\ UNCHANGED dealOnly

reviewFee(verified) ==
    /\ requireCollectible /\ fee.submission = "submitted"
    /\ fee' = IF verified THEN [fee EXCEPT !.status = "paid", !.submission = "verified"]
              ELSE [fee EXCEPT !.submission = "rejected"]
    /\ UNCHANGED dealOnly

writeOffFee ==
    /\ FeeOpen
    /\ fee' = [fee EXCEPT !.status = "written_off"]
    /\ UNCHANGED dealOnly

setFeeCredit(granted) ==
    /\ Enrolled /\ fee.status = "invoiced" /\ fee.consent
    /\ fee.credit # granted
    /\ fee' = [fee EXCEPT !.credit = granted]
    /\ UNCHANGED dealOnly

\* credit_until passes, whatever became of the fee.
creditExpires ==
    /\ fee.credit
    /\ fee' = [fee EXCEPT !.credit = FALSE]
    /\ UNCHANGED dealOnly

-----------------------------------------------------------------------------
(***************************************************************************)
(* What a refund and a cancellation both ask of the trade.                 *)
(***************************************************************************)
PaymentActivity ==
    \/ payment.confirmed # 0
    \/ payment.referenced
    \/ payment.status \in {"payment_pending_verification", "settled"}
    \/ \E i \in Items : items[i] \in {"payment_submitted", "paid"}

SecurityActivity == payment.security \notin {"not_required", "awaiting_submission"}

TransportActivity ==
    \/ shipment.milestone # "planning"
    \/ {"carrier", "document"} \cap shipment.fields # {}
    \/ shipment.exception > 0
    \/ shipment.recorded # {}

FeeVerified == fee.status = "paid" /\ fee.submission = "verified"

feeRefundBlocked ==
    \/ ~FeeVerified \/ FeeAmount = 0
    \/ contract.status \in Closed
    \/ PaymentActivity \/ SecurityActivity \/ TransportActivity
    \/ ~NoActiveIssue \/ delivery.discrepancy # "none" \/ delivery.accepted

requestFeeRefund ==
    /\ fee.refund \in {"none", "rejected"}
    /\ ~feeRefundBlocked
    /\ fee' = [fee EXCEPT !.refund = "requested"]
    /\ UNCHANGED dealOnly

sendFeeRefund ==
    /\ fee.refund = "requested" /\ ~feeRefundBlocked
    /\ fee' = [fee EXCEPT !.refund = "sent"]
    /\ UNCHANGED dealOnly

confirmFeeRefund ==
    /\ fee.refund = "sent" /\ ~feeRefundBlocked
    /\ fee' = [fee EXCEPT !.refund = "confirmed"]
    /\ UNCHANGED dealOnly

rejectFeeRefund ==
    /\ fee.refund = "requested"
    /\ fee' = [fee EXCEPT !.refund = "rejected"]
    /\ UNCHANGED dealOnly

hasConfirmedFeeRefund == FeeVerified /\ fee.refund = "confirmed"
=============================================================================
