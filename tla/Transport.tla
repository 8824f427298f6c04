----------------------------- MODULE Transport ------------------------------
(***************************************************************************)
(* The shipment of a trade (modules/transportWorkflow, modules/transport,  *)
(* modules/dispatchAcknowledgement): the arrangement, the milestones each  *)
(* party may record under the incoterm, and the dispatch boundary, where   *)
(* recall, payment issue, platform fee and payment terms are checked.      *)
(* Arrival estimates (modules/transportTiming) guard nothing else and are  *)
(* left out.                                                               *)
(***************************************************************************)
EXTENDS Payments

Arrangeable == contract.status # "cancelled" /\ shipment.milestone # "delivered"

\* updateArrangement by the coordinator; COALESCE keeps what is not given.
updateArrangement(given) ==
    LET booked == shipment.milestone = "planning" /\ "carrier" \in given
        next   == IF booked THEN "booked" ELSE shipment.milestone
    IN  /\ Arrangeable
        /\ shipment' = [shipment EXCEPT
                          !.fields = @ \cup given, !.milestone = next,
                          !.recorded = IF next = "booked" THEN @ \cup {"booked"} ELSE @]
        /\ contract' = IF next = "booked" /\ contract.status = "accepted"
                       THEN [contract EXCEPT !.status = "fulfilment_in_progress"]
                       ELSE contract
        /\ UNCHANGED <<payment, items, proofs, issue, delivery, cancellation, fee, holding,
                       documents, recalled>>

-----------------------------------------------------------------------------
\* loadOriginConfirmations: the seller's own records, not a late status alone.
SellerRecorded(ms) ==
    \E m \in ms : m \in shipment.recorded /\ milestoneParty(m) = "seller"

originMilestones ==
    CASE Incoterm = "EXW" -> {"cargo_ready"}
      [] Incoterm \in {"FOB", "CFR", "CIF"} -> {"loaded"}
      [] OTHER -> {"handed_over", "loaded", "port_received"}

Onward == {"departed", "arrived", "customs_cleared", "unloaded", "delivered"}

progressPrerequisite(m) ==
    LET origin == SellerRecorded(originMilestones)
    IN  /\ Incoterm = "EXW" /\ milestoneOrder[m] >= milestoneOrder["export_cleared"] => origin
        /\ Incoterm = "FAS" /\ m = "loaded" => origin
        /\ m \in Onward => origin
        /\ Incoterm = "DDP" /\ m \in {"unloaded", "delivered"}
             => SellerRecorded({"customs_cleared"})
        /\ Incoterm = "DPU" /\ m = "delivered" => SellerRecorded({"unloaded"})

crossesDispatchBoundaryStepwise(m) ==
    m \in {"picked_up", "loaded", "departed"}

\* crossesDispatchBoundary: a jump over the pickup counts.
crossesDispatchBoundary(m) ==
    \/ m \in {"picked_up", "handed_over", "port_received", "loaded", "departed"}
    \/ /\ milestoneOrder[shipment.milestone] < milestoneOrder["picked_up"]
       /\ milestoneOrder[m] >= milestoneOrder["picked_up"]

assertFeeDispatchWithoutHold ==
    fee.policy = "seller-predispatch-v3" => fee.consent

\* assertFeeDispatch: under the pre-dispatch policy the seller has accepted the fee
\* terms and the fee is paid, credited, waived or nothing.
assertFeeDispatch ==
    /\ ~FeeRefundHold
    /\ fee.policy = "seller-predispatch-v3" =>
         /\ fee.consent
         /\ \/ FeeAmount = 0
            \/ fee.status = "paid" /\ fee.submission = "verified"
            \/ fee.credit
            \/ fee.status = "written_off"

\* authorizePaymentDispatch: the seller may dispatch without the payment conditions.
authorizePaymentDispatch(m, exceptional) ==
    \/ dispatchDecision
    \/ exceptional /\ milestoneParty(m) = "seller"

DispatchAuthorized(m, exceptional) ==
    /\ ~recalled
    /\ NoActiveIssue
    /\ assertFeeDispatch
    /\ authorizePaymentDispatch(m, exceptional)

\* With this arrangement.
Recordable(m, exceptional, fields) ==
    /\ contract.status # "cancelled"
    /\ milestoneOrder[m] > milestoneOrder[shipment.milestone]
    /\ crossesDispatchBoundary(m) => DispatchAuthorized(m, exceptional)
    /\ m = "departed" => {"carrier", "route"} \subseteq fields
    /\ progressPrerequisite(m)

(***************************************************************************)
(* recordMilestone by the party the incoterm gives the milestone to.  At   *)
(* delivery the instalments that wait for it become due, and the trade is  *)
(* completed if nothing else is missing.                                   *)
(***************************************************************************)
recordMilestone(m, exceptional) ==
    LET exception == crossesDispatchBoundary(m) /\ ~dispatchDecision
        risk      == exception \/ shipment.exception > 0
        progress  == IF milestoneOrder[m] < milestoneOrder["loaded"] THEN contract.status
                     ELSE IF m = "delivered"
                     THEN IF risk THEN "delivered_payment_risk" ELSE "delivered"
                     ELSE IF risk THEN "payment_risk_exception" ELSE "in_transit"
        moved     == [contract EXCEPT !.status = progress]
    IN  /\ Recordable(m, exceptional, shipment.fields)
        /\ exception => shipment.exception < MaxExceptions
        /\ shipment' = [shipment EXCEPT !.milestone = m, !.recorded = @ \cup {m},
                                        !.exception = IF exception THEN @ + 1 ELSE @]
        /\ IF m = "delivered"
           THEN /\ items' = activatePaymentInstallments("delivery")
                /\ payment' = IF \E i \in Items : items'[i] = "due"
                              THEN [payment EXCEPT !.status = "payment_due"] ELSE payment
                /\ completeTradeIfReady(moved, payment', shipment', delivery, issue)
           ELSE contract' = moved /\ UNCHANGED <<items, payment, holding, fee>>
        /\ UNCHANGED <<proofs, issue, delivery, cancellation, documents, recalled>>

\* dispatchAcknowledgement: the buyer acknowledges the exception it was shown; the hash
\* of the reason and time makes an acknowledgement of an earlier exception fail.
acknowledgeException ==
    /\ shipment.exception > shipment.acknowledged
    /\ contract.status # "cancelled"
    /\ shipment' = [shipment EXCEPT !.acknowledged = shipment.exception]
    /\ UNCHANGED <<contract, payment, items, proofs, issue, delivery, cancellation, fee,
                   holding, documents, recalled>>
=============================================================================
