----------------------------- MODULE NextAction -----------------------------
(***************************************************************************)
(* What the program tells the parties of a trade to do next               *)
(* (services/tradeNextAction.ts, modules/tradeActions).  The guidance is a *)
(* read of its own: its facts come from one query and its rules repeat, in *)
(* other words, the guards of the operations it points to.  Here it is a   *)
(* function of the state of Deal, so that the two can be compared.         *)
(*                                                                         *)
(* Wording, links and what a colleague without the permission sees are     *)
(* left out; the actor has every permission (authorizeActions).            *)
(***************************************************************************)
EXTENDS Deal

Parties == {"seller", "buyer"}

\* An action of the list: what it is about, and whether this party is asked to do it.
Entry(step, asked) == [step |-> step, asked |-> asked]
Nothing            == Entry("nothing", FALSE)

\* The facts loadTradeActions reads beside the rows themselves.  Of the instalments it
\* takes one, a submitted one before one that is due.
InstallmentStatusDueOnly ==
    IF \E i \in Items : items[i] = "due" THEN "due" ELSE "none"

InstallmentStatus ==
    IF \E i \in Items : items[i] = "payment_submitted" THEN "payment_submitted"
    ELSE IF \E i \in Items : items[i] = "due" THEN "due" ELSE "none"

DocumentsPending ==
    \E i \in Items : /\ items[i] = "awaiting_trigger"
                     /\ Trigger(contract.plan, i) = "documents_presented"

-----------------------------------------------------------------------------
(***************************************************************************)
(* The rules, in their order: the first that applies gives the entry.      *)
(* requester is the party a pending cancellation request came from, which  *)
(* the rows of Deal do not keep; the payer of the fee is the seller.       *)
(***************************************************************************)
BeforePickup == {"planning", "booked", "requested", "accepted", "cargo_ready", "export_cleared"}

FeeMissing ==
    /\ Enrolled
    /\ contract.terms = "agreed"
    /\ shipment.milestone \in BeforePickup
    /\ ~fee.consent \/ (fee.status = "invoiced" /\ FeeAmount > 0 /\ ~fee.credit)

closeoutActionsUndisputed(p, requester) ==
    IF contract.status = "cancelled" THEN Entry("closed", FALSE)
    ELSE IF cancellation THEN Entry("review_cancellation", p # requester)
    ELSE IF contract.status = "settled"
    THEN IF p = "seller" /\ fee.status = "invoiced" /\ FeeAmount > 0
         THEN Entry("pay_fee", fee.submission # "submitted") ELSE Entry("closed", FALSE)
    ELSE IF p = "seller" /\ FeeMissing THEN Entry("pay_fee", fee.submission # "submitted")
    ELSE Nothing

closeoutActions(p, requester) ==
    IF contract.status = "cancelled" THEN Entry("closed", FALSE)
    ELSE IF cancellation THEN Entry("review_cancellation", p # requester)
    ELSE IF contract.status = "settled"
    THEN IF p = "seller" /\ fee.status = "invoiced" /\ FeeAmount > 0
         THEN Entry("pay_fee", fee.submission # "submitted") ELSE Entry("closed", FALSE)
    ELSE IF p = "seller" /\ FeeMissing THEN Entry("pay_fee", fee.submission # "submitted")
    ELSE IF delivery.discrepancy = "open" THEN Entry("propose_resolution", p = "seller")
    ELSE IF delivery.discrepancy = "resolution_proposed"
    THEN Entry("approve_resolution", p = "buyer")
    ELSE Nothing

commercialActions(p) ==
    IF contract.terms = "draft" THEN Entry("configure_terms", p = "seller")
    ELSE IF contract.terms = "proposed" THEN Entry("confirm_terms", p = "buyer")
    ELSE IF ~NoActiveIssue \/ recalled THEN Entry("hold", FALSE)
    ELSE IF contract.plan = "bank_secured" /\ payment.security # "verified"
    THEN IF payment.security = "submitted" THEN Entry("verify_security", p = "seller")
         ELSE Entry("submit_security", p = "buyer")
    ELSE IF InstallmentStatus = "payment_submitted" THEN Entry("verify_payment", p = "seller")
    ELSE IF InstallmentStatus = "due" THEN Entry("submit_payment", p = "buyer")
    ELSE Nothing

\* The milestone the guidance asks for after the current one.
NextMilestone ==
    LET m == shipment.milestone
    IN  CASE m = "planning" -> "booked"
          [] m \in {"booked", "requested", "accepted"} -> "cargo_ready"
          [] m \in {"cargo_ready", "export_cleared", "picked_up", "warehouse_received"} ->
               IF Incoterm = "FAS" THEN "handed_over" ELSE "loaded"
          [] m \in {"handed_over", "port_received"} -> "loaded"
          [] m = "loaded" -> "departed"
          [] m = "departed" -> "arrived"
          [] m = "arrived" -> "customs_cleared"
          [] m = "customs_cleared" -> IF Incoterm = "DPU" THEN "unloaded" ELSE "delivered"
          [] m \in {"unloaded", "delivered"} -> "delivered"

fulfillmentActions(p) ==
    IF /\ DocumentsPending /\ ~payment.presented
       /\ documentsCanBePresentedAt(shipment.milestone)
    THEN Entry("documents", p = "seller")
    ELSE IF shipment.milestone = "delivered" /\ ~delivery.accepted
    THEN Entry("accept_delivery", p = "buyer")
    ELSE IF ~dispatchDecision \/ shipment.milestone = "delivered" THEN Entry("wait", FALSE)
    ELSE Entry("transport", p = milestoneParty(NextMilestone))

\* buildTradeActions, for one deal: its first entry.
NextEntry(p, requester) ==
    LET closeout == closeoutActions(p, requester)
        commercial == commercialActions(p)
    IN  IF closeout # Nothing THEN closeout
        ELSE IF commercial # Nothing THEN commercial ELSE fulfillmentActions(p)

-----------------------------------------------------------------------------
(***************************************************************************)
(* Whether the operation the entry points to would be accepted now: its    *)
(* own guard.  A document set is completed by uploads and by the reference *)
(* of the transport document, a departure may need carrier and route:      *)
(* updateArrangement records them first.                                   *)
(***************************************************************************)
Accepts(step) ==
    \/ step = "review_cancellation" /\ cancellation
    \/ step = "pay_fee"             /\ (FeeTermsPending \/ FeeOpen)
    \/ step = "propose_resolution"  /\ DiscrepancyIs("open")
    \/ step = "approve_resolution"  /\ DiscrepancyIs("resolution_proposed")
    \/ step = "configure_terms"     /\ Replaceable
    \/ step = "confirm_terms"       /\ TermsProposed
    \/ step = "submit_security"     /\ SecurityAwaits("awaiting_submission")
    \/ step = "verify_security"     /\ SecurityAwaits("submitted")
    \/ step = "submit_payment"      /\ \E i \in Items : Payable(i, TRUE)
    \/ step = "verify_payment"      /\ \E i \in Items : Confirmable(i) \/ Rejectable(i)
    \/ /\ step = "documents"
       /\ Presentable /\ ~payment.presented
       /\ "document" \in shipment.fields \/ Arrangeable
    \/ step = "accept_delivery"     /\ Acceptable
    \/ /\ step = "transport"
       /\ \/ Recordable(NextMilestone, FALSE, shipment.fields)
          \/ Arrangeable /\ Recordable(NextMilestone, FALSE, Fields)

\* What the platform fee may still refuse: money while a refund is under way, and goods
\* while it is not paid, credited or waived.
FeeRefuses(step) ==
    \/ FeeRefundHold /\ step \in {"submit_payment", "verify_payment", "submit_security",
                                  "verify_security"}
    \/ ~assertFeeDispatch /\ step = "transport"

\* The goods were reported delivered before anybody recorded the transport document, and
\* a delivered shipment's arrangement is closed: the set can never be completed, what
\* falls due against it is never paid, and still the seller is asked for it.
ReferenceMissed == shipment.milestone = "delivered" /\ "document" \notin shipment.fields

\* Whatever a party is asked to do next, the operation behind it would be accepted; only
\* the platform fee, which the guidance looks at before pickup alone, may still refuse,
\* and documents may be asked for that can no longer be completed (modules/tradeActions
\* against the guards of payments, transport, delivery, fees and cancellation).
AskedIsAccepted ==
    \A p, requester \in Parties :
        LET entry == NextEntry(p, requester)
        IN  entry.asked => \/ Accepts(entry.step)
                           \/ FeeRefuses(entry.step)
                           \/ entry.step = "documents" /\ ReferenceMissed

\* Nobody can act on the trade as it is: it has ended, a recall or a payment issue holds
\* it, or the platform reviews the fee's payment.
Held == \/ contract.status \in Closed \/ recalled \/ ~NoActiveIssue
        \/ fee.submission = "submitted"

\* An open trade never leaves both parties waiting for each other: one of them is asked to
\* do something, whatever instalments, documents, milestones and reversals it went
\* through (late terms, which DeliveryCollects is about, are left out).
SomebodyIsAsked ==
    ~Held /\ DeliveryCollects
        => \A requester \in Parties : \E p \in Parties : NextEntry(p, requester).asked
=============================================================================
