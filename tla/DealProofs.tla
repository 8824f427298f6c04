----------------------------- MODULE DealProofs -----------------------------
(***************************************************************************)
(* The life of a trade keeps its books, and implements the exchange, for   *)
(* every price, deposit, incoterm, set of plans, policies and milestones.  *)
(*                                                                         *)
(* The inductive invariant IInv is the conjunction of the properties TLC   *)
(* checks with five facts that tie the rows of a trade together.  There is *)
(* one lemma per action, with a step per conjunct the action can disturb.  *)
(* The four actions that may settle the trade share the lemma Completion.  *)
(***************************************************************************)
EXTENDS DealExchange, NextAction, TLAPS

\* The instalments are those of the plan.
ItemsOfPlan == \A i \in Items : items[i] = "absent" <=> i \notin PlanItems(contract.plan)

\* Money moves under agreed terms only, though delivery may make an instalment due before.
PaidUnderTerms ==
    \A i \in Items : items[i] \in {"payment_submitted", "paid"} => contract.terms = "agreed"

\* A correction or a reversal names its instalment.
IssueNamesItem == issue # NoIssue /\ issue.type # "payment_dispute" => issue.item \in Items

\* Once accepted, no discrepancy is open.
AcceptedIsClear == delivery.accepted => NoOpenDiscrepancy

\* A settled trade stays delivered, paid and handed over.
SettledIsDelivered ==
    contract.status = "settled" =>
        /\ shipment.milestone = "delivered" /\ holding = "transferred"
        /\ payment.confirmed = Total

IInv ==
    /\ TypeOK
    /\ ItemsOfPlan /\ PaidUnderTerms /\ IssueNamesItem /\ AcceptedIsClear
    /\ SettledIsDelivered
    /\ PaymentAddsUp /\ ReadyIsSettled /\ ReleaseIsJustified /\ DispatchIsCovered
    /\ RefundOnlyUnstarted /\ CancelledIsClean

\* The part of the milestone order the proofs use: planning and booked come before
\* the pickup, delivered is last (milestoneOrder in transport/responsibilities.ts).
LEMMA MilestoneFacts ==
    /\ milestoneOrder \in [Milestones -> 1..16]
    /\ milestoneOrder["picked_up"] = 7 /\ milestoneOrder["delivered"] = 16
    /\ milestoneOrder["planning"] = 1 /\ milestoneOrder["booked"] = 2
    /\ {"planning", "booked", "picked_up", "delivered"} \subseteq Milestones
PROOF BY DEF milestoneOrder, Milestones

\* The paid instalments of one plan never add up to more than the price
\* (buildInstallments).
LEMMA ConfirmedFits ==
    ASSUME NEW c \in ContractRow, NEW its \in [Items -> ItemStatus],
           \A i \in Items : its[i] = "absent" <=> i \notin PlanItems(c.plan)
    PROVE  Confirmed(c, its) \in 0..Total
PROOF BY DealAssumption DEF Confirmed, ContractRow, AmountDue, PlanItems, Items, AllPlans

(***************************************************************************)
(* What completeTradeIfReady leaves behind when it is called with the      *)
(* contract row c and the other rows as the transaction writes them.       *)
(***************************************************************************)
Outcome(c) ==
    /\ contract' \in ContractRow /\ fee' \in FeeRow
    /\ contract'.plan = c.plan /\ contract'.deposit = c.deposit /\ contract'.terms = c.terms
    /\ fee'.refund = fee.refund /\ fee'.consent = fee.consent /\ fee'.policy = fee.policy
    /\ \/ contract' = c /\ holding' = holding /\ fee' = fee
       \/ /\ holding = "committed" /\ c.status # "settled"
          /\ contract'.status = "settled" /\ holding' = "transferred"
          /\ shipment'.milestone = "delivered"
          /\ payment'.status = "settled" /\ delivery'.accepted
    /\ ReadyIsSettled'

\* completeTradeIfReady settles the trade or leaves its rows alone, and afterwards no
\* trade is ready and unsettled.
LEMMA Completion ==
    ASSUME TypeOK, NEW c \in ContractRow,
           completeTradeIfReady(c, payment', shipment', delivery', issue')
    PROVE  Outcome(c)
<1>1. CASE TradeReady(c, payment', shipment', delivery', issue')
  <2>1. contract' = [c EXCEPT !.status = "settled"] /\ holding' = "transferred"
        /\ fee' = makeFeeDue(fee)
    BY <1>1 DEF completeTradeIfReady
  <2>2. contract' \in ContractRow /\ contract'.status = "settled"
        /\ contract'.plan = c.plan /\ contract'.deposit = c.deposit /\ contract'.terms = c.terms
    BY <2>1 DEF ContractRow, Closed
  <2>3. fee' \in FeeRow /\ fee'.refund = fee.refund /\ fee'.consent = fee.consent
        /\ fee'.policy = fee.policy
    BY <2>1 DEF TypeOK, FeeRow, makeFeeDue
  <2> QED BY <1>1, <2>1, <2>2, <2>3 DEF Outcome, ReadyIsSettled, TradeReady
<1>2. CASE ~TradeReady(c, payment', shipment', delivery', issue')
  <2>1. contract' = c /\ holding' = holding /\ fee' = fee
    BY <1>2 DEF completeTradeIfReady
  <2> QED BY <1>2, <2>1 DEF Outcome, ReadyIsSettled, TradeReady, TypeOK
<1> QED BY <1>1, <1>2

\* proposePaymentTerms keeps the invariant.
LEMMA proposePaymentTermsKeeps ==
    ASSUME IInv, NEW plan \in Plans, NEW d \in Deposits, NEW proof \in ProofChoices,
           proposePaymentTerms(plan, d, proof)
    PROVE  IInv'
<1>1. TypeOK'
  <2>1. items' \in [Items -> ItemStatus]
    BY DEF proposePaymentTerms, buildInstallments, ItemStatus
  <2>2. contract' \in ContractRow
    BY DealAssumption DEF IInv, TypeOK, proposePaymentTerms, ContractRow
  <2>3. payment' \in PaymentRow
    <3>1. 0 \in 0..Total
      BY DealAssumption
    <3> QED BY <3>1 DEF IInv, TypeOK, proposePaymentTerms, PaymentRow
  <2>4. proofs' \in [Items -> ProofState]
    BY DEF proposePaymentTerms, ProofState
  <2> QED BY <2>1, <2>2, <2>3, <2>4 DEF IInv, TypeOK, proposePaymentTerms
<1>2. ItemsOfPlan'
  BY DEF IInv, TypeOK, proposePaymentTerms, Replaceable, buildInstallments, PlanItems, Closed,
         ItemsOfPlan
<1>3. PaidUnderTerms'
  BY DEF IInv, TypeOK, proposePaymentTerms, Replaceable, buildInstallments, PlanItems, Closed,
         PaidUnderTerms
<1>4. SettledIsDelivered'
  BY DEF IInv, TypeOK, proposePaymentTerms, Replaceable, buildInstallments, PlanItems, Closed,
         SettledIsDelivered
<1>5. PaymentAddsUp'
  BY DEF IInv, TypeOK, proposePaymentTerms, Replaceable, buildInstallments, PlanItems, Closed,
         PaymentAddsUp, Confirmed, AmountDue, Items, PaymentRow, ItemStatus
<1>6. ReadyIsSettled'
  BY DEF IInv, TypeOK, proposePaymentTerms, Replaceable, buildInstallments, PlanItems, Closed,
         ReadyIsSettled, TradeReady
<1>7. ReleaseIsJustified'
  BY DEF IInv, TypeOK, proposePaymentTerms, Replaceable, buildInstallments, PlanItems, Closed,
         ReleaseIsJustified
<1>8. DispatchIsCovered'
  BY DEF IInv, TypeOK, proposePaymentTerms, Replaceable, buildInstallments, PlanItems, Closed,
         DispatchIsCovered, Enrolled, Dispatched
<1>9. RefundOnlyUnstarted'
  BY DEF IInv, TypeOK, proposePaymentTerms, Replaceable, buildInstallments, PlanItems, Closed,
         RefundOnlyUnstarted, FeeRefundHold, PaymentActivity, SecurityActivity, Dispatched
<1>10. CancelledIsClean'
  BY DEF IInv, TypeOK, proposePaymentTerms, Replaceable, buildInstallments, PlanItems, Closed,
         CancelledIsClean, SecurityActivity, TransportActivity, NoActiveIssue,
         hasConfirmedFeeRefund, FeeVerified
<1>11. IssueNamesItem' /\ AcceptedIsClear'
  BY DEF IInv, proposePaymentTerms, IssueNamesItem, NoIssue, AcceptedIsClear, NoOpenDiscrepancy
<1> QED BY <1>1, <1>2, <1>3, <1>4, <1>5, <1>6, <1>7, <1>8, <1>9, <1>10, <1>11 DEF IInv

\* agreePaymentTerms keeps the invariant.
LEMMA agreePaymentTermsKeeps ==
    ASSUME IInv, agreePaymentTerms
    PROVE  IInv'
<1>1. TypeOK'
  <2>1. items' \in [Items -> ItemStatus]
    BY DEF IInv, TypeOK, agreePaymentTerms, TermsProposed, activatePaymentInstallments, ItemStatus
  <2>2. contract' \in ContractRow
    BY DEF IInv, TypeOK, agreePaymentTerms, TermsProposed, ContractRow
  <2>3. paymentStateAfterAgreement(contract.plan) \in
          {"payment_due", "awaiting_security", "awaiting_documents", "awaiting_delivery"}
    BY DEF IInv, TypeOK, ContractRow, AllPlans, paymentStateAfterAgreement
  <2>4. payment' \in PaymentRow
    BY <2>3 DEF IInv, TypeOK, agreePaymentTerms, TermsProposed, PaymentRow
  <2> QED BY <2>1, <2>2, <2>4 DEF IInv, TypeOK, agreePaymentTerms, TermsProposed
<1>2. ItemsOfPlan'
  BY DEF IInv, TypeOK, agreePaymentTerms, TermsProposed, activatePaymentInstallments,
         paymentStateAfterAgreement, Closed, ItemsOfPlan
<1>3. PaidUnderTerms'
  BY DEF IInv, TypeOK, agreePaymentTerms, TermsProposed, activatePaymentInstallments,
         paymentStateAfterAgreement, Closed, PaidUnderTerms
<1>4. SettledIsDelivered'
  BY DEF IInv, TypeOK, agreePaymentTerms, TermsProposed, activatePaymentInstallments,
         paymentStateAfterAgreement, Closed, SettledIsDelivered
<1>5. PaymentAddsUp'
  <2>1. paymentStateAfterAgreement(contract.plan) \notin
          {"payment_pending_verification", "settled"}
    BY DEF IInv, TypeOK, ContractRow, AllPlans, paymentStateAfterAgreement
  <2>2. contract'.deposit = contract.deposit /\ payment'.confirmed = payment.confirmed
        /\ payment'.status # "settled"
    BY <2>1 DEF IInv, TypeOK, ContractRow, PaymentRow, agreePaymentTerms, TermsProposed
  <2>3. \A i \in Items : items'[i] = "paid" <=> items[i] = "paid"
    BY DEF IInv, TypeOK, agreePaymentTerms, TermsProposed, activatePaymentInstallments
  <2> QED BY <2>2, <2>3 DEF IInv, PaymentAddsUp, Confirmed, AmountDue, Items
<1>6. ReadyIsSettled'
  <2>1. paymentStateAfterAgreement(contract.plan) \notin
          {"payment_pending_verification", "settled"}
    BY DEF IInv, TypeOK, ContractRow, AllPlans, paymentStateAfterAgreement
  <2> QED BY <2>1 DEF IInv, TypeOK, PaymentRow, agreePaymentTerms, TermsProposed, ReadyIsSettled,
                      TradeReady
<1>7. ReleaseIsJustified'
  BY DEF IInv, TypeOK, agreePaymentTerms, TermsProposed, activatePaymentInstallments,
         paymentStateAfterAgreement, Closed, ReleaseIsJustified
<1>8. DispatchIsCovered'
  BY DEF IInv, TypeOK, agreePaymentTerms, TermsProposed, activatePaymentInstallments,
         paymentStateAfterAgreement, Closed, DispatchIsCovered, Enrolled, Dispatched
<1>9. RefundOnlyUnstarted'
  <2>1. paymentStateAfterAgreement(contract.plan) \notin
          {"payment_pending_verification", "settled"}
    BY DEF IInv, TypeOK, ContractRow, AllPlans, paymentStateAfterAgreement
  <2> QED BY <2>1 DEF IInv, TypeOK, PaymentRow, agreePaymentTerms, TermsProposed,
                      activatePaymentInstallments, RefundOnlyUnstarted, FeeRefundHold,
                      PaymentActivity, SecurityActivity, Dispatched
<1>10. CancelledIsClean'
  BY DEF IInv, TypeOK, agreePaymentTerms, TermsProposed, activatePaymentInstallments,
         paymentStateAfterAgreement, Closed, CancelledIsClean, SecurityActivity,
         TransportActivity, NoActiveIssue, hasConfirmedFeeRefund, FeeVerified
<1>11. IssueNamesItem' /\ AcceptedIsClear'
  BY DEF IInv, agreePaymentTerms, TermsProposed, IssueNamesItem, NoIssue, AcceptedIsClear,
         NoOpenDiscrepancy
<1> QED BY <1>1, <1>2, <1>3, <1>4, <1>5, <1>6, <1>7, <1>8, <1>9, <1>10, <1>11 DEF IInv

\* submitPayment keeps the invariant.
LEMMA submitPaymentKeeps ==
    ASSUME IInv, NEW i \in Items, NEW proof \in ProofChoices, submitPayment(i, proof)
    PROVE  IInv'
<1>1. TypeOK'
  BY DEF IInv, TypeOK, submitPayment, Payable, PaymentOpen, FeeRefundHold, ItemStatus, PaymentRow,
         ProofState
<1>2. ItemsOfPlan'
  BY DEF IInv, TypeOK, submitPayment, Payable, PaymentOpen, FeeRefundHold, ItemsOfPlan
<1>3. PaidUnderTerms'
  BY DEF IInv, TypeOK, submitPayment, Payable, PaymentOpen, FeeRefundHold, PaidUnderTerms
<1>4. SettledIsDelivered'
  BY DEF IInv, TypeOK, submitPayment, Payable, PaymentOpen, FeeRefundHold, SettledIsDelivered
<1>5. PaymentAddsUp'
  BY DEF IInv, TypeOK, submitPayment, Payable, PaymentOpen, FeeRefundHold, PaymentAddsUp, Confirmed,
         AmountDue
<1>6. ReadyIsSettled'
  BY DEF IInv, TypeOK, submitPayment, Payable, PaymentOpen, FeeRefundHold, ReadyIsSettled,
         TradeReady
<1>7. ReleaseIsJustified'
  BY DEF IInv, TypeOK, submitPayment, Payable, PaymentOpen, FeeRefundHold, ReleaseIsJustified
<1>8. DispatchIsCovered'
  BY DEF IInv, TypeOK, submitPayment, Payable, PaymentOpen, FeeRefundHold, DispatchIsCovered,
         Enrolled, Dispatched
<1>9. RefundOnlyUnstarted'
  BY DEF IInv, TypeOK, submitPayment, Payable, PaymentOpen, FeeRefundHold, RefundOnlyUnstarted,
         PaymentActivity, SecurityActivity, Dispatched
<1>10. CancelledIsClean'
  BY DEF IInv, TypeOK, submitPayment, Payable, PaymentOpen, FeeRefundHold, CancelledIsClean,
         SecurityActivity, TransportActivity, NoActiveIssue, hasConfirmedFeeRefund, FeeVerified
<1>11. IssueNamesItem' /\ AcceptedIsClear'
  BY DEF IInv, submitPayment, Payable, IssueNamesItem, NoIssue, AcceptedIsClear, NoOpenDiscrepancy
<1> QED BY <1>1, <1>2, <1>3, <1>4, <1>5, <1>6, <1>7, <1>8, <1>9, <1>10, <1>11 DEF IInv

\* proofRejected keeps the invariant.
LEMMA proofRejectedKeeps ==
    ASSUME IInv, NEW i \in Items, proofRejected(i)
    PROVE  IInv'
<1>1. TypeOK'
  BY DEF IInv, TypeOK, proofRejected, ProofState
<1>2. ItemsOfPlan' /\ PaidUnderTerms' /\ IssueNamesItem' /\ AcceptedIsClear' /\
      SettledIsDelivered' /\ PaymentAddsUp' /\ ReadyIsSettled' /\ ReleaseIsJustified' /\
      DispatchIsCovered' /\ RefundOnlyUnstarted' /\ CancelledIsClean'
  BY DEF IInv, proofRejected, ItemsOfPlan, PaidUnderTerms, IssueNamesItem, NoIssue,
         AcceptedIsClear, NoOpenDiscrepancy, SettledIsDelivered, PaymentAddsUp, Confirmed,
         AmountDue, ReadyIsSettled, TradeReady, ReleaseIsJustified, DispatchIsCovered, Enrolled,
         Dispatched, RefundOnlyUnstarted, FeeRefundHold, PaymentActivity, SecurityActivity,
         CancelledIsClean, TransportActivity, NoActiveIssue, hasConfirmedFeeRefund, FeeVerified
<1> QED BY <1>1, <1>2 DEF IInv

\* confirmReceipt attempts the settlement only once everything is confirmed.
LEMMA confirmReceiptOutcome ==
    ASSUME IInv, NEW i \in Items, confirmReceipt(i)
    PROVE  Outcome(contract)
<1>1. CASE payment'.status = "settled"
  <2>1. completeTradeIfReady(contract, payment', shipment', delivery', issue')
    BY <1>1 DEF confirmReceipt, Confirmable
  <2> QED BY <2>1, Completion DEF IInv, TypeOK
<1>2. CASE payment'.status # "settled"
  BY <1>2 DEF IInv, TypeOK, confirmReceipt, Confirmable, Outcome, ReadyIsSettled, TradeReady
<1> QED BY <1>1, <1>2

\* confirmReceipt keeps the invariant.
LEMMA confirmReceiptKeeps ==
    ASSUME IInv, NEW i \in Items, confirmReceipt(i)
    PROVE  IInv'
<1>1. /\ items' \in [Items -> ItemStatus]
      /\ \A j \in Items : items'[j] = "absent" <=> items[j] = "absent"
  BY DEF IInv, TypeOK, confirmReceipt, Confirmable, ItemStatus
<1>2. Confirmed(contract, items') \in 0..Total
  BY <1>1, ConfirmedFits DEF IInv, TypeOK, ItemsOfPlan
<1>3. Confirmed(contract, items') >= Confirmed(contract, items)
  BY DealAssumption
     DEF IInv, TypeOK, ContractRow, confirmReceipt, Confirmable, Confirmed, AmountDue, Items,
         ItemStatus
<1>4. /\ payment' \in PaymentRow
      /\ payment'.confirmed = Confirmed(contract, items')
      /\ payment'.status = "settled" => payment'.confirmed = Total
      /\ payment'.security = payment.security
      /\ payment'.release = "authorized"
            => payment'.confirmed = Total \/ payment.release = "authorized"
  BY <1>2 DEF IInv, TypeOK, PaymentRow, confirmReceipt, Confirmable, ConfirmedRow
<1>5. Outcome(contract)
  BY confirmReceiptOutcome
<1>6. TypeOK'
  BY <1>1, <1>4, <1>5 DEF IInv, TypeOK, confirmReceipt, Confirmable, Outcome
<1>7. ItemsOfPlan' /\ PaymentAddsUp'
  BY <1>1, <1>4, <1>5 DEF IInv, ItemsOfPlan, PaymentAddsUp, Confirmed, AmountDue, Outcome
<1>8. PaidUnderTerms'
  BY <1>5 DEF PaidUnderTerms, confirmReceipt, Confirmable, PaymentOpen, Outcome
<1>9. SettledIsDelivered' /\ ReadyIsSettled'
  BY <1>2, <1>3, <1>4, <1>5, DealAssumption
     DEF IInv, SettledIsDelivered, PaymentAddsUp, confirmReceipt, Confirmable, Outcome
<1>10. ReleaseIsJustified'
  BY <1>2, <1>3, <1>4, <1>5, DealAssumption
     DEF IInv, ReleaseIsJustified, PaymentAddsUp, confirmReceipt, Confirmable, PaymentOpen, Outcome
<1>11. DispatchIsCovered'
  BY <1>4, <1>5 DEF IInv, DispatchIsCovered, Dispatched, Enrolled, confirmReceipt, Confirmable,
                    Outcome
<1>12. RefundOnlyUnstarted'
  BY <1>5 DEF IInv, RefundOnlyUnstarted, FeeRefundHold, confirmReceipt, Confirmable, Outcome
<1>13. CancelledIsClean'
  BY <1>5 DEF CancelledIsClean, confirmReceipt, Confirmable, PaymentOpen, Outcome
<1>14. IssueNamesItem' /\ AcceptedIsClear'
  BY DEF IInv, confirmReceipt, Confirmable, IssueNamesItem, NoIssue, AcceptedIsClear,
         NoOpenDiscrepancy
<1> QED BY <1>6, <1>7, <1>8, <1>9, <1>10, <1>11, <1>12, <1>13, <1>14 DEF IInv

\* rejectReceipt keeps the invariant.
LEMMA rejectReceiptKeeps ==
    ASSUME IInv, NEW i \in Items, rejectReceipt(i)
    PROVE  IInv'
<1>1. TypeOK'
  BY DEF IInv, TypeOK, rejectReceipt, Rejectable, PaymentOpen, ItemStatus, PaymentRow
<1>2. ItemsOfPlan'
  BY DEF IInv, TypeOK, rejectReceipt, Rejectable, PaymentOpen, ItemsOfPlan
<1>3. PaidUnderTerms'
  BY DEF IInv, TypeOK, rejectReceipt, Rejectable, PaymentOpen, PaidUnderTerms
<1>4. SettledIsDelivered'
  BY DEF IInv, TypeOK, rejectReceipt, Rejectable, PaymentOpen, SettledIsDelivered
<1>5. PaymentAddsUp'
  BY DEF IInv, TypeOK, rejectReceipt, Rejectable, PaymentOpen, PaymentAddsUp, Confirmed, AmountDue
<1>6. ReadyIsSettled'
  BY DEF IInv, TypeOK, rejectReceipt, Rejectable, PaymentOpen, ReadyIsSettled, TradeReady
<1>7. ReleaseIsJustified'
  BY DEF IInv, TypeOK, rejectReceipt, Rejectable, PaymentOpen, ReleaseIsJustified
<1>8. DispatchIsCovered'
  BY DEF IInv, TypeOK, rejectReceipt, Rejectable, PaymentOpen, DispatchIsCovered, Enrolled,
         Dispatched
<1>9. RefundOnlyUnstarted'
  BY DEF IInv, TypeOK, rejectReceipt, Rejectable, PaymentOpen, RefundOnlyUnstarted, FeeRefundHold,
         PaymentActivity, SecurityActivity, Dispatched
<1>10. CancelledIsClean'
  BY DEF IInv, TypeOK, rejectReceipt, Rejectable, PaymentOpen, CancelledIsClean, SecurityActivity,
         TransportActivity, NoActiveIssue, hasConfirmedFeeRefund, FeeVerified
<1>11. IssueNamesItem' /\ AcceptedIsClear'
  BY DEF IInv, rejectReceipt, Rejectable, IssueNamesItem, NoIssue, AcceptedIsClear,
         NoOpenDiscrepancy
<1> QED BY <1>1, <1>2, <1>3, <1>4, <1>5, <1>6, <1>7, <1>8, <1>9, <1>10, <1>11 DEF IInv

\* presentDocumentSet keeps the invariant.
LEMMA presentDocumentSetKeeps ==
    ASSUME IInv, presentDocumentSet
    PROVE  IInv'
<1>1. TypeOK'
  BY DEF IInv, TypeOK, presentDocumentSet, DocumentsReady, Presentable, PaymentOpen,
         activatePaymentInstallments, ItemStatus, PaymentRow
<1>2. ItemsOfPlan'
  BY DEF IInv, TypeOK, presentDocumentSet, DocumentsReady, Presentable, PaymentOpen,
         activatePaymentInstallments, ItemsOfPlan
<1>3. PaidUnderTerms'
  BY DEF IInv, TypeOK, presentDocumentSet, DocumentsReady, Presentable, PaymentOpen,
         activatePaymentInstallments, PaidUnderTerms
<1>4. SettledIsDelivered'
  BY DEF IInv, TypeOK, presentDocumentSet, DocumentsReady, Presentable, PaymentOpen,
         activatePaymentInstallments, SettledIsDelivered
<1>5. PaymentAddsUp'
  BY DEF IInv, TypeOK, presentDocumentSet, DocumentsReady, Presentable, PaymentOpen,
         activatePaymentInstallments, PaymentAddsUp, Confirmed, AmountDue, Items, PaymentRow,
         ItemStatus
<1>6. ReadyIsSettled'
  BY DEF IInv, TypeOK, presentDocumentSet, DocumentsReady, Presentable, PaymentOpen,
         activatePaymentInstallments, ReadyIsSettled, TradeReady
<1>7. ReleaseIsJustified'
  BY DEF IInv, TypeOK, presentDocumentSet, DocumentsReady, Presentable, PaymentOpen,
         activatePaymentInstallments, ReleaseIsJustified
<1>8. DispatchIsCovered'
  BY DEF IInv, TypeOK, presentDocumentSet, DocumentsReady, Presentable, PaymentOpen,
         activatePaymentInstallments, DispatchIsCovered, Enrolled, Dispatched
<1>9. RefundOnlyUnstarted'
  BY DEF IInv, TypeOK, presentDocumentSet, DocumentsReady, Presentable, PaymentOpen,
         activatePaymentInstallments, RefundOnlyUnstarted, FeeRefundHold, PaymentActivity,
         SecurityActivity, Dispatched
<1>10. CancelledIsClean'
  BY DEF IInv, TypeOK, presentDocumentSet, DocumentsReady, Presentable, PaymentOpen,
         activatePaymentInstallments, CancelledIsClean, SecurityActivity, TransportActivity,
         NoActiveIssue, hasConfirmedFeeRefund, FeeVerified
<1>11. IssueNamesItem' /\ AcceptedIsClear'
  BY DEF IInv, presentDocumentSet, DocumentsReady, Presentable, IssueNamesItem, NoIssue,
         AcceptedIsClear, NoOpenDiscrepancy
<1> QED BY <1>1, <1>2, <1>3, <1>4, <1>5, <1>6, <1>7, <1>8, <1>9, <1>10, <1>11 DEF IInv

\* documentsChange keeps the invariant.
LEMMA documentsChangeKeeps ==
    ASSUME IInv, documentsChange
    PROVE  IInv'
<1>1. TypeOK'
  BY DEF IInv, TypeOK, documentsChange
<1>2. ItemsOfPlan' /\ PaidUnderTerms' /\ IssueNamesItem' /\ AcceptedIsClear' /\
      SettledIsDelivered' /\ PaymentAddsUp' /\ ReadyIsSettled' /\ ReleaseIsJustified' /\
      DispatchIsCovered' /\ RefundOnlyUnstarted' /\ CancelledIsClean'
  BY DEF IInv, documentsChange, ItemsOfPlan, PaidUnderTerms, IssueNamesItem, NoIssue,
         AcceptedIsClear, NoOpenDiscrepancy, SettledIsDelivered, PaymentAddsUp, Confirmed,
         AmountDue, ReadyIsSettled, TradeReady, ReleaseIsJustified, DispatchIsCovered, Enrolled,
         Dispatched, RefundOnlyUnstarted, FeeRefundHold, PaymentActivity, SecurityActivity,
         CancelledIsClean, TransportActivity, NoActiveIssue, hasConfirmedFeeRefund, FeeVerified
<1> QED BY <1>1, <1>2 DEF IInv

\* submitSecurity keeps the invariant.
LEMMA submitSecurityKeeps ==
    ASSUME IInv, submitSecurity
    PROVE  IInv'
<1>1. TypeOK'
  BY DEF IInv, TypeOK, submitSecurity, SecurityStep, SecurityAwaits, PaymentOpen, PaymentRow
<1>2. SettledIsDelivered'
  BY DEF IInv, TypeOK, submitSecurity, SecurityStep, SecurityAwaits, PaymentOpen, SettledIsDelivered
<1>3. PaymentAddsUp'
  BY DEF IInv, TypeOK, submitSecurity, SecurityStep, SecurityAwaits, PaymentOpen, PaymentAddsUp,
         Confirmed, AmountDue
<1>4. ReadyIsSettled'
  BY DEF IInv, TypeOK, submitSecurity, SecurityStep, SecurityAwaits, PaymentOpen, ReadyIsSettled,
         TradeReady
<1>5. ReleaseIsJustified'
  BY DEF IInv, TypeOK, submitSecurity, SecurityStep, SecurityAwaits, PaymentOpen, ReleaseIsJustified
<1>6. DispatchIsCovered'
  BY DEF IInv, TypeOK, submitSecurity, SecurityStep, SecurityAwaits, PaymentOpen, DispatchIsCovered,
         Enrolled, Dispatched
<1>7. RefundOnlyUnstarted'
  BY DEF IInv, TypeOK, submitSecurity, SecurityStep, SecurityAwaits, PaymentOpen,
         RefundOnlyUnstarted, FeeRefundHold, PaymentActivity, SecurityActivity, Dispatched
<1>8. CancelledIsClean'
  BY DEF IInv, TypeOK, submitSecurity, SecurityStep, SecurityAwaits, PaymentOpen, CancelledIsClean,
         SecurityActivity, TransportActivity, NoActiveIssue, hasConfirmedFeeRefund, FeeVerified
<1>9. ItemsOfPlan' /\ PaidUnderTerms' /\ IssueNamesItem' /\ AcceptedIsClear'
  BY DEF IInv, submitSecurity, SecurityStep, SecurityAwaits, ItemsOfPlan, PaidUnderTerms,
         IssueNamesItem, NoIssue, AcceptedIsClear, NoOpenDiscrepancy
<1> QED BY <1>1, <1>2, <1>3, <1>4, <1>5, <1>6, <1>7, <1>8, <1>9 DEF IInv

\* confirmSecurity keeps the invariant.
LEMMA confirmSecurityKeeps ==
    ASSUME IInv, confirmSecurity
    PROVE  IInv'
<1>1. TypeOK'
  BY DEF IInv, TypeOK, confirmSecurity, SecurityStep, SecurityAwaits, PaymentOpen, PaymentRow
<1>2. SettledIsDelivered'
  BY DEF IInv, TypeOK, confirmSecurity, SecurityStep, SecurityAwaits, PaymentOpen,
         SettledIsDelivered
<1>3. PaymentAddsUp'
  BY DEF IInv, TypeOK, confirmSecurity, SecurityStep, SecurityAwaits, PaymentOpen, PaymentAddsUp,
         Confirmed, AmountDue
<1>4. ReadyIsSettled'
  BY DEF IInv, TypeOK, confirmSecurity, SecurityStep, SecurityAwaits, PaymentOpen, ReadyIsSettled,
         TradeReady
<1>5. ReleaseIsJustified'
  BY DEF IInv, TypeOK, confirmSecurity, SecurityStep, SecurityAwaits, PaymentOpen,
         ReleaseIsJustified
<1>6. DispatchIsCovered'
  BY DEF IInv, TypeOK, confirmSecurity, SecurityStep, SecurityAwaits, PaymentOpen,
         DispatchIsCovered, Enrolled, Dispatched
<1>7. RefundOnlyUnstarted'
  BY DEF IInv, TypeOK, confirmSecurity, SecurityStep, SecurityAwaits, PaymentOpen,
         RefundOnlyUnstarted, FeeRefundHold, PaymentActivity, SecurityActivity, Dispatched
<1>8. CancelledIsClean'
  BY DEF IInv, TypeOK, confirmSecurity, SecurityStep, SecurityAwaits, PaymentOpen, CancelledIsClean,
         SecurityActivity, TransportActivity, NoActiveIssue, hasConfirmedFeeRefund, FeeVerified
<1>9. ItemsOfPlan' /\ PaidUnderTerms' /\ IssueNamesItem' /\ AcceptedIsClear'
  BY DEF IInv, confirmSecurity, SecurityStep, SecurityAwaits, ItemsOfPlan, PaidUnderTerms,
         IssueNamesItem, NoIssue, AcceptedIsClear, NoOpenDiscrepancy
<1> QED BY <1>1, <1>2, <1>3, <1>4, <1>5, <1>6, <1>7, <1>8, <1>9 DEF IInv

\* openPaymentIssue keeps the invariant.
LEMMA openPaymentIssueKeeps ==
    ASSUME IInv, NEW type \in {"payment_dispute", "reference_correction", "receipt_reversal"},
           NEW item \in Items \cup {"none"}, openPaymentIssue(type, item)
    PROVE  IInv'
<1>1. TypeOK'
  BY DEF IInv, TypeOK, openPaymentIssue, Correctable, NoActiveIssue, IssueRow, NoIssue
<1>2. IssueNamesItem'
  BY DEF IInv, TypeOK, openPaymentIssue, Correctable, NoActiveIssue, IssueNamesItem, NoIssue
<1>3. ReadyIsSettled'
  BY DEF IInv, TypeOK, openPaymentIssue, Correctable, NoActiveIssue, ReadyIsSettled, TradeReady
<1>4. CancelledIsClean'
  BY DEF IInv, TypeOK, openPaymentIssue, Correctable, NoActiveIssue, CancelledIsClean,
         SecurityActivity, TransportActivity, hasConfirmedFeeRefund, FeeVerified
<1>5. ItemsOfPlan' /\ PaidUnderTerms' /\ AcceptedIsClear' /\ SettledIsDelivered' /\
      PaymentAddsUp' /\ ReleaseIsJustified' /\ DispatchIsCovered' /\ RefundOnlyUnstarted'
  BY DEF IInv, openPaymentIssue, ItemsOfPlan, PaidUnderTerms, AcceptedIsClear,
         NoOpenDiscrepancy, SettledIsDelivered, PaymentAddsUp, Confirmed, AmountDue,
         ReleaseIsJustified, DispatchIsCovered, Enrolled, Dispatched, RefundOnlyUnstarted,
         FeeRefundHold, PaymentActivity, SecurityActivity
<1> QED BY <1>1, <1>2, <1>3, <1>4, <1>5 DEF IInv

\* proposeIssueResolution keeps the invariant.
LEMMA proposeIssueResolutionKeeps ==
    ASSUME IInv, proposeIssueResolution
    PROVE  IInv'
<1>1. TypeOK'
  BY DEF IInv, TypeOK, proposeIssueResolution, IssueRow, NoIssue
<1>2. IssueNamesItem'
  BY DEF IInv, TypeOK, proposeIssueResolution, IssueNamesItem, NoIssue
<1>3. ReadyIsSettled'
  BY DEF IInv, TypeOK, proposeIssueResolution, ReadyIsSettled, TradeReady, NoIssue, IssueRow
<1>4. CancelledIsClean'
  BY DEF IInv, TypeOK, proposeIssueResolution, CancelledIsClean, SecurityActivity,
         TransportActivity, NoActiveIssue, hasConfirmedFeeRefund, FeeVerified, NoIssue, IssueRow
<1>5. ItemsOfPlan' /\ PaidUnderTerms' /\ AcceptedIsClear' /\ SettledIsDelivered' /\
      PaymentAddsUp' /\ ReleaseIsJustified' /\ DispatchIsCovered' /\ RefundOnlyUnstarted'
  BY DEF IInv, proposeIssueResolution, ItemsOfPlan, PaidUnderTerms, AcceptedIsClear,
         NoOpenDiscrepancy, SettledIsDelivered, PaymentAddsUp, Confirmed, AmountDue,
         ReleaseIsJustified, DispatchIsCovered, Enrolled, Dispatched, RefundOnlyUnstarted,
         FeeRefundHold, PaymentActivity, SecurityActivity
<1> QED BY <1>1, <1>2, <1>3, <1>4, <1>5 DEF IInv

\* approveIssueResolution attempts the settlement.
LEMMA approveIssueResolutionOutcome ==
    ASSUME IInv, approveIssueResolution
    PROVE  Outcome(contract)
<1>1. completeTradeIfReady(contract, payment', shipment', delivery', issue')
  BY DEF approveIssueResolution
<1> QED BY <1>1, Completion DEF IInv, TypeOK

\* approveIssueResolution keeps the invariant.
LEMMA approveIssueResolutionKeeps ==
    ASSUME IInv, approveIssueResolution
    PROVE  IInv'
<1>1. issue \in IssueRow /\ contract.status # "cancelled"
  BY DEF IInv, TypeOK, IssueRow, NoIssue, approveIssueResolution, CancelledIsClean,
         NoActiveIssue
<1>2. \/ /\ issue.item \in Items /\ items[issue.item] = "paid"
         /\ contract.status # "settled"
         /\ items' = [items EXCEPT ![issue.item] = "due"]
         /\ payment' = ReversedRow(items')
      \/ UNCHANGED <<items, payment>>
  <2>1. CASE issue.type = "receipt_reversal"
    BY <1>1, <2>1 DEF IInv, IssueRow, NoIssue, IssueNamesItem, approveIssueResolution
  <2>2. CASE issue.type = "reference_correction"
    BY <2>2 DEF approveIssueResolution
  <2>3. CASE issue.type = "payment_dispute"
    BY <2>3 DEF approveIssueResolution
  <2> QED BY <1>1, <2>1, <2>2, <2>3 DEF IssueRow
<1>3. /\ items' \in [Items -> ItemStatus]
      /\ \A j \in Items : items'[j] = "absent" <=> items[j] = "absent"
  BY <1>2 DEF IInv, TypeOK, ItemStatus
<1>4. Confirmed(contract, items') \in 0..Total
  BY <1>3, ConfirmedFits DEF IInv, TypeOK, ItemsOfPlan
<1>5. /\ payment' \in PaymentRow
      /\ payment'.confirmed = Confirmed(contract, items')
      /\ payment'.status = "settled" => payment'.confirmed = Total
      /\ payment'.security = payment.security
      /\ payment'.release = "authorized" =>
            \/ payment = payment'
            \/ contract.plan = "pay_after_delivery"
            \/ payment.security = "verified"
  BY <1>2, <1>4 DEF IInv, TypeOK, PaymentRow, ReversedRow, PaymentAddsUp
<1>6. Outcome(contract)
  BY approveIssueResolutionOutcome
<1>7. TypeOK' /\ IssueNamesItem'
  BY <1>3, <1>5, <1>6 DEF IInv, TypeOK, approveIssueResolution, Outcome, IssueNamesItem
<1>8. ItemsOfPlan' /\ PaymentAddsUp'
  BY <1>3, <1>5, <1>6 DEF IInv, ItemsOfPlan, PaymentAddsUp, Confirmed, AmountDue, Outcome
<1>9. PaidUnderTerms'
  BY <1>2, <1>6 DEF IInv, TypeOK, PaidUnderTerms, Outcome
<1>10. SettledIsDelivered' /\ ReadyIsSettled'
  BY <1>2, <1>5, <1>6 DEF IInv, SettledIsDelivered, approveIssueResolution, Outcome
<1>11. ReleaseIsJustified'
  BY <1>2, <1>5, <1>6 DEF IInv, ReleaseIsJustified, PaidUnderTerms, Outcome
<1>12. DispatchIsCovered'
  BY <1>5, <1>6 DEF IInv, DispatchIsCovered, Dispatched, Enrolled, approveIssueResolution, Outcome
<1>13. RefundOnlyUnstarted'
  BY <1>2, <1>6 DEF IInv, RefundOnlyUnstarted, FeeRefundHold, PaymentActivity, SecurityActivity,
                    Dispatched, approveIssueResolution, Outcome
<1>14. CancelledIsClean'
  BY <1>1, <1>6 DEF CancelledIsClean, Outcome
<1>15. AcceptedIsClear'
  BY DEF IInv, approveIssueResolution, AcceptedIsClear, NoOpenDiscrepancy
<1> QED BY <1>7, <1>8, <1>9, <1>10, <1>11, <1>12, <1>13, <1>14, <1>15 DEF IInv

\* updateArrangement keeps the invariant.
LEMMA updateArrangementKeeps ==
    ASSUME IInv, NEW given \in Arrangements, updateArrangement(given)
    PROVE  IInv'
<1>1. TypeOK'
  <2>1. shipment' \in ShipmentRow
    BY MilestoneFacts, DealAssumption DEF IInv, TypeOK, ShipmentRow, updateArrangement, Arrangeable
  <2>2. contract' \in ContractRow
    BY DEF IInv, TypeOK, ContractRow, updateArrangement, Arrangeable
  <2> QED BY <2>1, <2>2 DEF IInv, TypeOK, updateArrangement, Arrangeable
<1>2. ItemsOfPlan'
  BY DEF IInv, TypeOK, updateArrangement, Arrangeable, Closed, ItemsOfPlan
<1>3. PaidUnderTerms'
  BY DEF IInv, TypeOK, updateArrangement, Arrangeable, Closed, PaidUnderTerms
<1>4. SettledIsDelivered'
  BY DEF IInv, TypeOK, updateArrangement, Arrangeable, Closed, SettledIsDelivered
<1>5. PaymentAddsUp'
  BY DEF IInv, TypeOK, updateArrangement, Arrangeable, Closed, PaymentAddsUp, Confirmed, AmountDue
<1>6. ReadyIsSettled'
  BY DEF IInv, TypeOK, updateArrangement, Arrangeable, Closed, ReadyIsSettled, TradeReady
<1>7. ReleaseIsJustified'
  BY DEF IInv, TypeOK, updateArrangement, Arrangeable, Closed, ReleaseIsJustified
<1>8. DispatchIsCovered'
  BY MilestoneFacts DEF IInv, TypeOK, updateArrangement, Arrangeable, Closed, DispatchIsCovered,
                        Enrolled, Dispatched
<1>9. RefundOnlyUnstarted'
  BY MilestoneFacts DEF IInv, TypeOK, updateArrangement, Arrangeable, Closed, RefundOnlyUnstarted,
         FeeRefundHold, PaymentActivity, SecurityActivity, Dispatched
<1>10. CancelledIsClean'
  BY DEF IInv, TypeOK, updateArrangement, Arrangeable, Closed, CancelledIsClean, SecurityActivity,
         TransportActivity, NoActiveIssue, hasConfirmedFeeRefund, FeeVerified
<1>11. IssueNamesItem' /\ AcceptedIsClear'
  BY DEF IInv, updateArrangement, Arrangeable, IssueNamesItem, NoIssue, AcceptedIsClear,
         NoOpenDiscrepancy
<1> QED BY <1>1, <1>2, <1>3, <1>4, <1>5, <1>6, <1>7, <1>8, <1>9, <1>10, <1>11 DEF IInv

\* The contract row recordMilestone hands to the settlement.
Moved(m) ==
    LET risk == (crossesDispatchBoundary(m) /\ ~dispatchDecision) \/ shipment.exception > 0
    IN  [contract EXCEPT !.status =
           IF milestoneOrder[m] < milestoneOrder["loaded"] THEN contract.status
           ELSE IF m = "delivered"
           THEN IF risk THEN "delivered_payment_risk" ELSE "delivered"
           ELSE IF risk THEN "payment_risk_exception" ELSE "in_transit"]

\* What recordMilestone does to a trade, as far as the invariants see it.
MilestoneStep(m) ==
    /\ m \in Milestones /\ shipment.milestone # "delivered" /\ contract.status \notin Closed
    /\ shipment' \in ShipmentRow /\ shipment'.milestone = m
    /\ shipment'.exception = 0 => shipment.exception = 0
    /\ crossesDispatchBoundary(m) /\ shipment'.exception = 0 => dispatchDecision
    /\ items' \in [Items -> ItemStatus]
    /\ \A j \in Items : \/ items'[j] = items[j]
                        \/ items[j] = "awaiting_trigger" /\ items'[j] = "due"
    /\ payment' \in PaymentRow
    /\ payment'.status \in {payment.status, "payment_due"}
    /\ \A f \in {"confirmed", "security", "release", "referenced"} : payment'[f] = payment[f]
    /\ Moved(m) \in ContractRow /\ Moved(m).status \notin Closed
    /\ Moved(m).plan = contract.plan /\ Moved(m).deposit = contract.deposit
    /\ Moved(m).terms = contract.terms
    /\ Outcome(Moved(m))

\* recordMilestone takes such a step.
LEMMA recordMilestoneFacts ==
    ASSUME IInv, NEW m \in Reported, NEW exceptional \in BOOLEAN,
           recordMilestone(m, exceptional)
    PROVE  MilestoneStep(m)
<1>1. /\ m \in Milestones
      /\ contract.status \notin Closed
      /\ shipment.milestone # "delivered"
  BY MilestoneFacts, DealAssumption
     DEF IInv, TypeOK, SettledIsDelivered, ShipmentRow, recordMilestone, Recordable, Closed
<1>2. /\ shipment' \in ShipmentRow
      /\ shipment'.milestone = m
      /\ shipment'.exception = 0 => shipment.exception = 0
      /\ crossesDispatchBoundary(m) /\ shipment'.exception = 0 => dispatchDecision
  <2> DEFINE exception == crossesDispatchBoundary(m) /\ ~dispatchDecision
  <2>1. /\ shipment' = [shipment EXCEPT !.milestone = m, !.recorded = @ \cup {m},
                                       !.exception = IF exception THEN @ + 1 ELSE @]
        /\ exception => shipment.exception < MaxExceptions
    BY DEF recordMilestone, Recordable
  <2>2. shipment \in ShipmentRow /\ MaxExceptions \in Nat
    BY DealAssumption DEF IInv, TypeOK
  <2>3. CASE exception
    <3>1. shipment' = [shipment EXCEPT !.milestone = m, !.recorded = @ \cup {m},
                                       !.exception = @ + 1]
      BY <2>1, <2>3
    <3>2. shipment.exception + 1 \in 0..MaxExceptions /\ shipment.exception + 1 # 0
      BY <2>1, <2>2, <2>3 DEF ShipmentRow
    <3>3. shipment' \in ShipmentRow
      BY <1>1, <2>2, <3>1, <3>2 DEF ShipmentRow
    <3>4. shipment'.milestone = m /\ shipment'.exception = shipment.exception + 1
      BY <2>2, <3>1 DEF ShipmentRow
    <3> QED BY <3>2, <3>3, <3>4
  <2>4. CASE ~exception
    <3>1. shipment' = [shipment EXCEPT !.milestone = m, !.recorded = @ \cup {m}]
      BY <2>1, <2>2, <2>4 DEF ShipmentRow
    <3> QED BY <1>1, <2>2, <2>4, <3>1 DEF ShipmentRow
  <2> QED BY <2>3, <2>4
<1>3. /\ items' \in [Items -> ItemStatus]
      /\ \A j \in Items : \/ items'[j] = items[j]
                          \/ items[j] = "awaiting_trigger" /\ items'[j] = "due"
  <2>1. CASE m = "delivered"
    <3>1. items' = activatePaymentInstallments("delivery")
      BY <2>1 DEF recordMilestone, Recordable
    <3> QED BY <3>1 DEF IInv, TypeOK, activatePaymentInstallments, ItemStatus
  <2>2. CASE m # "delivered"
    <3>1. items' = items
      BY <2>2 DEF recordMilestone, Recordable
    <3> QED BY <3>1 DEF IInv, TypeOK
  <2> QED BY <2>1, <2>2
<1>4. /\ payment' \in PaymentRow
      /\ payment'.status \in {payment.status, "payment_due"}
      /\ \A f \in {"confirmed", "security", "release", "referenced"} : payment'[f] = payment[f]
  BY DEF IInv, TypeOK, PaymentRow, recordMilestone, Recordable
<1>5. /\ Moved(m) \in ContractRow /\ Moved(m).status \notin Closed
      /\ Moved(m).plan = contract.plan /\ Moved(m).deposit = contract.deposit
      /\ Moved(m).terms = contract.terms
  BY <1>1 DEF IInv, TypeOK, ContractRow, Moved, Closed
<1>6. Outcome(Moved(m))
  <2>1. CASE m = "delivered"
    <3>1. completeTradeIfReady(Moved(m), payment', shipment', delivery', issue')
      BY <2>1 DEF recordMilestone, Recordable, Moved
    <3> QED BY <1>5, <3>1, Completion DEF IInv
  <2>2. CASE m # "delivered"
    <3>1. contract' = Moved(m) /\ UNCHANGED <<holding, fee>>
      BY <2>2 DEF recordMilestone, Recordable, Moved
    <3> QED BY <2>2, <1>2, <1>5, <3>1 DEF IInv, TypeOK, Outcome, ReadyIsSettled, TradeReady
  <2> QED BY <2>1, <2>2
<1> QED BY <1>1, <1>2, <1>3, <1>4, <1>5, <1>6 DEF MilestoneStep

\* recordMilestone keeps the invariant.
LEMMA recordMilestoneKeeps ==
    ASSUME IInv, NEW m \in Reported, NEW exceptional \in BOOLEAN,
           recordMilestone(m, exceptional)
    PROVE  IInv'
<1>1. MilestoneStep(m)
  BY recordMilestoneFacts
<1>2. TypeOK' /\ IssueNamesItem' /\ AcceptedIsClear'
  BY <1>1 DEF MilestoneStep, IInv, TypeOK, recordMilestone, Recordable, Outcome, IssueNamesItem,
     AcceptedIsClear, NoOpenDiscrepancy
<1>3. ItemsOfPlan' /\ PaidUnderTerms'
  BY <1>1 DEF MilestoneStep, IInv, ItemsOfPlan, PaidUnderTerms, Outcome
<1>4. PaymentAddsUp'
  BY <1>1
     DEF MilestoneStep, IInv, TypeOK, PaymentRow, PaymentAddsUp, Confirmed, AmountDue, Items,
         Outcome
<1>5. SettledIsDelivered' /\ ReadyIsSettled' /\ CancelledIsClean'
  BY <1>1, <1>4
     DEF MilestoneStep, SettledIsDelivered, PaymentAddsUp, CancelledIsClean, Outcome, Closed
<1>6. ReleaseIsJustified'
  BY <1>1 DEF MilestoneStep, IInv, ReleaseIsJustified, Outcome
<1>7. Dispatched(shipment') => crossesDispatchBoundary(m) \/ Dispatched(shipment)
  BY <1>1, MilestoneFacts DEF MilestoneStep, IInv, TypeOK, ShipmentRow, Dispatched,
                              crossesDispatchBoundary
<1>8. crossesDispatchBoundary(m) => assertFeeDispatch
  BY DEF recordMilestone, Recordable, DispatchAuthorized
<1>9. DispatchIsCovered'
  BY <1>1, <1>7, <1>8
     DEF MilestoneStep, IInv, DispatchIsCovered, Enrolled, assertFeeDispatch, dispatchDecision,
         Outcome
<1>10. RefundOnlyUnstarted'
  BY <1>1, <1>7, <1>8
     DEF MilestoneStep, IInv, RefundOnlyUnstarted, FeeRefundHold, PaymentActivity, SecurityActivity,
         assertFeeDispatch, Outcome
<1> QED BY <1>2, <1>3, <1>4, <1>5, <1>6, <1>9, <1>10 DEF IInv

\* acknowledgeException keeps the invariant.
LEMMA acknowledgeExceptionKeeps ==
    ASSUME IInv, acknowledgeException
    PROVE  IInv'
<1>1. TypeOK'
  BY DEF IInv, TypeOK, acknowledgeException, ShipmentRow
<1>2. SettledIsDelivered'
  BY DEF IInv, TypeOK, acknowledgeException, SettledIsDelivered
<1>3. ReadyIsSettled'
  BY DEF IInv, TypeOK, acknowledgeException, ReadyIsSettled, TradeReady
<1>4. DispatchIsCovered'
  BY MilestoneFacts DEF IInv, TypeOK, acknowledgeException, DispatchIsCovered, Enrolled,
         Dispatched
<1>5. RefundOnlyUnstarted'
  BY MilestoneFacts DEF IInv, TypeOK, acknowledgeException, RefundOnlyUnstarted, FeeRefundHold,
         PaymentActivity, SecurityActivity, Dispatched
<1>6. CancelledIsClean'
  BY DEF IInv, TypeOK, acknowledgeException, CancelledIsClean, SecurityActivity,
         TransportActivity, NoActiveIssue, hasConfirmedFeeRefund, FeeVerified
<1>7. ItemsOfPlan' /\ PaidUnderTerms' /\ IssueNamesItem' /\ AcceptedIsClear' /\
      PaymentAddsUp' /\ ReleaseIsJustified'
  BY DEF IInv, acknowledgeException, ItemsOfPlan, PaidUnderTerms, IssueNamesItem, NoIssue,
         AcceptedIsClear, NoOpenDiscrepancy, PaymentAddsUp, Confirmed, AmountDue,
         ReleaseIsJustified
<1> QED BY <1>1, <1>2, <1>3, <1>4, <1>5, <1>6, <1>7 DEF IInv

\* consentFeeTerms keeps the invariant.
LEMMA consentFeeTermsKeeps ==
    ASSUME IInv, consentFeeTerms
    PROVE  IInv'
<1>1. TypeOK'
  BY DEF IInv, TypeOK, consentFeeTerms, FeeTermsPending, Enrolled, dealOnly, FeeRow
<1>2. DispatchIsCovered'
  BY DEF IInv, TypeOK, consentFeeTerms, FeeTermsPending, Enrolled, dealOnly, DispatchIsCovered,
         Dispatched
<1>3. RefundOnlyUnstarted'
  BY DEF IInv, TypeOK, consentFeeTerms, FeeTermsPending, Enrolled, dealOnly, RefundOnlyUnstarted,
         FeeRefundHold, PaymentActivity, SecurityActivity, Dispatched
<1>4. CancelledIsClean'
  BY DEF IInv, TypeOK, consentFeeTerms, FeeTermsPending, Enrolled, dealOnly, CancelledIsClean,
         SecurityActivity, TransportActivity, NoActiveIssue, hasConfirmedFeeRefund, FeeVerified
<1>5. ItemsOfPlan' /\ PaidUnderTerms' /\ IssueNamesItem' /\ AcceptedIsClear' /\
      SettledIsDelivered' /\ PaymentAddsUp' /\ ReadyIsSettled' /\ ReleaseIsJustified'
  BY DEF IInv, consentFeeTerms, FeeTermsPending, dealOnly, ItemsOfPlan, PaidUnderTerms,
         IssueNamesItem, NoIssue, AcceptedIsClear, NoOpenDiscrepancy, SettledIsDelivered,
         PaymentAddsUp, Confirmed, AmountDue, ReadyIsSettled, TradeReady, ReleaseIsJustified
<1> QED BY <1>1, <1>2, <1>3, <1>4, <1>5 DEF IInv

\* submitFee keeps the invariant.
LEMMA submitFeeKeeps ==
    ASSUME IInv, submitFee
    PROVE  IInv'
<1>1. TypeOK'
  BY DEF IInv, TypeOK, submitFee, FeeOpen, requireCollectible, dealOnly, FeeRow
<1>2. DispatchIsCovered'
  BY DEF IInv, TypeOK, submitFee, FeeOpen, requireCollectible, dealOnly, DispatchIsCovered,
         Enrolled, Dispatched
<1>3. RefundOnlyUnstarted'
  BY DEF IInv, TypeOK, submitFee, FeeOpen, requireCollectible, dealOnly, RefundOnlyUnstarted,
         FeeRefundHold, PaymentActivity, SecurityActivity, Dispatched
<1>4. CancelledIsClean'
  BY DEF IInv, TypeOK, submitFee, FeeOpen, requireCollectible, dealOnly, CancelledIsClean,
         SecurityActivity, TransportActivity, NoActiveIssue, hasConfirmedFeeRefund, FeeVerified
<1>5. ItemsOfPlan' /\ PaidUnderTerms' /\ IssueNamesItem' /\ AcceptedIsClear' /\
      SettledIsDelivered' /\ PaymentAddsUp' /\ ReadyIsSettled' /\ ReleaseIsJustified'
  BY DEF IInv, submitFee, FeeOpen, dealOnly, ItemsOfPlan, PaidUnderTerms, IssueNamesItem, NoIssue,
         AcceptedIsClear, NoOpenDiscrepancy, SettledIsDelivered, PaymentAddsUp, Confirmed,
         AmountDue, ReadyIsSettled, TradeReady, ReleaseIsJustified
<1> QED BY <1>1, <1>2, <1>3, <1>4, <1>5 DEF IInv

\* reviewFee keeps the invariant.
LEMMA reviewFeeKeeps ==
    ASSUME IInv, NEW verified \in BOOLEAN, reviewFee(verified)
    PROVE  IInv'
<1>1. TypeOK'
  BY DEF IInv, TypeOK, reviewFee, requireCollectible, dealOnly, FeeRow
<1>2. DispatchIsCovered'
  BY DEF IInv, TypeOK, reviewFee, requireCollectible, dealOnly, DispatchIsCovered, Enrolled,
         Dispatched
<1>3. RefundOnlyUnstarted'
  BY DEF IInv, TypeOK, reviewFee, requireCollectible, dealOnly, RefundOnlyUnstarted,
         FeeRefundHold, PaymentActivity, SecurityActivity, Dispatched
<1>4. CancelledIsClean'
  BY DEF IInv, TypeOK, reviewFee, requireCollectible, dealOnly, CancelledIsClean,
         SecurityActivity, TransportActivity, NoActiveIssue, hasConfirmedFeeRefund, FeeVerified
<1>5. ItemsOfPlan' /\ PaidUnderTerms' /\ IssueNamesItem' /\ AcceptedIsClear' /\
      SettledIsDelivered' /\ PaymentAddsUp' /\ ReadyIsSettled' /\ ReleaseIsJustified'
  BY DEF IInv, reviewFee, dealOnly, ItemsOfPlan, PaidUnderTerms, IssueNamesItem, NoIssue,
         AcceptedIsClear, NoOpenDiscrepancy, SettledIsDelivered, PaymentAddsUp, Confirmed,
         AmountDue, ReadyIsSettled, TradeReady, ReleaseIsJustified
<1> QED BY <1>1, <1>2, <1>3, <1>4, <1>5 DEF IInv

\* writeOffFee keeps the invariant.
LEMMA writeOffFeeKeeps ==
    ASSUME IInv, writeOffFee
    PROVE  IInv'
<1>1. TypeOK'
  BY DEF IInv, TypeOK, writeOffFee, FeeOpen, requireCollectible, dealOnly, FeeRow
<1>2. DispatchIsCovered'
  BY DEF IInv, TypeOK, writeOffFee, FeeOpen, requireCollectible, dealOnly, DispatchIsCovered,
         Enrolled, Dispatched
<1>3. RefundOnlyUnstarted'
  BY DEF IInv, TypeOK, writeOffFee, FeeOpen, requireCollectible, dealOnly, RefundOnlyUnstarted,
         FeeRefundHold, PaymentActivity, SecurityActivity, Dispatched
<1>4. CancelledIsClean'
  BY DEF IInv, TypeOK, writeOffFee, FeeOpen, requireCollectible, dealOnly, CancelledIsClean,
         SecurityActivity, TransportActivity, NoActiveIssue, hasConfirmedFeeRefund, FeeVerified
<1>5. ItemsOfPlan' /\ PaidUnderTerms' /\ IssueNamesItem' /\ AcceptedIsClear' /\
      SettledIsDelivered' /\ PaymentAddsUp' /\ ReadyIsSettled' /\ ReleaseIsJustified'
  BY DEF IInv, writeOffFee, FeeOpen, dealOnly, ItemsOfPlan, PaidUnderTerms, IssueNamesItem, NoIssue,
         AcceptedIsClear, NoOpenDiscrepancy, SettledIsDelivered, PaymentAddsUp, Confirmed,
         AmountDue, ReadyIsSettled, TradeReady, ReleaseIsJustified
<1> QED BY <1>1, <1>2, <1>3, <1>4, <1>5 DEF IInv

\* setFeeCredit keeps the invariant.
LEMMA setFeeCreditKeeps ==
    ASSUME IInv, NEW granted \in BOOLEAN, setFeeCredit(granted)
    PROVE  IInv'
<1>1. TypeOK'
  BY DEF IInv, TypeOK, setFeeCredit, dealOnly, FeeRow
<1>2. DispatchIsCovered'
  BY DEF IInv, TypeOK, setFeeCredit, dealOnly, DispatchIsCovered, Enrolled, Dispatched
<1>3. RefundOnlyUnstarted'
  BY DEF IInv, TypeOK, setFeeCredit, dealOnly, RefundOnlyUnstarted, FeeRefundHold,
         PaymentActivity, SecurityActivity, Dispatched
<1>4. CancelledIsClean'
  BY DEF IInv, TypeOK, setFeeCredit, dealOnly, CancelledIsClean, SecurityActivity,
         TransportActivity, NoActiveIssue, hasConfirmedFeeRefund, FeeVerified
<1>5. ItemsOfPlan' /\ PaidUnderTerms' /\ IssueNamesItem' /\ AcceptedIsClear' /\
      SettledIsDelivered' /\ PaymentAddsUp' /\ ReadyIsSettled' /\ ReleaseIsJustified'
  BY DEF IInv, setFeeCredit, dealOnly, ItemsOfPlan, PaidUnderTerms, IssueNamesItem, NoIssue,
         AcceptedIsClear, NoOpenDiscrepancy, SettledIsDelivered, PaymentAddsUp, Confirmed,
         AmountDue, ReadyIsSettled, TradeReady, ReleaseIsJustified
<1> QED BY <1>1, <1>2, <1>3, <1>4, <1>5 DEF IInv

\* creditExpires keeps the invariant.
LEMMA creditExpiresKeeps ==
    ASSUME IInv, creditExpires
    PROVE  IInv'
<1>1. TypeOK'
  BY DEF IInv, TypeOK, creditExpires, dealOnly, FeeRow
<1>2. DispatchIsCovered'
  BY DEF IInv, TypeOK, creditExpires, dealOnly, DispatchIsCovered, Enrolled, Dispatched
<1>3. RefundOnlyUnstarted'
  BY DEF IInv, TypeOK, creditExpires, dealOnly, RefundOnlyUnstarted, FeeRefundHold,
         PaymentActivity, SecurityActivity, Dispatched
<1>4. CancelledIsClean'
  BY DEF IInv, TypeOK, creditExpires, dealOnly, CancelledIsClean, SecurityActivity,
         TransportActivity, NoActiveIssue, hasConfirmedFeeRefund, FeeVerified
<1>5. ItemsOfPlan' /\ PaidUnderTerms' /\ IssueNamesItem' /\ AcceptedIsClear' /\
      SettledIsDelivered' /\ PaymentAddsUp' /\ ReadyIsSettled' /\ ReleaseIsJustified'
  BY DEF IInv, creditExpires, dealOnly, ItemsOfPlan, PaidUnderTerms, IssueNamesItem, NoIssue,
         AcceptedIsClear, NoOpenDiscrepancy, SettledIsDelivered, PaymentAddsUp, Confirmed,
         AmountDue, ReadyIsSettled, TradeReady, ReleaseIsJustified
<1> QED BY <1>1, <1>2, <1>3, <1>4, <1>5 DEF IInv

\* requestFeeRefund keeps the invariant.
LEMMA requestFeeRefundKeeps ==
    ASSUME IInv, requestFeeRefund
    PROVE  IInv'
<1>1. TypeOK'
  BY DEF IInv, TypeOK, requestFeeRefund, feeRefundBlocked, dealOnly, Closed, TransportActivity,
         FeeRow
<1>2. DispatchIsCovered'
  BY MilestoneFacts DEF IInv, TypeOK, requestFeeRefund, feeRefundBlocked, dealOnly, Closed,
         TransportActivity, DispatchIsCovered, Enrolled, Dispatched
<1>3. RefundOnlyUnstarted'
  BY MilestoneFacts DEF IInv, TypeOK, requestFeeRefund, feeRefundBlocked, dealOnly, Closed,
         TransportActivity, RefundOnlyUnstarted, FeeRefundHold, PaymentActivity,
         SecurityActivity, Dispatched
<1>4. CancelledIsClean'
  BY DEF IInv, TypeOK, requestFeeRefund, feeRefundBlocked, dealOnly, Closed, TransportActivity,
         CancelledIsClean, SecurityActivity, NoActiveIssue, hasConfirmedFeeRefund, FeeVerified
<1>5. ItemsOfPlan' /\ PaidUnderTerms' /\ IssueNamesItem' /\ AcceptedIsClear' /\
      SettledIsDelivered' /\ PaymentAddsUp' /\ ReadyIsSettled' /\ ReleaseIsJustified'
  BY DEF IInv, requestFeeRefund, dealOnly, ItemsOfPlan, PaidUnderTerms, IssueNamesItem, NoIssue,
         AcceptedIsClear, NoOpenDiscrepancy, SettledIsDelivered, PaymentAddsUp, Confirmed,
         AmountDue, ReadyIsSettled, TradeReady, ReleaseIsJustified
<1> QED BY <1>1, <1>2, <1>3, <1>4, <1>5 DEF IInv

\* sendFeeRefund keeps the invariant.
LEMMA sendFeeRefundKeeps ==
    ASSUME IInv, sendFeeRefund
    PROVE  IInv'
<1>1. TypeOK'
  BY DEF IInv, TypeOK, sendFeeRefund, feeRefundBlocked, dealOnly, Closed, TransportActivity,
         FeeRow
<1>2. DispatchIsCovered'
  BY MilestoneFacts DEF IInv, TypeOK, sendFeeRefund, feeRefundBlocked, dealOnly, Closed,
         TransportActivity, DispatchIsCovered, Enrolled, Dispatched
<1>3. RefundOnlyUnstarted'
  BY MilestoneFacts DEF IInv, TypeOK, sendFeeRefund, feeRefundBlocked, dealOnly, Closed,
         TransportActivity, RefundOnlyUnstarted, FeeRefundHold, PaymentActivity,
         SecurityActivity, Dispatched
<1>4. CancelledIsClean'
  BY DEF IInv, TypeOK, sendFeeRefund, feeRefundBlocked, dealOnly, Closed, TransportActivity,
         CancelledIsClean, SecurityActivity, NoActiveIssue, hasConfirmedFeeRefund, FeeVerified
<1>5. ItemsOfPlan' /\ PaidUnderTerms' /\ IssueNamesItem' /\ AcceptedIsClear' /\
      SettledIsDelivered' /\ PaymentAddsUp' /\ ReadyIsSettled' /\ ReleaseIsJustified'
  BY DEF IInv, sendFeeRefund, dealOnly, ItemsOfPlan, PaidUnderTerms, IssueNamesItem, NoIssue,
         AcceptedIsClear, NoOpenDiscrepancy, SettledIsDelivered, PaymentAddsUp, Confirmed,
         AmountDue, ReadyIsSettled, TradeReady, ReleaseIsJustified
<1> QED BY <1>1, <1>2, <1>3, <1>4, <1>5 DEF IInv

\* confirmFeeRefund keeps the invariant.
LEMMA confirmFeeRefundKeeps ==
    ASSUME IInv, confirmFeeRefund
    PROVE  IInv'
<1>1. TypeOK'
  BY DEF IInv, TypeOK, confirmFeeRefund, feeRefundBlocked, dealOnly, Closed, TransportActivity,
         FeeRow
<1>2. DispatchIsCovered'
  BY MilestoneFacts DEF IInv, TypeOK, confirmFeeRefund, feeRefundBlocked, dealOnly, Closed,
         TransportActivity, DispatchIsCovered, Enrolled, Dispatched
<1>3. RefundOnlyUnstarted'
  BY MilestoneFacts DEF IInv, TypeOK, confirmFeeRefund, feeRefundBlocked, dealOnly, Closed,
         TransportActivity, RefundOnlyUnstarted, FeeRefundHold, PaymentActivity,
         SecurityActivity, Dispatched
<1>4. CancelledIsClean'
  BY DEF IInv, TypeOK, confirmFeeRefund, feeRefundBlocked, dealOnly, Closed, TransportActivity,
         CancelledIsClean, SecurityActivity, NoActiveIssue, hasConfirmedFeeRefund, FeeVerified
<1>5. ItemsOfPlan' /\ PaidUnderTerms' /\ IssueNamesItem' /\ AcceptedIsClear' /\
      SettledIsDelivered' /\ PaymentAddsUp' /\ ReadyIsSettled' /\ ReleaseIsJustified'
  BY DEF IInv, confirmFeeRefund, dealOnly, ItemsOfPlan, PaidUnderTerms, IssueNamesItem, NoIssue,
         AcceptedIsClear, NoOpenDiscrepancy, SettledIsDelivered, PaymentAddsUp, Confirmed,
         AmountDue, ReadyIsSettled, TradeReady, ReleaseIsJustified
<1> QED BY <1>1, <1>2, <1>3, <1>4, <1>5 DEF IInv

\* rejectFeeRefund keeps the invariant.
LEMMA rejectFeeRefundKeeps ==
    ASSUME IInv, rejectFeeRefund
    PROVE  IInv'
<1>1. TypeOK'
  BY DEF IInv, TypeOK, rejectFeeRefund, dealOnly, FeeRow
<1>2. DispatchIsCovered'
  BY DEF IInv, TypeOK, rejectFeeRefund, dealOnly, DispatchIsCovered, Enrolled, Dispatched
<1>3. RefundOnlyUnstarted'
  BY DEF IInv, TypeOK, rejectFeeRefund, dealOnly, RefundOnlyUnstarted, FeeRefundHold,
         PaymentActivity, SecurityActivity, Dispatched
<1>4. CancelledIsClean'
  BY DEF IInv, TypeOK, rejectFeeRefund, dealOnly, CancelledIsClean, SecurityActivity,
         TransportActivity, NoActiveIssue, hasConfirmedFeeRefund, FeeVerified
<1>5. ItemsOfPlan' /\ PaidUnderTerms' /\ IssueNamesItem' /\ AcceptedIsClear' /\
      SettledIsDelivered' /\ PaymentAddsUp' /\ ReadyIsSettled' /\ ReleaseIsJustified'
  BY DEF IInv, rejectFeeRefund, dealOnly, ItemsOfPlan, PaidUnderTerms, IssueNamesItem, NoIssue,
         AcceptedIsClear, NoOpenDiscrepancy, SettledIsDelivered, PaymentAddsUp, Confirmed,
         AmountDue, ReadyIsSettled, TradeReady, ReleaseIsJustified
<1> QED BY <1>1, <1>2, <1>3, <1>4, <1>5 DEF IInv

\* acceptDelivery attempts the settlement.
LEMMA acceptDeliveryOutcome ==
    ASSUME IInv, acceptDelivery
    PROVE  Outcome(contract)
<1>1. completeTradeIfReady(contract, payment', shipment', delivery', issue')
  BY DEF acceptDelivery, Acceptable
<1> QED BY <1>1, Completion DEF IInv, TypeOK

\* acceptDelivery keeps the invariant.
LEMMA acceptDeliveryKeeps ==
    ASSUME IInv, acceptDelivery
    PROVE  IInv'
<1>1. delivery' \in DeliveryRow /\ AcceptedIsClear'
  BY DEF IInv, TypeOK, DeliveryRow, acceptDelivery, Acceptable, AcceptedIsClear, NoOpenDiscrepancy
<1>2. Outcome(contract)
  BY acceptDeliveryOutcome
<1>3. TypeOK'
  BY <1>1, <1>2 DEF IInv, TypeOK, acceptDelivery, Acceptable, Outcome
<1>4. ItemsOfPlan' /\ PaymentAddsUp'
  BY <1>2 DEF IInv, acceptDelivery, Acceptable, ItemsOfPlan, PaymentAddsUp, Confirmed, AmountDue,
              Outcome
<1>5. SettledIsDelivered' /\ ReadyIsSettled'
  BY <1>2 DEF IInv, SettledIsDelivered, PaymentAddsUp, acceptDelivery, Acceptable, Outcome
<1>6. ReleaseIsJustified' /\ DispatchIsCovered'
  BY <1>2 DEF IInv, ReleaseIsJustified, DispatchIsCovered, Dispatched, Enrolled, acceptDelivery,
              Acceptable, Outcome
<1>7. RefundOnlyUnstarted'
  BY <1>2 DEF IInv, RefundOnlyUnstarted, FeeRefundHold, PaymentActivity, SecurityActivity,
              Dispatched, acceptDelivery, Acceptable, Outcome
<1>8. CancelledIsClean'
  BY <1>2 DEF CancelledIsClean, acceptDelivery, Acceptable, requireDelivered, Closed, Outcome
<1>9. IssueNamesItem'
  BY DEF IInv, acceptDelivery, Acceptable, IssueNamesItem, NoIssue
<1>10. PaidUnderTerms'
  BY <1>2 DEF IInv, PaidUnderTerms, acceptDelivery, Acceptable, Outcome
<1> QED BY <1>1, <1>3, <1>4, <1>5, <1>6, <1>7, <1>8, <1>9, <1>10 DEF IInv

\* reportDiscrepancy keeps the invariant.
LEMMA reportDiscrepancyKeeps ==
    ASSUME IInv, reportDiscrepancy
    PROVE  IInv'
<1>1. TypeOK'
  BY DEF IInv, TypeOK, reportDiscrepancy, requireDelivered, Discrepancy, NoOpenDiscrepancy,
         DeliveryRow
<1>2. AcceptedIsClear'
  BY DEF IInv, TypeOK, reportDiscrepancy, requireDelivered, Discrepancy, NoOpenDiscrepancy,
         AcceptedIsClear
<1>3. ReadyIsSettled'
  BY DEF IInv, TypeOK, reportDiscrepancy, requireDelivered, Discrepancy, NoOpenDiscrepancy,
         ReadyIsSettled, TradeReady
<1>4. ItemsOfPlan' /\ PaidUnderTerms' /\ IssueNamesItem' /\ SettledIsDelivered' /\
      PaymentAddsUp' /\ ReleaseIsJustified' /\ DispatchIsCovered' /\ RefundOnlyUnstarted'
      /\ CancelledIsClean'
  BY DEF IInv, reportDiscrepancy, Discrepancy, ItemsOfPlan, PaidUnderTerms, IssueNamesItem,
         NoIssue, SettledIsDelivered, PaymentAddsUp, Confirmed, AmountDue, ReleaseIsJustified,
         DispatchIsCovered, Enrolled, Dispatched, RefundOnlyUnstarted, FeeRefundHold,
         PaymentActivity, SecurityActivity, CancelledIsClean, TransportActivity, NoActiveIssue,
         hasConfirmedFeeRefund, FeeVerified
<1> QED BY <1>1, <1>2, <1>3, <1>4 DEF IInv

\* proposeResolution keeps the invariant.
LEMMA proposeResolutionKeeps ==
    ASSUME IInv, proposeResolution
    PROVE  IInv'
<1>1. TypeOK'
  BY DEF IInv, TypeOK, proposeResolution, DiscrepancyIs, requireDelivered, Discrepancy, DeliveryRow
<1>2. AcceptedIsClear'
  BY DEF IInv, TypeOK, proposeResolution, DiscrepancyIs, requireDelivered, Discrepancy,
         AcceptedIsClear, NoOpenDiscrepancy
<1>3. ReadyIsSettled'
  BY DEF IInv, TypeOK, proposeResolution, DiscrepancyIs, requireDelivered, Discrepancy,
         ReadyIsSettled, TradeReady
<1>4. ItemsOfPlan' /\ PaidUnderTerms' /\ IssueNamesItem' /\ SettledIsDelivered' /\
      PaymentAddsUp' /\ ReleaseIsJustified' /\ DispatchIsCovered' /\ RefundOnlyUnstarted'
      /\ CancelledIsClean'
  BY DEF IInv, proposeResolution, DiscrepancyIs, Discrepancy, ItemsOfPlan, PaidUnderTerms,
         IssueNamesItem, NoIssue, SettledIsDelivered, PaymentAddsUp, Confirmed, AmountDue,
         ReleaseIsJustified, DispatchIsCovered, Enrolled, Dispatched, RefundOnlyUnstarted,
         FeeRefundHold, PaymentActivity, SecurityActivity, CancelledIsClean, TransportActivity,
         NoActiveIssue, hasConfirmedFeeRefund, FeeVerified
<1> QED BY <1>1, <1>2, <1>3, <1>4 DEF IInv

\* approveResolution keeps the invariant.
LEMMA approveResolutionKeeps ==
    ASSUME IInv, approveResolution
    PROVE  IInv'
<1>1. TypeOK'
  BY DEF IInv, TypeOK, approveResolution, DiscrepancyIs, requireDelivered, Discrepancy, DeliveryRow
<1>2. AcceptedIsClear'
  BY DEF IInv, TypeOK, approveResolution, DiscrepancyIs, requireDelivered, Discrepancy,
         AcceptedIsClear, NoOpenDiscrepancy
<1>3. ReadyIsSettled'
  BY DEF IInv, TypeOK, approveResolution, DiscrepancyIs, requireDelivered, Discrepancy,
         ReadyIsSettled, TradeReady, AcceptedIsClear, NoOpenDiscrepancy, DeliveryRow
<1>4. ItemsOfPlan' /\ PaidUnderTerms' /\ IssueNamesItem' /\ SettledIsDelivered' /\
      PaymentAddsUp' /\ ReleaseIsJustified' /\ DispatchIsCovered' /\ RefundOnlyUnstarted'
      /\ CancelledIsClean'
  BY DEF IInv, approveResolution, DiscrepancyIs, Discrepancy, ItemsOfPlan, PaidUnderTerms,
         IssueNamesItem, NoIssue, SettledIsDelivered, PaymentAddsUp, Confirmed, AmountDue,
         ReleaseIsJustified, DispatchIsCovered, Enrolled, Dispatched, RefundOnlyUnstarted,
         FeeRefundHold, PaymentActivity, SecurityActivity, CancelledIsClean, TransportActivity,
         NoActiveIssue, hasConfirmedFeeRefund, FeeVerified
<1> QED BY <1>1, <1>2, <1>3, <1>4 DEF IInv

\* requestCancellation keeps the invariant.
LEMMA requestCancellationKeeps ==
    ASSUME IInv, requestCancellation
    PROVE  IInv'
<1>1. TypeOK'
  BY DEF IInv, TypeOK, requestCancellation
<1>2. ItemsOfPlan' /\ PaidUnderTerms' /\ IssueNamesItem' /\ AcceptedIsClear' /\
      SettledIsDelivered' /\ PaymentAddsUp' /\ ReadyIsSettled' /\ ReleaseIsJustified' /\
      DispatchIsCovered' /\ RefundOnlyUnstarted' /\ CancelledIsClean'
  BY DEF IInv, requestCancellation, ItemsOfPlan, PaidUnderTerms, IssueNamesItem, NoIssue,
         AcceptedIsClear, NoOpenDiscrepancy, SettledIsDelivered, PaymentAddsUp, Confirmed,
         AmountDue, ReadyIsSettled, TradeReady, ReleaseIsJustified, DispatchIsCovered, Enrolled,
         Dispatched, RefundOnlyUnstarted, FeeRefundHold, PaymentActivity, SecurityActivity,
         CancelledIsClean, TransportActivity, NoActiveIssue, hasConfirmedFeeRefund, FeeVerified
<1> QED BY <1>1, <1>2 DEF IInv

\* rejectCancellation keeps the invariant.
LEMMA rejectCancellationKeeps ==
    ASSUME IInv, rejectCancellation
    PROVE  IInv'
<1>1. TypeOK'
  BY DEF IInv, TypeOK, rejectCancellation
<1>2. ItemsOfPlan' /\ PaidUnderTerms' /\ IssueNamesItem' /\ AcceptedIsClear' /\
      SettledIsDelivered' /\ PaymentAddsUp' /\ ReadyIsSettled' /\ ReleaseIsJustified' /\
      DispatchIsCovered' /\ RefundOnlyUnstarted' /\ CancelledIsClean'
  BY DEF IInv, rejectCancellation, ItemsOfPlan, PaidUnderTerms, IssueNamesItem, NoIssue,
         AcceptedIsClear, NoOpenDiscrepancy, SettledIsDelivered, PaymentAddsUp, Confirmed,
         AmountDue, ReadyIsSettled, TradeReady, ReleaseIsJustified, DispatchIsCovered, Enrolled,
         Dispatched, RefundOnlyUnstarted, FeeRefundHold, PaymentActivity, SecurityActivity,
         CancelledIsClean, TransportActivity, NoActiveIssue, hasConfirmedFeeRefund, FeeVerified
<1> QED BY <1>1, <1>2 DEF IInv

\* approveCancellation keeps the invariant.
LEMMA approveCancellationKeeps ==
    ASSUME IInv, approveCancellation
    PROVE  IInv'
<1>1. TypeOK'
  <2>1. items' \in [Items -> ItemStatus]
    BY DEF IInv, TypeOK, approveCancellation, ItemStatus
  <2>2. contract' \in ContractRow /\ payment' \in PaymentRow /\ fee' \in FeeRow
    BY DEF IInv, TypeOK, approveCancellation, ContractRow, PaymentRow, FeeRow, Closed
  <2> QED BY <2>1, <2>2 DEF IInv, TypeOK, approveCancellation
<1>2. ItemsOfPlan'
  BY DEF IInv, TypeOK, approveCancellation, cancellationBlock, FeeVoidable, FeeActivity,
         hasConfirmedFeeRefund, FeeVerified, PaymentActivity, SecurityActivity,
         TransportActivity, NoActiveIssue, ItemsOfPlan
<1>3. PaidUnderTerms'
  BY DEF IInv, TypeOK, approveCancellation, cancellationBlock, FeeVoidable, FeeActivity,
         hasConfirmedFeeRefund, FeeVerified, PaymentActivity, SecurityActivity,
         TransportActivity, NoActiveIssue, PaidUnderTerms
<1>4. SettledIsDelivered'
  BY DEF IInv, TypeOK, approveCancellation, cancellationBlock, FeeVoidable, FeeActivity,
         hasConfirmedFeeRefund, FeeVerified, PaymentActivity, SecurityActivity,
         TransportActivity, NoActiveIssue, SettledIsDelivered
<1>5. PaymentAddsUp'
  BY DEF IInv, TypeOK, approveCancellation, cancellationBlock, FeeVoidable, FeeActivity,
         hasConfirmedFeeRefund, FeeVerified, PaymentActivity, SecurityActivity,
         TransportActivity, NoActiveIssue, PaymentAddsUp, Confirmed, AmountDue, Items,
         PaymentRow, ItemStatus
<1>6. ReadyIsSettled'
  BY DEF IInv, TypeOK, approveCancellation, cancellationBlock, FeeVoidable, FeeActivity,
         hasConfirmedFeeRefund, FeeVerified, PaymentActivity, SecurityActivity,
         TransportActivity, NoActiveIssue, ReadyIsSettled, TradeReady
<1>7. ReleaseIsJustified'
  BY DEF IInv, TypeOK, approveCancellation, cancellationBlock, FeeVoidable, FeeActivity,
         hasConfirmedFeeRefund, FeeVerified, PaymentActivity, SecurityActivity,
         TransportActivity, NoActiveIssue, ReleaseIsJustified
<1>8. DispatchIsCovered'
  BY MilestoneFacts DEF IInv, TypeOK, approveCancellation, cancellationBlock, FeeVoidable,
         FeeActivity, hasConfirmedFeeRefund, FeeVerified, PaymentActivity, SecurityActivity,
         TransportActivity, NoActiveIssue, DispatchIsCovered, Enrolled, Dispatched
<1>9. RefundOnlyUnstarted'
  BY MilestoneFacts DEF IInv, TypeOK, approveCancellation, cancellationBlock, FeeVoidable,
         FeeActivity, hasConfirmedFeeRefund, FeeVerified, PaymentActivity, SecurityActivity,
         TransportActivity, NoActiveIssue, RefundOnlyUnstarted, FeeRefundHold, Dispatched
<1>10. CancelledIsClean'
  BY DEF IInv, TypeOK, approveCancellation, cancellationBlock, FeeVoidable, FeeActivity,
         hasConfirmedFeeRefund, FeeVerified, PaymentActivity, SecurityActivity,
         TransportActivity, NoActiveIssue, CancelledIsClean
<1>11. IssueNamesItem' /\ AcceptedIsClear'
  BY DEF IInv, approveCancellation, IssueNamesItem, NoIssue, AcceptedIsClear, NoOpenDiscrepancy
<1> QED BY <1>1, <1>2, <1>3, <1>4, <1>5, <1>6, <1>7, <1>8, <1>9, <1>10, <1>11 DEF IInv

\* recallChanges keeps the invariant.
LEMMA recallChangesKeeps ==
    ASSUME IInv, recallChanges
    PROVE  IInv'
<1>1. TypeOK'
  BY DEF IInv, TypeOK, recallChanges
<1>2. ItemsOfPlan' /\ PaidUnderTerms' /\ IssueNamesItem' /\ AcceptedIsClear' /\
      SettledIsDelivered' /\ PaymentAddsUp' /\ ReadyIsSettled' /\ ReleaseIsJustified' /\
      DispatchIsCovered' /\ RefundOnlyUnstarted' /\ CancelledIsClean'
  BY DEF IInv, recallChanges, ItemsOfPlan, PaidUnderTerms, IssueNamesItem, NoIssue,
         AcceptedIsClear, NoOpenDiscrepancy, SettledIsDelivered, PaymentAddsUp, Confirmed,
         AmountDue, ReadyIsSettled, TradeReady, ReleaseIsJustified, DispatchIsCovered, Enrolled,
         Dispatched, RefundOnlyUnstarted, FeeRefundHold, PaymentActivity, SecurityActivity,
         CancelledIsClean, TransportActivity, NoActiveIssue, hasConfirmedFeeRefund, FeeVerified
<1> QED BY <1>1, <1>2 DEF IInv

-----------------------------------------------------------------------------
\* The rows createFulfillment writes satisfy the invariant.
LEMMA InitHolds == Init => IInv
<1> SUFFICES ASSUME Init PROVE IInv
  OBVIOUS
<1>1. PICK plan \in {"deposit_balance", "pay_before_dispatch"}, d \in Deposits :
        /\ contract = [status |-> "accepted", terms |-> "draft", plan |-> plan,
                       deposit |-> d, proofRequired |-> FALSE]
        /\ items = buildInstallments(plan)
  BY DEF Init
<1>2. contract \in ContractRow /\ items \in [Items -> ItemStatus]
  BY <1>1 DEF ContractRow, AllPlans, buildInstallments, ItemStatus
<1>3. payment \in PaymentRow /\ proofs \in [Items -> ProofState]
  <2>1. 0 \in 0..Total
    BY DealAssumption
  <2> QED BY <2>1 DEF Init, PaymentRow, ProofState
<1>4. shipment \in ShipmentRow
  BY MilestoneFacts, DealAssumption DEF Init, ShipmentRow
<1>5. TypeOK
  <2>1. fee \in FeeRow /\ delivery \in DeliveryRow
    BY DEF Init, FeeRow, DeliveryRow
  <2> QED BY <1>2, <1>3, <1>4, <2>1 DEF Init, TypeOK
<1>6. \A i \in Items : items[i] \in {"absent", "awaiting_trigger"}
  BY <1>1 DEF buildInstallments
<1>7. ItemsOfPlan /\ PaidUnderTerms
  BY <1>1, <1>6 DEF ItemsOfPlan, PaidUnderTerms, buildInstallments
<1>8. PaymentAddsUp
  BY <1>6 DEF Init, PaymentAddsUp, Confirmed, Items
<1>9. IssueNamesItem /\ AcceptedIsClear /\ SettledIsDelivered /\ ReadyIsSettled
      /\ ReleaseIsJustified /\ CancelledIsClean
  BY <1>1 DEF Init, IssueNamesItem, AcceptedIsClear, SettledIsDelivered, ReadyIsSettled, TradeReady,
              ReleaseIsJustified, CancelledIsClean
<1>10. DispatchIsCovered /\ RefundOnlyUnstarted
  BY MilestoneFacts DEF Init, DispatchIsCovered, Dispatched, RefundOnlyUnstarted, FeeRefundHold
<1> QED BY <1>5, <1>7, <1>8, <1>9, <1>10 DEF IInv

\* Every request on a trade keeps the invariant.
LEMMA NextHolds == IInv /\ [Next]_vars => IInv'
<1> SUFFICES ASSUME IInv, [Next]_vars PROVE IInv'
  OBVIOUS
<1>1. CASE PaymentStep
  BY <1>1, proposePaymentTermsKeeps, agreePaymentTermsKeeps, submitPaymentKeeps,
     proofRejectedKeeps, confirmReceiptKeeps, rejectReceiptKeeps, presentDocumentSetKeeps,
     documentsChangeKeeps, submitSecurityKeeps, confirmSecurityKeeps, openPaymentIssueKeeps,
     proposeIssueResolutionKeeps, approveIssueResolutionKeeps
     DEF PaymentStep, reconcileDocumentSets
<1>2. CASE TransportStep
  BY <1>2, updateArrangementKeeps, recordMilestoneKeeps, acknowledgeExceptionKeeps
     DEF TransportStep
<1>3. CASE FeeStep
  BY <1>3, consentFeeTermsKeeps, submitFeeKeeps, reviewFeeKeeps, writeOffFeeKeeps,
     setFeeCreditKeeps, creditExpiresKeeps, requestFeeRefundKeeps, sendFeeRefundKeeps,
     confirmFeeRefundKeeps, rejectFeeRefundKeeps
     DEF FeeStep
<1>4. CASE ClosingStep
  BY <1>4, acceptDeliveryKeeps, reportDiscrepancyKeeps, proposeResolutionKeeps,
     approveResolutionKeeps, requestCancellationKeeps, rejectCancellationKeeps,
     approveCancellationKeeps, recallChangesKeeps
     DEF ClosingStep
<1>5. CASE UNCHANGED vars
  BY <1>5 DEF vars, IInv, TypeOK, ItemsOfPlan, PaidUnderTerms, IssueNamesItem, NoIssue,
              AcceptedIsClear, NoOpenDiscrepancy, SettledIsDelivered, PaymentAddsUp, Confirmed,
              AmountDue, ReadyIsSettled, TradeReady, ReleaseIsJustified, DispatchIsCovered,
              Enrolled, Dispatched, RefundOnlyUnstarted, FeeRefundHold, PaymentActivity,
              SecurityActivity, CancelledIsClean, TransportActivity, NoActiveIssue,
              hasConfirmedFeeRefund, FeeVerified
<1> QED BY <1>1, <1>2, <1>3, <1>4, <1>5 DEF Next

\* The invariant holds throughout the life of a trade.
LEMMA Invariance == Spec => []IInv
<1>1. Init => IInv
  BY InitHolds
<1>2. IInv /\ [Next]_vars => IInv'
  BY NextHolds
<1> QED BY <1>1, <1>2, PTL DEF Spec

\* The rows of a trade keep their types: the confirmed amount stays within the price
\* whatever is confirmed, reversed, replaced or cancelled.
THEOREM TradeTypes == Spec => []TypeOK
<1>1. IInv => TypeOK
  BY DEF IInv
<1> QED BY <1>1, Invariance, PTL

\* The payment request agrees with its instalments after every sequence of
\* confirmations, reversals, new terms and cancellation.
THEOREM PaymentsAddUp == Spec => []PaymentAddsUp
<1>1. IInv => PaymentAddsUp
  BY DEF IInv
<1> QED BY <1>1, Invariance, PTL

\* No order of payment, issue, delivery and acceptance leaves a trade ready and
\* unsettled: the caller that met the last condition settled it.
THEOREM ReadyTradesSettle == Spec => []ReadyIsSettled
<1>1. IInv => ReadyIsSettled
  BY DEF IInv
<1> QED BY <1>1, Invariance, PTL

\* Documents are released under agreed terms only, against the whole amount, credit or
\* verified security, also after a receipt was reversed.
THEOREM DocumentsReleasedOnTerms == Spec => []ReleaseIsJustified
<1>1. IInv => ReleaseIsJustified
  BY DEF IInv
<1> QED BY <1>1, Invariance, PTL

\* Goods pass the dispatch boundary only as the terms, the security and the fee policy
\* allow, whichever milestones are skipped, for every incoterm.
THEOREM DispatchesCovered == Spec => []DispatchIsCovered
<1>1. IInv => DispatchIsCovered
  BY DEF IInv
<1> QED BY <1>1, Invariance, PTL

\* While a fee refund is pending or made, no money, security or goods move.
THEOREM RefundsExcludeTrading == Spec => []RefundOnlyUnstarted
<1>1. IInv => RefundOnlyUnstarted
  BY DEF IInv
<1> QED BY <1>1, Invariance, PTL

\* A cancelled trade holds no stock, money, security, transport, issue or unpaid fee.
THEOREM CancellationsClean == Spec => []CancelledIsClean
<1>1. IInv => CancelledIsClean
  BY DEF IInv
<1> QED BY <1>1, Invariance, PTL

-----------------------------------------------------------------------------
\* A step of the exchange.
Exchanged == E!Perform \/ E!Settle \/ E!CallOff

\* A step that leaves alone what the parties exchange is a stutter of the exchange.
LEMMA Stutters ==
    ASSUME outcome' = outcome, payment'.confirmed = payment.confirmed, goods' = goods,
           delivery'.accepted = delivery.accepted, title' = title
    PROVE  UNCHANGED E!exchange
PROOF BY DEF E!exchange

\* A step that leaves the five rows alone is a stutter.
LEMMA Idle ==
    ASSUME UNCHANGED <<contract, payment, shipment, delivery, holding>>
    PROVE  UNCHANGED E!exchange
PROOF BY Stutters DEF outcome, goods, title, Dispatched

\* A step that may settle an open trade is a step of the exchange, provided the goods
\* only moved on.
LEMMA OutcomeRefines ==
    ASSUME IInv, IInv', NEW c \in ContractRow, Outcome(c), contract.status \notin Closed,
           c.status \notin Closed, E!Onwards
    PROVE  Exchanged
<1>1. outcome = "open" /\ (title = "seller" \/ title = "buyer")
  BY DEF outcome, title
<1>2. payment'.confirmed \in 0..Total
  BY DEF IInv, TypeOK, PaymentRow
<1>3. CASE contract' = c /\ holding' = holding
  BY <1>1, <1>2, <1>3 DEF Exchanged, E!Perform, outcome, title
<1>4. CASE contract' # c \/ holding' # holding
  <2>1. /\ holding = "committed" /\ contract'.status = "settled" /\ holding' = "transferred"
        /\ shipment'.milestone = "delivered" /\ payment'.status = "settled" /\ delivery'.accepted
    BY <1>4 DEF Outcome
  <2>2. outcome' = "settled" /\ goods' = "arrived" /\ title' = "buyer"
    BY <2>1 DEF outcome, goods, title, Closed
  <2>3. payment'.confirmed = Total /\ delivery'.accepted = TRUE
    BY <2>1 DEF IInv, TypeOK, DeliveryRow, PaymentAddsUp
  <2> QED BY <1>1, <2>2, <2>3 DEF Exchanged, E!Settle
<1> QED BY <1>3, <1>4

\* The trade starts as the exchange does.
LEMMA InitRefines == Init => E!Begin
PROOF BY MilestoneFacts DEF Init, E!Begin, outcome, goods, title, Dispatched, Closed

\* Payment operations are steps of the exchange; on a settled trade, where an issue may
\* still be opened and closed, they are stutters.
LEMMA PaymentRefines ==
    ASSUME IInv, IInv', PaymentStep
    PROVE  [Exchanged]_(E!exchange)
<1>1. ASSUME NEW plan \in Plans, NEW d \in Deposits, NEW proof \in ProofChoices,
             proposePaymentTerms(plan, d, proof)
      PROVE  Exchanged
  <2>1. outcome = "open" /\ outcome' = "open" /\ title' = title
    BY <1>1 DEF IInv, TypeOK, ContractRow, proposePaymentTerms, Replaceable, outcome, title
  <2>2. payment'.confirmed \in 0..Total
    BY DEF IInv, TypeOK, PaymentRow
  <2>3. E!Onwards
    BY <1>1 DEF proposePaymentTerms, E!Onwards, goods, Dispatched
  <2> QED BY <2>1, <2>2, <2>3 DEF Exchanged, E!Perform
<1>2. ASSUME NEW i \in Items, confirmReceipt(i)
      PROVE  [Exchanged]_(E!exchange)
  <2>1. Outcome(contract)
    BY <1>2, confirmReceiptOutcome
  <2>2. E!Onwards
    BY <1>2 DEF confirmReceipt, Confirmable, E!Onwards, goods, Dispatched
  <2>3. CASE contract.status # "settled"
    BY <1>2, <2>1, <2>2, <2>3, OutcomeRefines DEF IInv, TypeOK, confirmReceipt, Confirmable,
         PaymentOpen, Closed
  <2>4. CASE contract.status = "settled"
    <3>1. contract' = contract /\ holding' = holding /\ UNCHANGED <<shipment, delivery>>
      BY <1>2, <2>1, <2>4 DEF Outcome, confirmReceipt, Confirmable
    <3>2. payment'.confirmed = payment.confirmed
      BY <2>4, <3>1 DEF IInv, SettledIsDelivered
    <3> QED BY <3>1, <3>2, Stutters DEF outcome, goods, title, Dispatched
  <2> QED BY <2>3, <2>4
<1>3. ASSUME approveIssueResolution
      PROVE  [Exchanged]_(E!exchange)
  <2>1. Outcome(contract)
    BY <1>3, approveIssueResolutionOutcome
  <2>2. E!Onwards
    BY <1>3 DEF approveIssueResolution, E!Onwards, goods, Dispatched
  <2>3. contract.status # "cancelled"
    BY <1>3 DEF IInv, approveIssueResolution, CancelledIsClean, NoActiveIssue, NoIssue
  <2>4. CASE contract.status # "settled"
    BY <2>1, <2>2, <2>3, <2>4, OutcomeRefines DEF IInv, TypeOK, Closed
  <2>5. CASE contract.status = "settled"
    <3>1. contract' = contract /\ holding' = holding /\ UNCHANGED <<shipment, delivery>>
      BY <1>3, <2>1, <2>5 DEF Outcome, approveIssueResolution
    <3>2. payment'.confirmed = payment.confirmed
      BY <2>5, <3>1 DEF IInv, SettledIsDelivered
    <3> QED BY <3>1, <3>2, Stutters DEF outcome, goods, title, Dispatched
  <2> QED BY <2>4, <2>5
<1>4. ASSUME agreePaymentTerms PROVE UNCHANGED E!exchange
  BY <1>4, Stutters DEF IInv, TypeOK, ContractRow, PaymentRow, agreePaymentTerms, TermsProposed,
                        outcome, goods, title, Dispatched
<1>5. ASSUME NEW i \in Items, NEW proof \in ProofChoices, submitPayment(i, proof)
      PROVE  UNCHANGED E!exchange
  BY <1>5, Stutters DEF IInv, TypeOK, PaymentRow, submitPayment, Payable, outcome, goods, title,
                        Dispatched
<1>6. ASSUME NEW i \in Items, rejectReceipt(i) PROVE UNCHANGED E!exchange
  BY <1>6, Stutters DEF IInv, TypeOK, PaymentRow, rejectReceipt, Rejectable, outcome, goods, title,
                        Dispatched
<1>7. ASSUME presentDocumentSet PROVE UNCHANGED E!exchange
  BY <1>7, Stutters DEF IInv, TypeOK, PaymentRow, presentDocumentSet, DocumentsReady, Presentable,
                        outcome, goods, title, Dispatched
<1>8. ASSUME submitSecurity \/ confirmSecurity PROVE UNCHANGED E!exchange
  BY <1>8, Stutters DEF IInv, TypeOK, PaymentRow, submitSecurity, confirmSecurity, SecurityStep,
                        SecurityAwaits, outcome, goods, title, Dispatched
<1>9. ASSUME \/ \E i \in Items : proofRejected(i)
             \/ documentsChange
             \/ \E type \in {"payment_dispute", "reference_correction", "receipt_reversal"},
                   item \in Items \cup {"none"} : openPaymentIssue(type, item)
             \/ proposeIssueResolution
      PROVE  UNCHANGED E!exchange
  BY <1>9, Idle DEF proofRejected, documentsChange, openPaymentIssue, proposeIssueResolution
<1> QED BY <1>1, <1>2, <1>3, <1>4, <1>5, <1>6, <1>7, <1>8, <1>9
        DEF PaymentStep, reconcileDocumentSets

\* The goods move on, and delivery may settle the trade.
LEMMA TransportRefines ==
    ASSUME IInv, IInv', TransportStep
    PROVE  [Exchanged]_(E!exchange)
<1>1. ASSUME NEW given \in Arrangements, updateArrangement(given) PROVE UNCHANGED E!exchange
  <2>1. goods' = goods
    BY <1>1, MilestoneFacts DEF IInv, TypeOK, ShipmentRow, updateArrangement, Arrangeable, goods,
                                Dispatched
  <2>2. outcome' = outcome
    BY <1>1 DEF IInv, TypeOK, ContractRow, updateArrangement, Arrangeable, outcome, Closed
  <2> QED BY <1>1, <2>1, <2>2, Stutters DEF updateArrangement, Arrangeable, title
<1>2. ASSUME NEW m \in Reported, NEW exceptional \in BOOLEAN, recordMilestone(m, exceptional)
      PROVE  Exchanged
  <2>1. MilestoneStep(m)
    BY <1>2, recordMilestoneFacts
  <2>2. milestoneOrder[m] > milestoneOrder[shipment.milestone]
    BY <1>2 DEF recordMilestone, Recordable
  <2>3. goods' = goods \/ (goods = "origin" /\ goods' = "moving")
        \/ (goods # "arrived" /\ goods' = "arrived")
    BY <2>1, <2>2, MilestoneFacts DEF MilestoneStep, IInv, TypeOK, ShipmentRow, goods, Dispatched
  <2>4. E!Onwards
    BY <1>2, <2>3 DEF recordMilestone, Recordable, E!Onwards
  <2> QED BY <2>1, <2>4, OutcomeRefines DEF MilestoneStep
<1>3. ASSUME acknowledgeException PROVE UNCHANGED E!exchange
  BY <1>3, Stutters DEF IInv, TypeOK, ShipmentRow, acknowledgeException, outcome, goods, title,
     Dispatched
<1> QED BY <1>1, <1>2, <1>3 DEF TransportStep

\* The platform fee is no part of the exchange.
LEMMA FeeRefines ==
    ASSUME FeeStep
    PROVE  UNCHANGED E!exchange
PROOF BY Idle DEF FeeStep, consentFeeTerms, FeeTermsPending, submitFee, FeeOpen, reviewFee,
                  writeOffFee, setFeeCredit, creditExpires, requestFeeRefund, sendFeeRefund,
                  confirmFeeRefund, rejectFeeRefund, dealOnly

\* Acceptance may settle the trade, and an approved cancellation calls it off.
LEMMA ClosingRefines ==
    ASSUME IInv, IInv', ClosingStep
    PROVE  [Exchanged]_(E!exchange)
<1>1. ASSUME acceptDelivery PROVE Exchanged
  <2>1. Outcome(contract) /\ contract.status \notin Closed
    BY <1>1, acceptDeliveryOutcome DEF acceptDelivery, Acceptable, requireDelivered
  <2>2. delivery'.accepted = TRUE
    BY <1>1 DEF IInv, TypeOK, DeliveryRow, acceptDelivery, Acceptable
  <2>3. E!Onwards
    BY <1>1, <2>2 DEF acceptDelivery, Acceptable, requireDelivered, E!Onwards, goods
  <2> QED BY <2>1, <2>3, OutcomeRefines DEF IInv, TypeOK
<1>2. ASSUME reportDiscrepancy \/ proposeResolution \/ approveResolution
      PROVE  UNCHANGED E!exchange
  BY <1>2, Stutters DEF IInv, TypeOK, DeliveryRow, reportDiscrepancy, proposeResolution,
                        DiscrepancyIs, approveResolution, Discrepancy, outcome, goods, title,
                        Dispatched
<1>3. ASSUME approveCancellation PROVE Exchanged
  <2>1. /\ contract.status \notin Closed /\ contract'.status = "cancelled"
        /\ payment.confirmed = 0 /\ payment'.confirmed = 0
        /\ shipment.milestone = "planning" /\ UNCHANGED <<shipment, delivery>>
        /\ holding = "committed" /\ holding' = "available"
    BY <1>3 DEF IInv, TypeOK, ContractRow, PaymentRow, approveCancellation, cancellationBlock,
       PaymentActivity, TransportActivity
  <2>2. goods = "origin" /\ goods' = goods
    BY <2>1, MilestoneFacts DEF goods, Dispatched
  <2> QED BY <2>1, <2>2 DEF Exchanged, E!CallOff, outcome, title, Closed
<1>4. ASSUME requestCancellation \/ rejectCancellation \/ recallChanges
      PROVE  UNCHANGED E!exchange
  BY <1>4, Idle DEF requestCancellation, rejectCancellation, recallChanges
<1> QED BY <1>1, <1>2, <1>3, <1>4 DEF ClosingStep

\* Every behaviour of the trade workflow is a behaviour of the exchange the parties
\* agreed to (completeTradeIfReady, reviewCancellation and everything between).
THEOREM TradeImplementsExchange == Spec => ImplementsExchange
<1>1. Init => E!Begin
  BY InitRefines
<1>2. IInv /\ IInv' /\ [Next]_vars => [Exchanged]_(E!exchange)
  <2> SUFFICES ASSUME IInv, IInv', [Next]_vars PROVE [Exchanged]_(E!exchange)
    OBVIOUS
  <2>1. CASE UNCHANGED vars
    BY <2>1, Idle DEF vars
  <2> QED BY <2>1, PaymentRefines, TransportRefines, FeeRefines, ClosingRefines DEF Next
<1> QED BY <1>1, <1>2, Invariance, PTL DEF Spec, ImplementsExchange, E!Fair, Exchanged

(* What the exchange promises holds of every way to carry it out, and so of the trade.    *)

\* Each step of the exchange keeps its promise: settlement gives both sides everything at
\* once, calling off gives neither anything.
LEMMA ExchangeKeeps == E!FairToBoth /\ [Exchanged]_(E!exchange) => E!FairToBoth'
<1> SUFFICES ASSUME E!FairToBoth, [Exchanged]_(E!exchange) PROVE E!FairToBoth'
  OBVIOUS
<1>1. CASE UNCHANGED E!exchange
  BY <1>1 DEF E!exchange, E!FairToBoth
<1>2. CASE E!Perform
  BY <1>2 DEF E!Perform, E!Onwards, E!FairToBoth
<1>3. CASE E!Settle
  BY <1>3 DEF E!Settle, E!Onwards, E!FairToBoth
<1>4. CASE E!CallOff
  BY <1>4 DEF E!CallOff, E!FairToBoth
<1> QED BY <1>1, <1>2, <1>3, <1>4 DEF Exchanged

\* The promise follows from the steps of the exchange alone, whatever the workflow is.
LEMMA ExchangeIsFair == E!Fair => []E!FairToBoth /\ E!ClosedForGood
<1>1. E!Begin => E!FairToBoth
  BY DEF E!Begin, E!FairToBoth
<1>2. Exchanged => outcome = "open"
  BY DEF Exchanged, E!Perform, E!Settle, E!CallOff
<1> QED BY <1>1, <1>2, ExchangeKeeps, PTL DEF E!Fair, E!ClosedForGood, Exchanged

(***************************************************************************)
(* In no order of payments, reversals, milestones, disputes and            *)
(* cancellation requests does a party give for nothing: the holding is the *)
(* buyer's exactly when the trade has settled, then with the whole price   *)
(* received and the delivery accepted; a cancelled trade has moved neither *)
(* money nor goods; and a closed trade never changes hands again.          *)
(***************************************************************************)
THEOREM NobodyGivesForNothing == Spec => []E!FairToBoth /\ E!ClosedForGood
BY TradeImplementsExchange, ExchangeIsFair DEF ImplementsExchange

(***************************************************************************)
(* Two writings of one rule: whatever presentDocumentSet would take from   *)
(* the seller, the query of the scheduled job selects, so that no document *)
(* set is ready for the one and invisible to the other.                    *)
(***************************************************************************)
LEMMA ReadySetIsCandidate == DocumentsReady /\ ~payment.presented => DocumentSetCandidate
BY DEF DocumentsReady, Presentable, PaymentOpen, DocumentSetCandidate, Closed,
       documentsCanBePresentedAt, CandidateMilestones

-----------------------------------------------------------------------------
(***************************************************************************)
(* The guidance.  An open trade never leaves both parties waiting: the     *)
(* guidance of tradeActions asks somebody to act, unless the trade is held *)
(* or its terms were agreed after delivery.                                *)
(*                                                                         *)
(* The argument needs more than IInv: no trigger of an instalment is       *)
(* missed under agreed terms, and a fully paid trade has a settled payment *)
(* request, so that one more step is always somebody's.                    *)
(***************************************************************************)
\* Until it ends, a trade keeps its stock and its instalments.
OpenKeepsStock ==
    contract.status \notin Closed
        => holding = "committed" /\ \A i \in Items : items[i] # "cancelled"

\* Nothing waits for an agreement or a presentation that has happened.
NoTriggerMissed ==
    /\ contract.terms = "agreed"
         => \A i \in Items : items[i] = "awaiting_trigger"
                               => Trigger(contract.plan, i) # "terms_agreed"
    /\ payment.presented
         => /\ contract.terms = "agreed"
            /\ \A i \in Items : items[i] = "awaiting_trigger"
                                  => Trigger(contract.plan, i) # "documents_presented"

\* What documents make due is neither due nor paid before they are presented, and
\* documents against bank security are presented after its verification.
DocumentsComeFirst ==
    /\ ~payment.presented
         => \A i \in PlanItems(contract.plan) :
               Trigger(contract.plan, i) = "documents_presented"
                 => items[i] \in {"awaiting_trigger", "cancelled"}
    /\ payment.presented /\ contract.plan = "bank_secured" => payment.security = "verified"

\* Once every instalment of the plan is paid the payment request is settled.
PaidIsSettled ==
    (\A i \in PlanItems(contract.plan) : items[i] = "paid") => payment.status = "settled"

GInv == OpenKeepsStock /\ NoTriggerMissed /\ DocumentsComeFirst /\ PaidIsSettled

-----------------------------------------------------------------------------
\* A plan has an instalment, and its instalments are items.
LEMMA PlanHasItems == \A plan \in AllPlans : PlanItems(plan) # {} /\ PlanItems(plan) \subseteq Items
PROOF BY DEF PlanItems, Items, AllPlans

\* A new trade, and new terms, wait for every trigger.
LEMMA GuidanceInit == Init => GInv
<1> SUFFICES ASSUME Init PROVE GInv
  OBVIOUS
<1>1. PICK plan \in {"deposit_balance", "pay_before_dispatch"}, d \in Deposits :
        /\ contract = [status |-> "accepted", terms |-> "draft", plan |-> plan,
                       deposit |-> d, proofRequired |-> FALSE]
        /\ items = buildInstallments(plan)
  BY DEF Init
<1>2. /\ \A i \in Items : items[i] \in {"awaiting_trigger", "absent"}
      /\ \A i \in PlanItems(plan) : items[i] = "awaiting_trigger"
  BY <1>1 DEF buildInstallments, PlanItems, Items
<1>3. PlanItems(plan) # {}
  BY <1>1, PlanHasItems DEF AllPlans
<1>4. contract.status = "accepted" /\ contract.terms = "draft" /\ contract.plan = plan
      /\ ~payment.presented /\ holding = "committed"
  BY <1>1 DEF Init
<1> QED BY <1>2, <1>3, <1>4
        DEF GInv, OpenKeepsStock, NoTriggerMissed, DocumentsComeFirst, PaidIsSettled, Closed

\* A step that leaves the money rows and the terms alone keeps the guidance invariant, if
\* it ends the trade or leaves its stock alone.
LEMMA GuidanceIdle ==
    ASSUME GInv, UNCHANGED <<payment, items>>, contract'.plan = contract.plan,
           contract'.terms = contract.terms,
           contract'.status \notin Closed => contract.status \notin Closed /\ holding' = holding
    PROVE  GInv'
PROOF BY DEF GInv, OpenKeepsStock, NoTriggerMissed, DocumentsComeFirst, PaidIsSettled

\* proposePaymentTerms and agreePaymentTerms keep the guidance invariant.
LEMMA GuidanceTerms ==
    ASSUME IInv, GInv,
           \/ \E plan \in Plans, d \in Deposits, proof \in ProofChoices :
                proposePaymentTerms(plan, d, proof)
           \/ agreePaymentTerms
    PROVE  GInv'
<1>1. ASSUME NEW plan \in Plans, NEW d \in Deposits, NEW proof \in ProofChoices,
             proposePaymentTerms(plan, d, proof)
      PROVE  GInv'
  <2>1. /\ contract'.plan = plan /\ contract'.terms = "proposed"
        /\ contract'.status = contract.status
        /\ contract.terms # "agreed" /\ contract.status \notin Closed /\ holding' = holding
    BY <1>1 DEF IInv, TypeOK, ContractRow, proposePaymentTerms, Replaceable
  <2>2. ~payment.presented /\ payment'.presented = payment.presented
    BY <1>1, <2>1 DEF IInv, TypeOK, PaymentRow, GInv, NoTriggerMissed, proposePaymentTerms
  <2>3. /\ \A i \in Items : items'[i] \in {"awaiting_trigger", "absent"}
        /\ \A i \in PlanItems(plan) : items'[i] = "awaiting_trigger"
    BY <1>1 DEF proposePaymentTerms, buildInstallments, PlanItems, Items
  <2>4. PlanItems(plan) # {}
    BY PlanHasItems, DealAssumption
  <2> QED BY <2>1, <2>2, <2>3, <2>4
          DEF GInv, OpenKeepsStock, NoTriggerMissed, DocumentsComeFirst, PaidIsSettled
<1>2. ASSUME agreePaymentTerms PROVE GInv'
  <2>1. /\ contract'.plan = contract.plan /\ contract'.terms = "agreed"
        /\ contract'.status = contract.status /\ contract.terms = "proposed"
        /\ contract.status \notin Closed /\ holding' = holding
    BY <1>2 DEF IInv, TypeOK, ContractRow, agreePaymentTerms, TermsProposed
  <2>2. ~payment.presented /\ payment'.presented = payment.presented
    BY <1>2, <2>1 DEF IInv, TypeOK, PaymentRow, GInv, NoTriggerMissed, agreePaymentTerms,
                      TermsProposed
  <2>3. \A i \in Items :
          items'[i] = IF items[i] = "awaiting_trigger"
                         /\ Trigger(contract.plan, i) = "terms_agreed" THEN "due" ELSE items[i]
    BY <1>2 DEF agreePaymentTerms, TermsProposed, activatePaymentInstallments
  <2>4. OpenKeepsStock' /\ NoTriggerMissed'
    BY <2>1, <2>2, <2>3 DEF GInv, OpenKeepsStock, NoTriggerMissed
  <2>5. DocumentsComeFirst'
    BY <2>1, <2>2, <2>3, PlanHasItems DEF IInv, TypeOK, ContractRow, GInv, DocumentsComeFirst
  <2>6. PaidIsSettled'
    <3>1. PICK i \in PlanItems(contract.plan) : i \in Items
      BY PlanHasItems DEF IInv, TypeOK, ContractRow
    <3>2. items'[i] # "paid"
      BY <2>1, <2>3, <3>1 DEF IInv, PaidUnderTerms
    <3> QED BY <2>1, <3>1, <3>2 DEF PaidIsSettled
  <2> QED BY <2>4, <2>5, <2>6 DEF GInv
<1> QED BY <1>1, <1>2

\* An instalment that is neither absent nor paid belongs to the plan, which is then not
\* wholly paid.
LEMMA UnpaidItem ==
    ASSUME IInv', NEW i \in Items, items'[i] \notin {"absent", "paid"}
    PROVE  PaidIsSettled'
PROOF BY DEF IInv, ItemsOfPlan, PaidIsSettled

\* Money that is submitted, confirmed, rejected or reversed keeps the guidance invariant.
LEMMA GuidanceMoney ==
    ASSUME IInv, IInv', GInv,
           \/ \E i \in Items, proof \in ProofChoices : submitPayment(i, proof)
           \/ \E i \in Items : confirmReceipt(i) \/ rejectReceipt(i)
           \/ approveIssueResolution
    PROVE  GInv'
<1>1. ASSUME NEW i \in Items, items[i] \notin {"absent", "awaiting_trigger", "cancelled"},
             NEW s \in {"due", "payment_submitted", "paid"},
             items' = [items EXCEPT ![i] = s],
             payment'.presented = payment.presented, payment'.security = payment.security,
             contract'.plan = contract.plan, contract'.terms = contract.terms,
             contract'.status \notin Closed
               => contract.status \notin Closed /\ holding' = holding,
             PaidIsSettled'
      PROVE  GInv'
  <2>1. items'[i] = s /\ \A j \in Items : j # i => items'[j] = items[j]
    BY <1>1 DEF IInv, TypeOK
  <2>2. OpenKeepsStock' /\ NoTriggerMissed'
    BY <1>1, <2>1 DEF GInv, OpenKeepsStock, NoTriggerMissed
  <2>3. i \in PlanItems(contract.plan) /\ PlanItems(contract.plan) \subseteq Items
    BY <1>1, PlanHasItems DEF IInv, TypeOK, ContractRow, ItemsOfPlan
  <2>4. DocumentsComeFirst'
    BY <1>1, <2>1, <2>3 DEF GInv, DocumentsComeFirst
  <2> QED BY <1>1, <2>2, <2>4 DEF GInv
<1>2. ASSUME NEW i \in Items, NEW proof \in ProofChoices, submitPayment(i, proof) PROVE GInv'
  <2>1. items[i] = "due" /\ items' = [items EXCEPT ![i] = "payment_submitted"]
        /\ UNCHANGED <<contract, holding>>
        /\ payment'.presented = payment.presented /\ payment'.security = payment.security
    BY <1>2 DEF IInv, TypeOK, PaymentRow, submitPayment, Payable
  <2>2. PaidIsSettled'
    BY <2>1, UnpaidItem DEF IInv, TypeOK
  <2> QED BY <1>1, <2>1, <2>2
<1>3. ASSUME NEW i \in Items, rejectReceipt(i) PROVE GInv'
  <2>1. items[i] = "payment_submitted" /\ items' = [items EXCEPT ![i] = "due"]
        /\ UNCHANGED <<contract, holding>>
        /\ payment'.presented = payment.presented /\ payment'.security = payment.security
    BY <1>3 DEF IInv, TypeOK, PaymentRow, rejectReceipt, Rejectable
  <2>2. PaidIsSettled'
    BY <2>1, UnpaidItem DEF IInv, TypeOK
  <2> QED BY <1>1, <2>1, <2>2
<1>4. ASSUME NEW i \in Items, confirmReceipt(i) PROVE GInv'
  <2>1. items[i] = "payment_submitted" /\ items' = [items EXCEPT ![i] = "paid"]
        /\ payment' = ConfirmedRow(items')
    BY <1>4 DEF confirmReceipt, Confirmable
  <2>2. payment'.presented = payment.presented /\ payment'.security = payment.security
    BY <2>1 DEF IInv, TypeOK, PaymentRow, ConfirmedRow
  <2>3. Outcome(contract)
    BY <1>4, confirmReceiptOutcome
  <2>4. contract'.plan = contract.plan /\ contract'.terms = contract.terms
        /\ (contract'.status \notin Closed
               => contract.status \notin Closed /\ holding' = holding)
    BY <2>3 DEF Outcome, Closed
  <2>5. PaidIsSettled'
    <3>1. SUFFICES ASSUME \A j \in PlanItems(contract.plan) : items'[j] = "paid"
                   PROVE  payment'.status = "settled"
      BY <2>4 DEF PaidIsSettled
    <3>2. \A j \in Items : items'[j] = IF j \in PlanItems(contract.plan) THEN "paid" ELSE "absent"
      BY <2>1, <2>4, <3>1 DEF IInv, ItemsOfPlan
    <3>3. Confirmed(contract, items') = Total
      BY <3>2, DealAssumption
         DEF IInv, TypeOK, ContractRow, Confirmed, AmountDue, PlanItems, Items
    <3> QED BY <2>1, <3>3 DEF IInv, TypeOK, PaymentRow, ConfirmedRow
  <2> QED BY <1>1, <2>1, <2>2, <2>4, <2>5
<1>5. ASSUME approveIssueResolution PROVE GInv'
  <2>1. Outcome(contract)
    BY <1>5, approveIssueResolutionOutcome
  <2>2. contract'.plan = contract.plan /\ contract'.terms = contract.terms
        /\ (contract'.status \notin Closed
               => contract.status \notin Closed /\ holding' = holding)
    BY <2>1 DEF Outcome, Closed
  <2>3. issue \in IssueRow
    BY <1>5 DEF IInv, TypeOK, NoIssue, approveIssueResolution
  <2>4. CASE issue.type = "receipt_reversal"
    <3>1. issue.item \in Items /\ items[issue.item] = "paid"
          /\ items' = [items EXCEPT ![issue.item] = "due"] /\ payment' = ReversedRow(items')
      BY <1>5, <2>3, <2>4 DEF IInv, IssueRow, NoIssue, IssueNamesItem, approveIssueResolution
    <3>2. payment'.presented = payment.presented /\ payment'.security = payment.security
      BY <3>1 DEF IInv, TypeOK, PaymentRow, ReversedRow
    <3>3. PaidIsSettled'
      BY <3>1, UnpaidItem DEF IInv, TypeOK
    <3> QED BY <1>1, <2>2, <3>1, <3>2, <3>3
  <2>5. CASE issue.type # "receipt_reversal"
    <3>1. UNCHANGED <<items, payment>>
      BY <1>5, <2>3, <2>5 DEF IssueRow, approveIssueResolution
    <3> QED BY <2>2, <3>1, GuidanceIdle
  <2> QED BY <2>4, <2>5
<1> QED BY <1>2, <1>3, <1>4, <1>5
\* The documents and the security keep the guidance invariant.
LEMMA GuidanceDocuments ==
    ASSUME IInv, IInv', GInv, presentDocumentSet \/ submitSecurity \/ confirmSecurity
    PROVE  GInv'
<1>1. ASSUME presentDocumentSet PROVE GInv'
  <2>1. /\ UNCHANGED <<contract, holding>>
        /\ contract.terms = "agreed" /\ ~payment.presented /\ contract.plan \in DocumentPlans
        /\ contract.plan = "bank_secured" => payment.security = "verified"
        /\ contract.status \notin Closed
    BY <1>1 DEF presentDocumentSet, DocumentsReady, Presentable, PaymentOpen, Closed
  <2>2. payment'.presented = TRUE /\ payment'.security = payment.security
    BY <1>1 DEF IInv, TypeOK, PaymentRow, presentDocumentSet, DocumentsReady, Presentable
  <2>3. \A i \in Items :
          items'[i] = IF items[i] = "awaiting_trigger"
                         /\ Trigger(contract.plan, i) = "documents_presented"
                      THEN "due" ELSE items[i]
    BY <1>1 DEF presentDocumentSet, DocumentsReady, Presentable, activatePaymentInstallments
  <2>4. OpenKeepsStock' /\ NoTriggerMissed' /\ DocumentsComeFirst'
    BY <2>1, <2>2, <2>3 DEF GInv, OpenKeepsStock, NoTriggerMissed, DocumentsComeFirst
  <2>5. PICK i \in PlanItems(contract.plan) :
          i \in Items /\ Trigger(contract.plan, i) = "documents_presented"
    BY <2>1 DEF DocumentPlans, PlanItems, Trigger, Items
  <2>6. items[i] = "awaiting_trigger"
    BY <2>1, <2>5 DEF GInv, OpenKeepsStock, DocumentsComeFirst
  <2>7. PaidIsSettled'
    BY <2>3, <2>5, <2>6, UnpaidItem
  <2> QED BY <2>4, <2>7 DEF GInv
<1>2. ASSUME submitSecurity \/ confirmSecurity PROVE GInv'
  <2>1. /\ UNCHANGED <<contract, items, holding>>
        /\ contract.plan = "bank_secured" /\ contract.status # "cancelled"
        /\ payment.security # "verified"
        /\ payment'.presented = payment.presented
    BY <1>2 DEF IInv, TypeOK, PaymentRow, submitSecurity, confirmSecurity, SecurityStep,
                SecurityAwaits, PaymentOpen
  <2>2. ~payment.presented
    BY <2>1 DEF GInv, DocumentsComeFirst
  <2>3. OpenKeepsStock' /\ NoTriggerMissed' /\ DocumentsComeFirst'
    BY <2>1, <2>2 DEF GInv, OpenKeepsStock, NoTriggerMissed, DocumentsComeFirst
  <2>4. /\ "full" \in PlanItems(contract.plan)
        /\ Trigger(contract.plan, "full") = "documents_presented"
    BY <2>1 DEF PlanItems, Trigger
  <2>5. items["full"] # "paid"
    BY <2>2, <2>4 DEF GInv, DocumentsComeFirst
  <2> QED BY <2>1, <2>3, <2>4, <2>5 DEF GInv, PaidIsSettled
<1> QED BY <1>1, <1>2

\* A milestone, delivery included, keeps the guidance invariant.
LEMMA GuidanceMilestone ==
    ASSUME IInv, IInv', GInv, NEW m \in Reported, NEW exceptional \in BOOLEAN,
           recordMilestone(m, exceptional)
    PROVE  GInv'
<1>1. MilestoneStep(m)
  BY recordMilestoneFacts
<1>2. /\ contract'.plan = contract.plan /\ contract'.terms = contract.terms
      /\ contract.status \notin Closed
      /\ contract'.status \notin Closed => holding' = holding
      /\ payment'.security = payment.security
  BY <1>1 DEF MilestoneStep, Outcome, Closed
<1>3. payment'.presented = payment.presented
  BY DEF IInv, TypeOK, PaymentRow, recordMilestone, Recordable
<1>4. \A i \in Items :
        \/ items'[i] = items[i]
        \/ items[i] = "awaiting_trigger" /\ items'[i] = "due"
           /\ Trigger(contract.plan, i) = "delivery"
  BY DEF IInv, TypeOK, recordMilestone, Recordable, activatePaymentInstallments
<1>5. OpenKeepsStock' /\ NoTriggerMissed'
  BY <1>2, <1>3, <1>4 DEF GInv, OpenKeepsStock, NoTriggerMissed
<1>6. DocumentsComeFirst'
  BY <1>2, <1>3, <1>4, PlanHasItems DEF IInv, TypeOK, ContractRow, GInv, DocumentsComeFirst
<1>7. PaidIsSettled'
  <2>1. CASE \E i \in Items : items'[i] = "due"
    BY <2>1, UnpaidItem
  <2>2. CASE ~\E i \in Items : items'[i] = "due"
    <3>1. payment' = payment
      BY <2>2 DEF recordMilestone, Recordable
    <3>2. \A i \in Items : items'[i] = items[i]
      BY <1>4, <2>2
    <3> QED BY <1>2, <3>1, <3>2, PlanHasItems
            DEF IInv, TypeOK, ContractRow, GInv, PaidIsSettled
  <2> QED BY <2>1, <2>2
<1> QED BY <1>5, <1>6, <1>7 DEF GInv

\* An approved cancellation ends the trade with no instalment paid.
LEMMA GuidanceCancellation ==
    ASSUME IInv, IInv', GInv, approveCancellation
    PROVE  GInv'
<1>1. /\ contract'.status = "cancelled" /\ contract'.plan = contract.plan
      /\ contract'.terms = contract.terms
      /\ payment'.presented = payment.presented /\ payment'.security = payment.security
  BY DEF IInv, TypeOK, ContractRow, PaymentRow, approveCancellation
<1>2. \A i \in Items : items'[i] = IF items[i] = "absent" THEN "absent" ELSE "cancelled"
  BY DEF approveCancellation
<1>3. OpenKeepsStock' /\ NoTriggerMissed'
  BY <1>1, <1>2 DEF GInv, OpenKeepsStock, NoTriggerMissed, Closed
<1>4. PlanItems(contract.plan) # {} /\ PlanItems(contract.plan) \subseteq Items
  BY PlanHasItems DEF IInv, TypeOK, ContractRow
<1>5. \A i \in PlanItems(contract.plan) : items'[i] = "cancelled"
  BY <1>2, <1>4 DEF IInv, ItemsOfPlan
<1>6. DocumentsComeFirst' /\ PaidIsSettled'
  BY <1>1, <1>4, <1>5 DEF GInv, DocumentsComeFirst, PaidIsSettled
<1> QED BY <1>3, <1>6 DEF GInv

\* Every request on a trade keeps the guidance invariant.
LEMMA GuidanceNext == IInv /\ IInv' /\ GInv /\ [Next]_vars => GInv'
<1> SUFFICES ASSUME IInv, IInv', GInv, [Next]_vars PROVE GInv'
  OBVIOUS
<1>1. CASE PaymentStep
  <2>1. ASSUME \/ \E i \in Items : proofRejected(i)
               \/ documentsChange
               \/ \E type \in {"payment_dispute", "reference_correction", "receipt_reversal"},
                     item \in Items \cup {"none"} : openPaymentIssue(type, item)
               \/ proposeIssueResolution
        PROVE  GInv'
    BY <2>1, GuidanceIdle DEF proofRejected, documentsChange, openPaymentIssue,
                              proposeIssueResolution
  <2> QED BY <1>1, <2>1, GuidanceTerms, GuidanceMoney, GuidanceDocuments
          DEF PaymentStep, reconcileDocumentSets
<1>2. CASE TransportStep
  <2>1. ASSUME NEW given \in Arrangements, updateArrangement(given) PROVE GInv'
    <3>1. contract'.plan = contract.plan /\ contract'.terms = contract.terms
          /\ (contract'.status \notin Closed => contract.status \notin Closed)
      BY <2>1 DEF IInv, TypeOK, ContractRow, updateArrangement, Arrangeable, Closed
    <3> QED BY <2>1, <3>1, GuidanceIdle DEF updateArrangement, Arrangeable
  <2>2. ASSUME acknowledgeException PROVE GInv'
    BY <2>2, GuidanceIdle DEF acknowledgeException
  <2> QED BY <1>2, <2>1, <2>2, GuidanceMilestone DEF TransportStep
<1>3. CASE FeeStep
  BY <1>3, GuidanceIdle
     DEF FeeStep, consentFeeTerms, FeeTermsPending, submitFee, FeeOpen, reviewFee, writeOffFee,
         setFeeCredit, creditExpires, requestFeeRefund, sendFeeRefund, confirmFeeRefund,
         rejectFeeRefund, dealOnly
<1>4. CASE ClosingStep
  <2>1. ASSUME acceptDelivery PROVE GInv'
    <3>1. Outcome(contract)
      BY <2>1, acceptDeliveryOutcome
    <3> QED BY <2>1, <3>1, GuidanceIdle DEF Outcome, acceptDelivery, Acceptable, Closed
  <2>2. ASSUME \/ reportDiscrepancy \/ proposeResolution \/ approveResolution
               \/ requestCancellation \/ rejectCancellation \/ recallChanges
        PROVE  GInv'
    BY <2>2, GuidanceIdle
       DEF reportDiscrepancy, proposeResolution, DiscrepancyIs, approveResolution, Discrepancy,
           requestCancellation, rejectCancellation, recallChanges
  <2> QED BY <1>4, <2>1, <2>2, GuidanceCancellation DEF ClosingStep
<1>5. CASE UNCHANGED vars
  BY <1>5, GuidanceIdle DEF vars
<1> QED BY <1>1, <1>2, <1>3, <1>4, <1>5 DEF Next

\* The guidance invariant holds throughout the life of a trade.
LEMMA GuidanceInvariance == Spec => [](IInv /\ GInv)
<1>1. Init => IInv /\ GInv
  BY InitHolds, GuidanceInit
<1>2. IInv /\ GInv /\ [Next]_vars => IInv' /\ GInv'
  BY NextHolds, GuidanceNext
<1> QED BY <1>1, <1>2, PTL DEF Spec

-----------------------------------------------------------------------------
\* Once no instalment can be acted on, what the plan wants before dispatch is paid.
LEMMA NothingDueDispatches ==
    ASSUME IInv, GInv, contract.status \notin Closed, contract.terms = "agreed",
           contract.plan = "bank_secured" => payment.security = "verified",
           \A i \in Items : items[i] \notin {"payment_submitted", "due"}
    PROVE  dispatchDecision
<1>1. \A i \in PlanItems(contract.plan) :
        Trigger(contract.plan, i) = "terms_agreed" => items[i] = "paid"
  BY PlanHasItems
     DEF IInv, TypeOK, ContractRow, ItemStatus, ItemsOfPlan, GInv, OpenKeepsStock, NoTriggerMissed
<1>2. payment.confirmed = Confirmed(contract, items) /\ contract \in ContractRow
  BY DEF IInv, TypeOK, PaymentAddsUp
<1>3. CASE contract.plan = "pay_before_dispatch"
  <2>1. items["full"] = "paid" /\ items["deposit"] = "absent" /\ items["balance"] = "absent"
    BY <1>1, <1>3 DEF IInv, ItemsOfPlan, PlanItems, Trigger, Items
  <2>2. Confirmed(contract, items) = Total
    BY <2>1, DealAssumption DEF Confirmed, AmountDue
  <2> QED BY <1>2, <1>3, <2>2, DealAssumption DEF dispatchDecision, requiredBeforeDispatch
<1>4. CASE contract.plan = "deposit_balance"
  <2>1. items["deposit"] = "paid" /\ items["full"] = "absent"
    BY <1>1, <1>4 DEF IInv, ItemsOfPlan, PlanItems, Trigger, Items
  <2>2. contract.deposit \in 0..Total
    BY <1>2, DealAssumption DEF ContractRow
  <2>3. Confirmed(contract, items) >= contract.deposit
    BY <2>1, <2>2, DealAssumption DEF Confirmed, AmountDue
  <2> QED BY <1>2, <1>4, <2>3 DEF dispatchDecision, requiredBeforeDispatch
<1>5. CASE contract.plan \notin {"pay_before_dispatch", "deposit_balance"}
  <2>1. requiredBeforeDispatch(contract) = 0 /\ payment.confirmed \in 0..Total
    BY <1>5 DEF IInv, TypeOK, PaymentRow, requiredBeforeDispatch
  <2> QED BY <2>1, DealAssumption DEF dispatchDecision
<1> QED BY <1>3, <1>4, <1>5

\* A delivered and accepted trade on which nothing can be done has settled.
LEMMA NothingLeftSettles ==
    ASSUME IInv, GInv, contract.status \notin Closed, contract.terms = "agreed", NoActiveIssue,
           \A i \in Items : items[i] \notin {"payment_submitted", "due"},
           shipment.milestone = "delivered", delivery.accepted, DeliveryCollects,
           payment.presented \/ ~DocumentsPending
    PROVE  FALSE
<1>1. \A i \in Items :
        Trigger(contract.plan, i) \in {"terms_agreed", "delivery", "documents_presented"}
  BY DEF Trigger
<1>2. \A i \in Items : items[i] # "awaiting_trigger"
  BY <1>1 DEF GInv, NoTriggerMissed, DeliveryCollects, DocumentsPending
<1>3. \A i \in PlanItems(contract.plan) : items[i] = "paid"
  BY <1>2, PlanHasItems DEF IInv, TypeOK, ContractRow, ItemStatus, ItemsOfPlan, GInv, OpenKeepsStock
<1>4. payment.status = "settled" /\ holding = "committed"
  BY <1>3 DEF GInv, PaidIsSettled, OpenKeepsStock
<1> QED BY <1>4 DEF IInv, ReadyIsSettled, TradeReady, AcceptedIsClear, NoOpenDiscrepancy,
                    NoActiveIssue, Closed

\* The party the guidance asks for the next milestone is one of the two.
LEMMA SomebodyReports == shipment \in ShipmentRow => milestoneParty(NextMilestone) \in Parties
<1> SUFFICES ASSUME shipment \in ShipmentRow PROVE milestoneParty(NextMilestone) \in Parties
  OBVIOUS
<1>1. NextMilestone \in Milestones
  BY DEF ShipmentRow, Milestones, milestoneOrder, NextMilestone
<1> QED BY <1>1 DEF milestoneParty, Parties, Milestones, milestoneOrder, coordinatorParty
\* When neither the end of the trade nor money asks for anything, fulfilment does.
LEMMA FulfilmentAsks ==
    ASSUME IInv, GInv, ~Held, DeliveryCollects, contract.terms = "agreed",
           contract.plan = "bank_secured" => payment.security = "verified",
           \A i \in Items : items[i] \notin {"payment_submitted", "due"}
    PROVE  \E p \in Parties : fulfillmentActions(p).asked
<1>1. contract.status \notin Closed /\ NoActiveIssue
  BY DEF Held
<1>2. dispatchDecision
  BY <1>1, NothingDueDispatches
<1>3. "seller" \in Parties /\ "buyer" \in Parties
  BY DEF Parties
<1>4. CASE DocumentsPending /\ ~payment.presented /\ documentsCanBePresentedAt(shipment.milestone)
  <2>1. fulfillmentActions("seller").asked
    BY <1>4 DEF fulfillmentActions, Entry
  <2> QED BY <1>3, <2>1
<1>5. CASE ~(/\ DocumentsPending /\ ~payment.presented
             /\ documentsCanBePresentedAt(shipment.milestone))
  <2>1. CASE shipment.milestone = "delivered" /\ ~delivery.accepted
    <3>1. fulfillmentActions("buyer").asked
      BY <1>5, <2>1 DEF fulfillmentActions, Entry
    <3> QED BY <1>3, <3>1
  <2>2. CASE shipment.milestone = "delivered" /\ delivery.accepted
    <3>1. payment.presented \/ ~DocumentsPending
      BY <1>5, <2>2 DEF documentsCanBePresentedAt
    <3> QED BY <1>1, <2>2, <3>1, NothingLeftSettles
  <2>3. CASE shipment.milestone # "delivered"
    <3>1. \A p : fulfillmentActions(p) = Entry("transport", p = milestoneParty(NextMilestone))
      BY <1>2, <1>5, <2>3 DEF fulfillmentActions
    <3>2. PICK p \in Parties : p = milestoneParty(NextMilestone)
      BY SomebodyReports DEF IInv, TypeOK
    <3>3. fulfillmentActions(p).asked
      BY <3>1, <3>2 DEF Entry
    <3> QED BY <3>3
  <2> QED BY <2>1, <2>2, <2>3
<1> QED BY <1>4, <1>5

\* Before that, terms, security and money ask.
LEMMA CommerceAsks ==
    ASSUME IInv, GInv, ~Held, DeliveryCollects
    PROVE  \E p \in Parties :
             IF commercialActions(p) # Nothing THEN commercialActions(p).asked
             ELSE fulfillmentActions(p).asked
<1>1. "seller" \in Parties /\ "buyer" \in Parties
  BY DEF Parties
<1>2. ~(~NoActiveIssue \/ recalled)
  BY DEF Held
<1>3. ASSUME NEW p \in Parties, commercialActions(p).step # "nothing",
             commercialActions(p).asked
      PROVE  \E q \in Parties :
               IF commercialActions(q) # Nothing THEN commercialActions(q).asked
               ELSE fulfillmentActions(q).asked
  <2>1. commercialActions(p) # Nothing
    BY <1>3 DEF Nothing, Entry
  <2> QED BY <1>3, <2>1
<1>4. contract.terms \in {"draft", "proposed", "agreed"}
  BY DEF IInv, TypeOK, ContractRow
<1>5. CASE contract.terms = "draft"
  <2>1. commercialActions("seller") = Entry("configure_terms", TRUE)
    BY <1>5 DEF commercialActions
  <2>2. commercialActions("seller").step # "nothing" /\ commercialActions("seller").asked
    BY <2>1 DEF Entry
  <2> QED BY <1>1, <1>3, <2>2
<1>6. CASE contract.terms = "proposed"
  <2>1. commercialActions("buyer") = Entry("confirm_terms", TRUE)
    BY <1>6 DEF commercialActions
  <2>2. commercialActions("buyer").step # "nothing" /\ commercialActions("buyer").asked
    BY <2>1 DEF Entry
  <2> QED BY <1>1, <1>3, <2>2
<1>7. CASE /\ contract.terms = "agreed"
           /\ contract.plan = "bank_secured" /\ payment.security # "verified"
  <2>1. commercialActions("seller") = Entry("verify_security", TRUE)
        \/ commercialActions("buyer") = Entry("submit_security", TRUE)
    BY <1>2, <1>7 DEF commercialActions
  <2>2. \/ commercialActions("seller").step # "nothing" /\ commercialActions("seller").asked
        \/ commercialActions("buyer").step # "nothing" /\ commercialActions("buyer").asked
    BY <2>1 DEF Entry
  <2> QED BY <1>1, <1>3, <2>2
<1>8. CASE /\ contract.terms = "agreed"
           /\ contract.plan = "bank_secured" => payment.security = "verified"
  <2>1. CASE InstallmentStatus = "payment_submitted"
    <3>1. commercialActions("seller") = Entry("verify_payment", TRUE)
      BY <1>2, <1>8, <2>1 DEF commercialActions
    <3>2. commercialActions("seller").step # "nothing" /\ commercialActions("seller").asked
      BY <3>1 DEF Entry
    <3> QED BY <1>1, <1>3, <3>2
  <2>2. CASE InstallmentStatus = "due"
    <3>1. commercialActions("buyer") = Entry("submit_payment", TRUE)
      BY <1>2, <1>8, <2>2 DEF commercialActions
    <3>2. commercialActions("buyer").step # "nothing" /\ commercialActions("buyer").asked
      BY <3>1 DEF Entry
    <3> QED BY <1>1, <1>3, <3>2
  <2>3. CASE InstallmentStatus \notin {"payment_submitted", "due"}
    <3>1. \A i \in Items : items[i] \notin {"payment_submitted", "due"}
      BY <2>3 DEF InstallmentStatus
    <3>2. \A p \in Parties : commercialActions(p) = Nothing
      BY <1>2, <1>8, <2>3 DEF commercialActions
    <3> QED BY <1>8, <3>1, <3>2, FulfilmentAsks
  <2> QED BY <2>1, <2>2, <2>3
<1> QED BY <1>4, <1>5, <1>6, <1>7, <1>8

\* In every state the invariants allow, somebody is asked to act.
LEMMA SomebodyAsked == IInv /\ GInv => SomebodyIsAsked
<1> SUFFICES ASSUME IInv, GInv, ~Held, DeliveryCollects, NEW requester \in Parties
             PROVE  \E p \in Parties : NextEntry(p, requester).asked
  BY DEF SomebodyIsAsked
<1>1. "seller" \in Parties /\ "buyer" \in Parties
  BY DEF Parties
<1>2. contract.status # "cancelled" /\ contract.status # "settled" /\ fee.submission # "submitted"
  BY DEF Held, Closed
<1>3. ASSUME NEW p \in Parties, closeoutActions(p, requester).step # "nothing",
             closeoutActions(p, requester).asked
      PROVE  \E q \in Parties : NextEntry(q, requester).asked
  <2>1. closeoutActions(p, requester) # Nothing
    BY <1>3 DEF Nothing, Entry
  <2> QED BY <1>3, <2>1 DEF NextEntry
<1>4. CASE cancellation
  <2>1. PICK p \in Parties : p # requester
    BY DEF Parties
  <2>2. closeoutActions(p, requester) = Entry("review_cancellation", TRUE)
    BY <1>2, <1>4, <2>1 DEF closeoutActions
  <2>3. closeoutActions(p, requester).step # "nothing" /\ closeoutActions(p, requester).asked
    BY <2>2 DEF Entry
  <2> QED BY <1>3, <2>3
<1>5. CASE ~cancellation /\ FeeMissing
  <2>1. closeoutActions("seller", requester) = Entry("pay_fee", TRUE)
    BY <1>2, <1>5 DEF closeoutActions
  <2>2. closeoutActions("seller", requester).step # "nothing"
        /\ closeoutActions("seller", requester).asked
    BY <2>1 DEF Entry
  <2> QED BY <1>1, <1>3, <2>2
<1>6. CASE ~cancellation /\ ~FeeMissing /\ delivery.discrepancy = "open"
  <2>1. closeoutActions("seller", requester) = Entry("propose_resolution", TRUE)
    BY <1>2, <1>6 DEF closeoutActions
  <2>2. closeoutActions("seller", requester).step # "nothing"
        /\ closeoutActions("seller", requester).asked
    BY <2>1 DEF Entry
  <2> QED BY <1>1, <1>3, <2>2
<1>7. CASE ~cancellation /\ ~FeeMissing /\ delivery.discrepancy = "resolution_proposed"
  <2>1. closeoutActions("buyer", requester) = Entry("approve_resolution", TRUE)
    BY <1>2, <1>7 DEF closeoutActions
  <2>2. closeoutActions("buyer", requester).step # "nothing"
        /\ closeoutActions("buyer", requester).asked
    BY <2>1 DEF Entry
  <2> QED BY <1>1, <1>3, <2>2
<1>8. CASE /\ ~cancellation /\ ~FeeMissing
           /\ delivery.discrepancy \notin {"open", "resolution_proposed"}
  <2>1. \A p \in Parties : closeoutActions(p, requester) = Nothing
    BY <1>2, <1>8 DEF closeoutActions
  <2>2. PICK p \in Parties : IF commercialActions(p) # Nothing THEN commercialActions(p).asked
                             ELSE fulfillmentActions(p).asked
    BY CommerceAsks
  <2>3. NextEntry(p, requester).asked
    BY <2>1, <2>2 DEF NextEntry
  <2> QED BY <2>3
<1> QED BY <1>4, <1>5, <1>6, <1>7, <1>8

\* No order of terms, instalments, documents, milestones, reversals, fee and cancellation
\* leaves an open trade with nobody asked to act (buildTradeActions), unless it is held
\* or delivery came before its terms.
THEOREM TradesNeverWait == Spec => []SomebodyIsAsked
<1>1. IInv /\ GInv => SomebodyIsAsked
  BY SomebodyAsked
<1> QED BY <1>1, GuidanceInvariance, PTL

-----------------------------------------------------------------------------
(***************************************************************************)
(* What is asked is accepted.  Besides the two invariants above the rules  *)
(* of the guidance rely on four facts the operations keep: the evidence of *)
(* a milestone is never lost, a discrepancy is one of delivered goods, no  *)
(* fee is invoiced in an open trade before its terms are accepted, and     *)
(* bank security is asked for with the plan that needs it.                 *)
(***************************************************************************)
\* The current milestone is recorded, and what it required still is.
PrerequisitesStand ==
    /\ shipment.milestone # "planning" => shipment.milestone \in shipment.recorded
    /\ progressPrerequisite(shipment.milestone)

\* A discrepancy is reported at delivery.
DisputedIsDelivered == delivery.discrepancy # "none" => shipment.milestone = "delivered"

\* The fee stays an estimate until its terms are accepted, or the trade ends.
EstimateUntilConsent ==
    Enrolled /\ ~fee.consent /\ contract.status \notin Closed => fee.status = "estimated"

\* Terms with bank security wait for it.
SecurityAskedFor ==
    contract.plan = "bank_secured" /\ contract.terms # "draft" => payment.security # "not_required"

AInv == PrerequisitesStand /\ DisputedIsDelivered /\ EstimateUntilConsent /\ SecurityAskedFor

\* The milestones and their order (milestoneOrder in transport/responsibilities.ts).
LEMMA MilestoneSequence ==
    /\ Milestones = {"planning", "booked", "requested", "accepted", "cargo_ready",
                     "export_cleared", "picked_up", "warehouse_received", "handed_over",
                     "port_received", "loaded", "departed", "arrived", "customs_cleared",
                     "unloaded", "delivered"}
    /\ milestoneOrder["planning"] = 1 /\ milestoneOrder["booked"] = 2
    /\ milestoneOrder["requested"] = 3 /\ milestoneOrder["accepted"] = 4
    /\ milestoneOrder["cargo_ready"] = 5 /\ milestoneOrder["export_cleared"] = 6
    /\ milestoneOrder["picked_up"] = 7 /\ milestoneOrder["warehouse_received"] = 8
    /\ milestoneOrder["handed_over"] = 9 /\ milestoneOrder["port_received"] = 10
    /\ milestoneOrder["loaded"] = 11 /\ milestoneOrder["departed"] = 12
    /\ milestoneOrder["arrived"] = 13 /\ milestoneOrder["customs_cleared"] = 14
    /\ milestoneOrder["unloaded"] = 15 /\ milestoneOrder["delivered"] = 16
PROOF BY DEF milestoneOrder, Milestones

\* Evidence is only added, so that what a milestone required goes on to stand.
LEMMA PrerequisitesLast ==
    ASSUME NEW m, progressPrerequisite(m), shipment.recorded \subseteq shipment'.recorded
    PROVE  progressPrerequisite(m)'
<1>1. \A ms : SellerRecorded(ms) => SellerRecorded(ms)'
  BY DEF SellerRecorded
<1> QED BY <1>1 DEF progressPrerequisite, originMilestones

\* A new trade: nothing is recorded, disputed, invoiced or asked for.
LEMMA AskingInit == Init => AInv
<1> SUFFICES ASSUME Init PROVE AInv
  OBVIOUS
<1>1. shipment.milestone = "planning" /\ delivery.discrepancy = "none"
      /\ contract.terms = "draft" /\ fee.status = "estimated"
  BY DEF Init
<1>2. progressPrerequisite("planning")
  BY MilestoneSequence DEF progressPrerequisite, Onward
<1> QED BY <1>1, <1>2 DEF AInv, PrerequisitesStand, DisputedIsDelivered, EstimateUntilConsent,
                          SecurityAskedFor

\* They survive a step that leaves shipment, discrepancy, terms and security alone, and
\* the fee as well unless the trade ends.
LEMMA AskingIdle ==
    ASSUME AInv, shipment' = shipment, delivery'.discrepancy = delivery.discrepancy,
           contract'.plan = contract.plan, contract'.terms = contract.terms,
           payment'.security = payment.security,
           contract'.status \notin Closed => contract.status \notin Closed /\ fee' = fee
    PROVE  AInv'
<1>1. PrerequisitesStand'
  BY PrerequisitesLast DEF AInv, PrerequisitesStand
<1> QED BY <1>1 DEF AInv, DisputedIsDelivered, EstimateUntilConsent, SecurityAskedFor, Enrolled

\* Payments, documents, security and payment issues keep them.
LEMMA AskingPayment ==
    ASSUME IInv, IInv', AInv, PaymentStep
    PROVE  AInv'
<1>1. ASSUME NEW plan \in Plans, NEW d \in Deposits, NEW proof \in ProofChoices,
             proposePaymentTerms(plan, d, proof)
      PROVE  AInv'
  <2>1. /\ UNCHANGED <<shipment, delivery, fee>>
        /\ contract'.status = contract.status /\ contract'.plan = plan
        /\ payment'.security = IF plan = "bank_secured" THEN "awaiting_submission"
                               ELSE "not_required"
    BY <1>1 DEF IInv, TypeOK, ContractRow, PaymentRow, proposePaymentTerms
  <2>2. PrerequisitesStand'
    BY <2>1, PrerequisitesLast DEF AInv, PrerequisitesStand
  <2> QED BY <2>1, <2>2 DEF AInv, DisputedIsDelivered, EstimateUntilConsent, SecurityAskedFor,
                            Enrolled
<1>2. ASSUME agreePaymentTerms PROVE AInv'
  <2>1. /\ UNCHANGED <<shipment, delivery, fee>>
        /\ contract'.status = contract.status /\ contract'.plan = contract.plan
        /\ contract.terms = "proposed" /\ payment'.security = payment.security
    BY <1>2 DEF IInv, TypeOK, ContractRow, PaymentRow, agreePaymentTerms, TermsProposed
  <2>2. PrerequisitesStand'
    BY <2>1, PrerequisitesLast DEF AInv, PrerequisitesStand
  <2> QED BY <2>1, <2>2 DEF AInv, DisputedIsDelivered, EstimateUntilConsent, SecurityAskedFor,
                            Enrolled
<1>3. ASSUME submitSecurity \/ confirmSecurity PROVE AInv'
  <2>1. UNCHANGED <<contract, shipment, delivery, fee>> /\ payment'.security # "not_required"
    BY <1>3 DEF IInv, TypeOK, PaymentRow, submitSecurity, confirmSecurity, SecurityStep
  <2>2. PrerequisitesStand'
    BY <2>1, PrerequisitesLast DEF AInv, PrerequisitesStand
  <2> QED BY <2>1, <2>2 DEF AInv, DisputedIsDelivered, EstimateUntilConsent, SecurityAskedFor,
                            Enrolled
<1>4. ASSUME NEW i \in Items, NEW proof \in ProofChoices, submitPayment(i, proof) PROVE AInv'
  <2>1. payment'.security = payment.security
    BY <1>4 DEF IInv, TypeOK, PaymentRow, submitPayment
  <2> QED BY <1>4, <2>1, AskingIdle DEF submitPayment
<1>5. ASSUME NEW i \in Items, confirmReceipt(i) PROVE AInv'
  <2>1. Outcome(contract) /\ UNCHANGED <<shipment, delivery>>
    BY <1>5, confirmReceiptOutcome DEF confirmReceipt
  <2>2. payment' = ConfirmedRow(items')
    BY <1>5 DEF confirmReceipt
  <2>3. payment'.security = payment.security
    BY <2>2 DEF IInv, TypeOK, PaymentRow, ConfirmedRow
  <2> QED BY <2>1, <2>3, AskingIdle DEF Outcome, Closed
<1>6. ASSUME approveIssueResolution PROVE AInv'
  <2>1. Outcome(contract) /\ UNCHANGED <<shipment, delivery>>
    BY <1>6, approveIssueResolutionOutcome DEF approveIssueResolution
  <2>2. issue \in IssueRow
    BY <1>6 DEF IInv, TypeOK, NoIssue, approveIssueResolution
  <2>3. payment' = ReversedRow(items') \/ payment' = payment
    BY <1>6, <2>2 DEF approveIssueResolution, IssueRow
  <2>4. payment'.security = payment.security
    BY <2>3 DEF IInv, TypeOK, PaymentRow, ReversedRow
  <2> QED BY <2>1, <2>4, AskingIdle DEF Outcome, Closed
<1>7. ASSUME NEW i \in Items, proofRejected(i) \/ rejectReceipt(i) PROVE AInv'
  <2>1. payment'.security = payment.security
    BY <1>7 DEF IInv, TypeOK, PaymentRow, proofRejected, rejectReceipt
  <2> QED BY <1>7, <2>1, AskingIdle DEF proofRejected, rejectReceipt
<1>8. ASSUME presentDocumentSet \/ documentsChange PROVE AInv'
  <2>1. payment'.security = payment.security
    BY <1>8 DEF IInv, TypeOK, PaymentRow, presentDocumentSet, documentsChange
  <2> QED BY <1>8, <2>1, AskingIdle DEF presentDocumentSet, documentsChange
<1>9. ASSUME \/ \E type \in {"payment_dispute", "reference_correction", "receipt_reversal"},
                   item \in Items \cup {"none"} : openPaymentIssue(type, item)
             \/ proposeIssueResolution
      PROVE  AInv'
  BY <1>9, AskingIdle DEF openPaymentIssue, proposeIssueResolution
<1> QED BY <1>1, <1>2, <1>3, <1>4, <1>5, <1>6, <1>7, <1>8, <1>9
        DEF PaymentStep, reconcileDocumentSets

\* The arrangement and the milestones keep them.
LEMMA AskingTransport ==
    ASSUME IInv, AInv, TransportStep
    PROVE  AInv'
<1>1. ASSUME NEW given \in Arrangements, updateArrangement(given) PROVE AInv'
  <2>1. /\ UNCHANGED <<payment, delivery, fee>> /\ shipment.milestone # "delivered"
        /\ contract'.plan = contract.plan /\ contract'.terms = contract.terms
        /\ contract'.status \notin Closed => contract.status \notin Closed
    BY <1>1 DEF IInv, TypeOK, ContractRow, updateArrangement, Arrangeable, Closed
  <2>2. /\ shipment.recorded \subseteq shipment'.recorded
        /\ \/ shipment'.milestone = shipment.milestone
           \/ shipment'.milestone = "booked" /\ "booked" \in shipment'.recorded
    BY <1>1 DEF IInv, TypeOK, ShipmentRow, updateArrangement
  <2>3. progressPrerequisite("booked")
    BY MilestoneSequence DEF progressPrerequisite, Onward
  <2>4. progressPrerequisite("booked")' /\ progressPrerequisite(shipment.milestone)'
    BY <2>2, <2>3, PrerequisitesLast DEF AInv, PrerequisitesStand
  <2>5. PrerequisitesStand'
    BY <2>2, <2>4, PrerequisitesLast DEF AInv, PrerequisitesStand
  <2> QED BY <2>1, <2>5 DEF AInv, DisputedIsDelivered, EstimateUntilConsent, SecurityAskedFor,
                            Enrolled
<1>2. ASSUME NEW m \in Reported, NEW exceptional \in BOOLEAN, recordMilestone(m, exceptional)
      PROVE  AInv'
  <2>1. MilestoneStep(m)
    BY <1>2, recordMilestoneFacts
  <2>2. /\ progressPrerequisite(m) /\ delivery' = delivery
        /\ shipment.recorded \subseteq shipment'.recorded
        /\ shipment'.milestone = m /\ m \in shipment'.recorded
    BY <1>2 DEF IInv, TypeOK, ShipmentRow, recordMilestone, Recordable
  <2>3. PrerequisitesStand'
    BY <2>2, PrerequisitesLast DEF PrerequisitesStand
  <2>4. DisputedIsDelivered'
    BY <2>1, <2>2 DEF AInv, DisputedIsDelivered, MilestoneStep
  <2>5. EstimateUntilConsent' /\ SecurityAskedFor'
    BY <2>1 DEF AInv, EstimateUntilConsent, SecurityAskedFor, MilestoneStep, Outcome, Enrolled,
                Closed
  <2> QED BY <2>3, <2>4, <2>5 DEF AInv
<1>3. ASSUME acknowledgeException PROVE AInv'
  <2>1. /\ UNCHANGED <<contract, payment, delivery, fee>>
        /\ shipment'.milestone = shipment.milestone /\ shipment'.recorded = shipment.recorded
    BY <1>3 DEF IInv, TypeOK, ShipmentRow, acknowledgeException
  <2>2. PrerequisitesStand'
    BY <2>1, PrerequisitesLast DEF AInv, PrerequisitesStand
  <2> QED BY <2>1, <2>2 DEF AInv, DisputedIsDelivered, EstimateUntilConsent, SecurityAskedFor,
                            Enrolled
<1> QED BY <1>1, <1>2, <1>3 DEF TransportStep

\* The platform fee keeps them: it is invoiced when its terms are accepted.
LEMMA AskingFee ==
    ASSUME IInv, AInv, FeeStep
    PROVE  AInv'
<1>1. UNCHANGED <<contract, payment, shipment, delivery>>
  BY DEF FeeStep, consentFeeTerms, submitFee, reviewFee, writeOffFee, setFeeCredit, creditExpires,
         requestFeeRefund, sendFeeRefund, confirmFeeRefund, rejectFeeRefund, dealOnly
<1>2. /\ fee'.policy = fee.policy
      /\ ~fee'.consent => ~fee.consent /\ (fee'.status = fee.status \/ requireCollectible)
  BY DEF IInv, TypeOK, FeeRow, FeeStep, consentFeeTerms, submitFee, reviewFee, writeOffFee, FeeOpen,
         setFeeCredit, creditExpires, requestFeeRefund, sendFeeRefund, confirmFeeRefund,
         rejectFeeRefund
<1>3. PrerequisitesStand'
  BY <1>1, PrerequisitesLast DEF AInv, PrerequisitesStand
<1> QED BY <1>1, <1>2, <1>3 DEF AInv, DisputedIsDelivered, EstimateUntilConsent, SecurityAskedFor,
                                Enrolled, requireCollectible

\* Delivery and cancellation keep them.
LEMMA AskingClosing ==
    ASSUME IInv, AInv, ClosingStep
    PROVE  AInv'
<1>1. ASSUME acceptDelivery PROVE AInv'
  <2>1. Outcome(contract) /\ UNCHANGED <<shipment, payment>>
    BY <1>1, acceptDeliveryOutcome DEF acceptDelivery
  <2>2. delivery'.discrepancy = delivery.discrepancy
    BY <1>1 DEF IInv, TypeOK, DeliveryRow, acceptDelivery
  <2> QED BY <2>1, <2>2, AskingIdle DEF Outcome, Closed
<1>2. ASSUME reportDiscrepancy \/ proposeResolution \/ approveResolution PROVE AInv'
  <2>1. UNCHANGED <<contract, payment, shipment, fee>> /\ shipment.milestone = "delivered"
    BY <1>2 DEF reportDiscrepancy, proposeResolution, approveResolution, DiscrepancyIs,
                requireDelivered, Discrepancy
  <2>2. PrerequisitesStand'
    BY <2>1, PrerequisitesLast DEF AInv, PrerequisitesStand
  <2> QED BY <2>1, <2>2 DEF AInv, DisputedIsDelivered, EstimateUntilConsent, SecurityAskedFor,
                            Enrolled
<1>3. ASSUME requestCancellation \/ rejectCancellation \/ recallChanges PROVE AInv'
  BY <1>3, AskingIdle DEF requestCancellation, rejectCancellation, recallChanges
<1>4. ASSUME approveCancellation PROVE AInv'
  <2>1. /\ UNCHANGED <<shipment, delivery>> /\ contract'.status = "cancelled"
        /\ contract'.plan = contract.plan /\ contract'.terms = contract.terms
        /\ payment'.security = payment.security
    BY <1>4 DEF IInv, TypeOK, ContractRow, PaymentRow, approveCancellation
  <2> QED BY <2>1, AskingIdle DEF Closed
<1> QED BY <1>1, <1>2, <1>3, <1>4 DEF ClosingStep

\* They hold throughout the life of a trade.
LEMMA AskingInvariance == Spec => [](IInv /\ GInv /\ AInv)
<1>1. Init => AInv
  BY AskingInit
<1>2. IInv /\ IInv' /\ AInv /\ [Next]_vars => AInv'
  <2> SUFFICES ASSUME IInv, IInv', AInv, [Next]_vars PROVE AInv'
    OBVIOUS
  <2>1. CASE UNCHANGED vars
    BY <2>1, AskingIdle DEF vars
  <2> QED BY <2>1, AskingPayment, AskingTransport, AskingFee, AskingClosing DEF Next
<1> QED BY <1>1, <1>2, GuidanceInvariance, PTL DEF Spec

-----------------------------------------------------------------------------
\* Dispatch allowed, the next milestone can be recorded, after an arrangement if need be
\* (fulfillmentActions against progressPrerequisite and transitionDenial).
LEMMA NextIsRecordable ==
    ASSUME IInv, AInv, contract.status \notin Closed, shipment.milestone # "delivered",
           NoActiveIssue, ~recalled, dispatchDecision, assertFeeDispatch
    PROVE  Arrangeable /\ Recordable(NextMilestone, FALSE, Fields)
<1> DEFINE m == shipment.milestone
<1>1. m \in Milestones /\ Incoterm \in Incoterms
  BY DealAssumption DEF IInv, TypeOK, ShipmentRow
<1>2. /\ m # "planning" => m \in shipment.recorded
      /\ progressPrerequisite(m)
  BY DEF AInv, PrerequisitesStand
<1>3. milestoneOrder[NextMilestone] > milestoneOrder[m]
  <2>1. CASE m \in {"planning", "booked", "requested", "accepted"}
    <3>1. NextMilestone = IF m = "planning" THEN "booked" ELSE "cargo_ready"
      BY <2>1 DEF NextMilestone
    <3> QED BY <2>1, <3>1, MilestoneSequence
  <2>2. CASE m \in {"cargo_ready", "export_cleared", "picked_up", "warehouse_received"}
    <3>1. NextMilestone \in {"handed_over", "loaded"}
      BY <2>2 DEF NextMilestone
    <3> QED BY <2>2, <3>1, MilestoneSequence
  <2>3. CASE m \in {"handed_over", "port_received", "loaded", "departed", "arrived"}
    <3>1. \/ m \in {"handed_over", "port_received"} /\ NextMilestone = "loaded"
          \/ m = "loaded" /\ NextMilestone = "departed"
          \/ m = "departed" /\ NextMilestone = "arrived"
          \/ m = "arrived" /\ NextMilestone = "customs_cleared"
      BY <2>3 DEF NextMilestone
    <3> QED BY <3>1, MilestoneSequence
  <2>4. CASE m \in {"customs_cleared", "unloaded"}
    <3>1. \/ m = "customs_cleared" /\ NextMilestone \in {"unloaded", "delivered"}
          \/ m = "unloaded" /\ NextMilestone = "delivered"
      BY <2>4 DEF NextMilestone
    <3> QED BY <3>1, MilestoneSequence
  <2> QED BY <1>1, <2>1, <2>2, <2>3, <2>4, MilestoneSequence
<1>4. DispatchAuthorized(NextMilestone, FALSE)
  BY DEF DispatchAuthorized, authorizePaymentDispatch
<1>5. progressPrerequisite(NextMilestone)
  <2>1. CASE m \in {"planning", "booked", "requested", "accepted"}
    <3>1. NextMilestone \in {"booked", "cargo_ready"}
      BY <2>1 DEF NextMilestone
    <3> QED BY <3>1, MilestoneSequence DEF progressPrerequisite, Onward
  <2>2. CASE m \in {"cargo_ready", "export_cleared", "picked_up", "warehouse_received"}
    <3>1. NextMilestone = IF Incoterm = "FAS" THEN "handed_over" ELSE "loaded"
      BY <2>2 DEF NextMilestone
    <3>2. CASE Incoterm = "EXW"
      <4>1. originMilestones = {"cargo_ready"} /\ milestoneParty("cargo_ready") = "seller"
        BY <3>2 DEF originMilestones, milestoneParty
      <4>2. SellerRecorded(originMilestones)
        BY <1>2, <2>2, <3>2, <4>1, MilestoneSequence DEF progressPrerequisite, SellerRecorded
      <4> QED BY <3>1, <3>2, <4>2 DEF progressPrerequisite, Onward
    <3>3. CASE Incoterm # "EXW"
      BY <3>1, <3>3 DEF progressPrerequisite, Onward
    <3> QED BY <3>2, <3>3
  <2>3. CASE m \in {"handed_over", "port_received"}
    <3>1. NextMilestone = "loaded"
      BY <2>3 DEF NextMilestone
    <3>2. CASE Incoterm = "EXW"
      BY <1>2, <2>3, <3>1, <3>2, MilestoneSequence DEF progressPrerequisite, Onward
    <3>3. CASE Incoterm = "FAS"
      <4>1. m \in originMilestones /\ milestoneParty(m) = "seller"
        BY <2>3, <3>3 DEF originMilestones, milestoneParty
      <4>2. SellerRecorded(originMilestones)
        BY <1>2, <2>3, <4>1 DEF SellerRecorded
      <4> QED BY <3>1, <3>3, <4>2 DEF progressPrerequisite, Onward
    <3>4. CASE Incoterm \notin {"EXW", "FAS"}
      BY <3>1, <3>4 DEF progressPrerequisite, Onward
    <3> QED BY <3>2, <3>3, <3>4
  <2>4. CASE m = "loaded"
    <3>1. NextMilestone = "departed"
      BY <2>4 DEF NextMilestone
    <3>2. CASE Incoterm \in {"EXW", "FAS"}
      BY <1>2, <2>4, <3>1, <3>2, MilestoneSequence DEF progressPrerequisite, Onward
    <3>3. CASE Incoterm \notin {"EXW", "FAS"}
      <4>1. m \in originMilestones /\ milestoneParty(m) = "seller"
        BY <2>4, <3>3 DEF originMilestones, milestoneParty
      <4>2. SellerRecorded(originMilestones)
        BY <1>2, <2>4, <4>1 DEF SellerRecorded
      <4> QED BY <3>1, <3>3, <4>2 DEF progressPrerequisite, Onward
    <3> QED BY <3>2, <3>3
  <2>5. CASE m \in {"departed", "arrived"}
    <3>1. NextMilestone \in {"arrived", "customs_cleared"}
      BY <2>5 DEF NextMilestone
    <3> QED BY <1>2, <2>5, <3>1 DEF progressPrerequisite, Onward
  <2>6. CASE m = "customs_cleared"
    <3>1. NextMilestone = IF Incoterm = "DPU" THEN "unloaded" ELSE "delivered"
      BY <2>6 DEF NextMilestone
    <3>2. Incoterm = "DDP" => SellerRecorded({"customs_cleared"})
      BY <1>2, <2>6 DEF SellerRecorded, milestoneParty
    <3> QED BY <1>2, <2>6, <3>1, <3>2 DEF progressPrerequisite, Onward
  <2>7. CASE m = "unloaded"
    <3>1. NextMilestone = "delivered"
      BY <2>7 DEF NextMilestone
    <3>2. Incoterm = "DPU" => SellerRecorded({"unloaded"})
      BY <1>2, <2>7 DEF SellerRecorded, milestoneParty
    <3> QED BY <1>2, <2>7, <3>1, <3>2 DEF progressPrerequisite, Onward
  <2> QED BY <1>1, <2>1, <2>2, <2>3, <2>4, <2>5, <2>6, <2>7, MilestoneSequence
<1>6. contract.status # "cancelled" /\ {"carrier", "route"} \subseteq Fields
  BY DEF Closed, Fields
<1> QED BY <1>3, <1>4, <1>5, <1>6 DEF Arrangeable, Recordable

\* The rules on the end of the trade, cancellation, fee and discrepancies.
LEMMA CloseoutAccepted ==
    ASSUME IInv, AInv, NEW p, NEW requester, closeoutActions(p, requester).asked
    PROVE  Accepts(closeoutActions(p, requester).step)
<1> DEFINE entry == closeoutActions(p, requester)
<1>1. fee \in FeeRow /\ FeeAmount \in Nat
  BY DealAssumption DEF IInv, TypeOK
<1>2. CASE contract.status = "cancelled"
  BY <1>2 DEF closeoutActions, Entry
<1>3. CASE contract.status # "cancelled" /\ cancellation
  BY <1>3 DEF closeoutActions, Entry, Accepts
<1>4. CASE contract.status = "settled" /\ ~cancellation
  <2>1. /\ entry.step = "pay_fee" /\ fee.submission # "submitted"
        /\ fee.status = "invoiced" /\ FeeAmount > 0
    BY <1>4 DEF closeoutActions, Entry
  <2>2. FeeOpen
    BY <1>4, <2>1 DEF FeeOpen, requireCollectible
  <2> QED BY <2>1, <2>2 DEF Accepts
<1>5. CASE contract.status \notin Closed /\ ~cancellation /\ p = "seller" /\ FeeMissing
  <2>1. entry.step = "pay_fee" /\ fee.submission # "submitted"
    BY <1>5 DEF closeoutActions, Entry, Closed
  <2>2. CASE ~fee.consent
    <3>1. FeeTermsPending
      BY <1>5, <2>2 DEF AInv, EstimateUntilConsent, FeeMissing, FeeTermsPending
    <3> QED BY <2>1, <3>1 DEF Accepts
  <2>3. CASE fee.consent
    <3>1. FeeOpen
      BY <1>5, <2>1, <2>3 DEF FeeMissing, FeeOpen, requireCollectible, Closed
    <3> QED BY <2>1, <3>1 DEF Accepts
  <2> QED BY <2>2, <2>3
<1>6. CASE contract.status \notin Closed /\ ~cancellation /\ ~(p = "seller" /\ FeeMissing)
  <2>1. \/ delivery.discrepancy = "open" /\ entry.step = "propose_resolution"
        \/ delivery.discrepancy = "resolution_proposed" /\ entry.step = "approve_resolution"
    BY <1>6 DEF closeoutActions, Entry, Nothing, Closed
  <2>2. requireDelivered
    BY <1>6, <2>1 DEF AInv, DisputedIsDelivered, requireDelivered
  <2> QED BY <2>1, <2>2 DEF Accepts, DiscrepancyIs
<1> QED BY <1>2, <1>3, <1>4, <1>5, <1>6 DEF Closed

\* The rules on terms, security and payment.
LEMMA CommerceAccepted ==
    ASSUME IInv, AInv, contract.status \notin Closed, NEW p, commercialActions(p).asked
    PROVE  Accepts(commercialActions(p).step) \/ FeeRefuses(commercialActions(p).step)
<1> DEFINE entry == commercialActions(p)
<1>1. CASE contract.terms = "draft"
  <2>1. entry.step = "configure_terms"
    BY <1>1 DEF commercialActions, Entry
  <2>2. Replaceable
    BY <1>1 DEF IInv, PaidUnderTerms, Replaceable
  <2> QED BY <2>1, <2>2 DEF Accepts
<1>2. CASE contract.terms = "proposed"
  <2>1. entry.step = "confirm_terms"
    BY <1>2 DEF commercialActions, Entry
  <2> QED BY <1>2, <2>1 DEF Accepts, TermsProposed
<1>3. CASE contract.terms = "agreed" /\ (~NoActiveIssue \/ recalled)
  BY <1>3 DEF commercialActions, Entry
<1>4. CASE /\ contract.terms = "agreed" /\ NoActiveIssue /\ ~recalled
           /\ contract.plan = "bank_secured" /\ payment.security # "verified"
  <2>1. \/ payment.security = "submitted" /\ entry.step = "verify_security"
        \/ payment.security # "submitted" /\ entry.step = "submit_security"
    BY <1>4 DEF commercialActions, Entry
  <2>2. payment.security \in {"awaiting_submission", "submitted"}
    BY <1>4 DEF IInv, TypeOK, PaymentRow, AInv, SecurityAskedFor
  <2>3. PaymentOpen
    BY <1>4 DEF PaymentOpen, Closed
  <2> QED BY <1>4, <2>1, <2>2, <2>3 DEF Accepts, FeeRefuses, SecurityAwaits
<1>5. CASE /\ contract.terms = "agreed" /\ NoActiveIssue /\ ~recalled
           /\ ~(contract.plan = "bank_secured" /\ payment.security # "verified")
  <2>1. PaymentOpen
    BY <1>5 DEF PaymentOpen, Closed
  <2>2. CASE \E i \in Items : items[i] = "payment_submitted"
    <3>1. entry.step = "verify_payment"
      BY <1>5, <2>2 DEF commercialActions, Entry, InstallmentStatus
    <3>2. \E i \in Items : Rejectable(i)
      BY <2>1, <2>2 DEF Rejectable
    <3> QED BY <3>1, <3>2 DEF Accepts
  <2>3. CASE ~(\E i \in Items : items[i] = "payment_submitted")
    <3>1. entry.step = "submit_payment" /\ \E i \in Items : items[i] = "due"
      BY <1>5, <2>3 DEF commercialActions, Entry, InstallmentStatus, Nothing
    <3>2. FeeRefundHold \/ \E i \in Items : Payable(i, TRUE)
      BY <2>1, <3>1 DEF Payable
    <3> QED BY <3>1, <3>2 DEF Accepts, FeeRefuses
  <2> QED BY <2>2, <2>3
<1> QED BY <1>1, <1>2, <1>3, <1>4, <1>5 DEF IInv, TypeOK, ContractRow

\* The rules on documents, acceptance and transport.
LEMMA FulfilmentAccepted ==
    ASSUME IInv, AInv, contract.status \notin Closed, contract.terms = "agreed",
           NoActiveIssue, ~recalled, NoOpenDiscrepancy,
           contract.plan = "bank_secured" => payment.security = "verified",
           NEW p, fulfillmentActions(p).asked
    PROVE  LET step == fulfillmentActions(p).step
           IN  Accepts(step) \/ FeeRefuses(step) \/ (step = "documents" /\ ReferenceMissed)
<1> DEFINE entry == fulfillmentActions(p)
<1>1. CASE DocumentsPending /\ ~payment.presented /\ documentsCanBePresentedAt(shipment.milestone)
  <2>1. entry.step = "documents"
    BY <1>1 DEF fulfillmentActions, Entry
  <2>2. contract.plan \in DocumentPlans
    BY <1>1 DEF IInv, TypeOK, ContractRow, AllPlans, DocumentPlans, DocumentsPending, Trigger,
                ItemsOfPlan, PlanItems
  <2>3. Presentable
    BY <1>1, <2>2 DEF Presentable, PaymentOpen, Closed
  <2>4. "document" \in shipment.fields \/ Arrangeable \/ ReferenceMissed
    BY DEF Arrangeable, ReferenceMissed, Closed
  <2> QED BY <1>1, <2>1, <2>3, <2>4 DEF Accepts
<1>2. CASE /\ ~(/\ DocumentsPending /\ ~payment.presented
                /\ documentsCanBePresentedAt(shipment.milestone))
           /\ shipment.milestone = "delivered"
  <2>1. entry.step = "accept_delivery" /\ ~delivery.accepted
    BY <1>2 DEF fulfillmentActions, Entry
  <2> QED BY <1>2, <2>1 DEF Accepts, Acceptable, requireDelivered
<1>3. CASE /\ ~(/\ DocumentsPending /\ ~payment.presented
                /\ documentsCanBePresentedAt(shipment.milestone))
           /\ shipment.milestone # "delivered"
  <2>1. entry.step = "transport" /\ dispatchDecision
    BY <1>3 DEF fulfillmentActions, Entry
  <2>2. ~assertFeeDispatch \/ (Arrangeable /\ Recordable(NextMilestone, FALSE, Fields))
    BY <1>3, <2>1, NextIsRecordable
  <2> QED BY <2>1, <2>2 DEF Accepts, FeeRefuses
<1> QED BY <1>1, <1>2, <1>3

\* No order of terms, payments, milestones, discrepancies, fee and cancellation makes the
\* guidance ask for a step the operation behind it would refuse (buildTradeActions), for
\* every incoterm and plan; the fee, and a transport document nobody recorded before
\* delivery, are the exceptions.
THEOREM AskedWillBeAccepted == Spec => []AskedIsAccepted
<1>1. ASSUME IInv, AInv PROVE AskedIsAccepted
  <2> SUFFICES ASSUME NEW p \in Parties, NEW requester \in Parties, NextEntry(p, requester).asked
               PROVE  LET step == NextEntry(p, requester).step
                      IN  \/ Accepts(step) \/ FeeRefuses(step)
                          \/ step = "documents" /\ ReferenceMissed
    BY DEF AskedIsAccepted
  <2>1. CASE closeoutActions(p, requester) # Nothing
    <3>1. NextEntry(p, requester) = closeoutActions(p, requester)
      BY <2>1 DEF NextEntry
    <3> QED BY <1>1, <3>1, CloseoutAccepted
  <2>2. CASE closeoutActions(p, requester) = Nothing
    <3>1. contract.status \notin Closed /\ delivery.discrepancy \notin {"open", "resolution_proposed"}
      BY <2>2 DEF closeoutActions, Entry, Nothing, Closed
    <3>2. CASE commercialActions(p) # Nothing
      <4>1. NextEntry(p, requester) = commercialActions(p)
        BY <2>2, <3>2 DEF NextEntry
      <4> QED BY <1>1, <3>1, <4>1, CommerceAccepted
    <3>3. CASE commercialActions(p) = Nothing
      <4>1. NextEntry(p, requester) = fulfillmentActions(p)
        BY <2>2, <3>3 DEF NextEntry
      <4>2. /\ contract.terms \notin {"draft", "proposed"}
            /\ NoActiveIssue /\ ~recalled
            /\ contract.plan = "bank_secured" => payment.security = "verified"
        BY <3>3 DEF commercialActions, Entry, Nothing
      <4>3. contract.terms = "agreed" /\ NoOpenDiscrepancy
        BY <1>1, <3>1, <4>2 DEF IInv, TypeOK, ContractRow, DeliveryRow, NoOpenDiscrepancy
      <4> QED BY <1>1, <3>1, <4>1, <4>2, <4>3, FulfilmentAccepted
    <3> QED BY <3>2, <3>3
  <2> QED BY <2>1, <2>2
<1> QED BY <1>1, AskingInvariance, PTL
=============================================================================
