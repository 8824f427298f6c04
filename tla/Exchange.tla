------------------------------ MODULE Exchange ------------------------------
(***************************************************************************)
(* What a trade promises its two parties, whatever way it takes: goods and *)
(* money change hands in steps of their own while the trade is open, the   *)
(* buyer accepts only goods that have arrived, title passes in the step    *)
(* that completes arrival, acceptance and the whole amount, and a trade    *)
(* can be called off only while neither goods nor money have moved.  Once  *)
(* closed, nothing moves any more.                                         *)
(***************************************************************************)
EXTENDS Integers

CONSTANT Price      \* the amount due

VARIABLES
    outcome,        \* "open", "settled" or "cancelled"
    received,       \* the part of the price the seller has confirmed
    goods,          \* where the goods are: "origin", "moving" or "arrived"
    accepted,       \* the buyer has accepted the delivery
    title           \* who owns the goods: "seller" or "buyer"

exchange == <<outcome, received, goods, accepted, title>>

Begin ==
    /\ outcome = "open" /\ received = 0 /\ goods = "origin" /\ accepted = FALSE
    /\ title = "seller"

\* The goods never come back, and are accepted where they arrived.
Onwards ==
    /\ \/ goods' = goods
       \/ goods = "origin" /\ goods' = "moving"
       \/ goods # "arrived" /\ goods' = "arrived"
    /\ accepted' = accepted \/ (accepted' = TRUE /\ goods = "arrived")

\* The amount received changes, by a confirmed payment or a reversed one, the goods
\* move on or the buyer accepts them.
Perform ==
    /\ outcome = "open" /\ outcome' = "open"
    /\ received' \in 0..Price
    /\ Onwards
    /\ title' = title

\* The last condition is met and title passes in the same step.
Settle ==
    /\ outcome = "open" /\ outcome' = "settled"
    /\ received' = Price
    /\ Onwards /\ goods' = "arrived" /\ accepted' = TRUE
    /\ title' = "buyer"

CallOff ==
    /\ outcome = "open" /\ outcome' = "cancelled"
    /\ received = 0 /\ goods = "origin"
    /\ UNCHANGED <<received, goods, accepted, title>>

Fair == Begin /\ [][Perform \/ Settle \/ CallOff]_exchange

\* Nobody gives for nothing: title is the buyer's exactly when the trade has settled, with
\* the whole price received and the goods there and accepted; a trade called off has moved
\* neither money nor goods; and accepted goods have arrived.
FairToBoth ==
    /\ title \in {"seller", "buyer"}
    /\ title = "buyer" <=> outcome = "settled"
    /\ outcome = "settled" => received = Price /\ goods = "arrived" /\ accepted
    /\ outcome = "cancelled" => received = 0 /\ goods = "origin" /\ ~accepted
    /\ accepted => goods = "arrived"

\* Whatever changes, changes while the trade is open: a settled or cancelled trade is
\* neither reopened nor paid back, moved or taken over again.
ClosedForGood == [][outcome = "open"]_exchange
=============================================================================
