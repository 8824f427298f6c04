---------------------------- MODULE StockLedger -----------------------------
(***************************************************************************)
(* What the inventory promises about stock, without holdings, listings,    *)
(* offers or transfer requests: every organization has a free quantity of  *)
(* each batch, every open contract has a quantity set aside, and stock     *)
(* only ever moves between them.                                           *)
(***************************************************************************)
EXTENDS Integers

CONSTANTS Batches, Orgs, ContractIds, MaxGrams

VARIABLES
    registered,     \* the quantity registered of each batch
    free,           \* free[b][org]: what org can publish, transfer, split or sell of b
    agreed          \* the open contracts: batch, seller, buyer and quantity of each

ledger == <<registered, free, agreed>>

Agreement == [batch : Batches, seller : Orgs, buyer : Orgs, quantity : 0..MaxGrams]

Add(b, org, q) == [free EXCEPT ![b][org] = @ + q]
Close(c) == [x \in DOMAIN agreed \ {c} |-> agreed[x]]

Register(b, org, q) ==
    /\ registered[b] = 0
    /\ registered' = [registered EXCEPT ![b] = q]
    /\ free' = Add(b, org, q)
    /\ UNCHANGED agreed

\* Stock a legacy batch was never allocated becomes someone's: the rule on totals is the
\* inventory's own invariant, SourceNotOverallocated.
Allocate(b, org, q) ==
    /\ registered[b] > 0
    /\ free' = Add(b, org, q)
    /\ UNCHANGED <<registered, agreed>>

Move(b, from, to, q) ==
    /\ from # to
    /\ q <= free[b][from]
    /\ free' = [free EXCEPT ![b][from] = @ - q, ![b][to] = @ + q]
    /\ UNCHANGED <<registered, agreed>>

Agree(c, b, seller, buyer, q) ==
    /\ c \notin DOMAIN agreed
    /\ seller # buyer
    /\ q <= free[b][seller]
    /\ free' = [free EXCEPT ![b][seller] = @ - q]
    /\ agreed' = [x \in DOMAIN agreed \cup {c} |->
                     IF x = c THEN [batch |-> b, seller |-> seller, buyer |-> buyer, quantity |-> q]
                     ELSE agreed[x]]
    /\ UNCHANGED registered

\* The agreed quantity, all of it and nothing else, becomes the buyer's.
Deliver(c) ==
    /\ c \in DOMAIN agreed
    /\ free' = Add(agreed[c].batch, agreed[c].buyer, agreed[c].quantity)
    /\ agreed' = Close(c)
    /\ UNCHANGED registered

\* A cancelled contract gives the seller back exactly what it set aside.
Release(c) ==
    /\ c \in DOMAIN agreed
    /\ free' = Add(agreed[c].batch, agreed[c].seller, agreed[c].quantity)
    /\ agreed' = Close(c)
    /\ UNCHANGED registered

LedgerInit ==
    /\ registered \in [Batches -> 0..MaxGrams]
    /\ free = [b \in Batches |-> [org \in Orgs |-> 0]]
    /\ agreed = [c \in {} |-> c]

LedgerNext ==
    \/ \E b \in Batches, org \in Orgs, q \in 1..MaxGrams : Register(b, org, q) \/ Allocate(b, org, q)
    \/ \E b \in Batches, from, to \in Orgs, q \in 1..MaxGrams :
          Move(b, from, to, q) \/ \E c \in ContractIds : Agree(c, b, from, to, q)
    \/ \E c \in ContractIds : Deliver(c) \/ Release(c)

LedgerSpec == LedgerInit /\ [][LedgerNext]_ledger
=============================================================================
