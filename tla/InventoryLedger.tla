-------------------------- MODULE InventoryLedger ---------------------------
(***************************************************************************)
(* Inventory implements StockLedger.  The free stock of an organization is *)
(* the sum of its available holdings; an agreement is an open contract,    *)
(* and its quantity is that of the committed holding.                      *)
(***************************************************************************)
EXTENDS Inventory

FreeHoldings(b, org) ==
    {h \in DOMAIN holdings : /\ holdings[h].batch = b
                             /\ holdings[h].holder = org
                             /\ holdings[h].status = "available"}

FreeStock == [b \in Batches |-> [org \in Orgs |-> SumQuantity(holdings, FreeHoldings(b, org))]]

OpenContracts == {o \in DOMAIN contracts : contracts[o].status = "open"}

Agreed ==
    [o \in OpenContracts |->
        [batch |-> holdings[contracts[o].holding].batch,
         seller |-> holdings[contracts[o].holding].holder,
         buyer |-> contracts[o].buyer,
         quantity |-> holdings[contracts[o].holding].quantity]]

Ledger == INSTANCE StockLedger
            WITH ContractIds <- OfferIds,
                 registered <- [b \in Batches |-> source[b].quantity],
                 free <- FreeStock,
                 agreed <- Agreed

(***************************************************************************)
(* Every inventory transaction moves stock as the ledger allows: splitting,*)
(* publishing and reserving move nothing; acceptance sets aside exactly    *)
(* the contract's quantity; settlement gives the buyer exactly that, and   *)
(* cancellation gives it back; nothing is created, lost or sold twice.     *)
(***************************************************************************)
ImplementsLedger == Ledger!LedgerSpec
=============================================================================
