---------------------------- MODULE MCInventory -----------------------------
(***************************************************************************)
(* Small instances of Inventory for TLC.                                   *)
(***************************************************************************)
EXTENDS InventoryLedger, TLC

\* Identifiers of holdings, offers, transfers and organizations are opaque;
\* listing identifiers are not: reconcileHoldingListings orders by them.
Symmetry == Permutations(HoldingIds) \cup Permutations(OfferIds)
              \cup Permutations(TransferIds) \cup Permutations(Orgs)
=============================================================================
