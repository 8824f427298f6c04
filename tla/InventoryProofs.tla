--------------------------- MODULE InventoryProofs --------------------------
(***************************************************************************)
(* Theorems about Inventory for every number of batches, organizations,    *)
(* holdings, listings, offers and transfers and every quantity.            *)
(***************************************************************************)
EXTENDS Inventory, FiniteSetTheorems, TLAPS

-----------------------------------------------------------------------------
(* Tables.                                                                 *)

\* The sum of a quantity column over finitely many rows is a natural number.
LEMMA SumIsNat ==
    ASSUME NEW table, NEW ids, IsFiniteSet(ids)
    PROVE  SumQuantity(table, ids) \in Nat
<1>1. IsFiniteSet(1..MaxGrams)
    BY FS_Interval, MaxGramsAssumption
<1>2. IsFiniteSet(ids \X (1..MaxGrams))
    BY <1>1, FS_Product
<1>3. GramsOf(table, ids) \in SUBSET (ids \X (1..MaxGrams))
    BY DEF GramsOf
<1>4. IsFiniteSet(GramsOf(table, ids))
    BY <1>2, <1>3, FS_Subset
<1>. QED
    BY <1>4, FS_CardinalityType DEF SumQuantity

\* The keys of a table of finitely many possible keys are finitely many.
LEMMA FiniteTable ==
    ASSUME NEW table, NEW Ids, NEW Row, IsTable(table, Ids, Row), IsFiniteSet(Ids),
           NEW S \in SUBSET DOMAIN table
    PROVE  IsFiniteSet(S)
<1>1. S \in SUBSET Ids
    BY DEF IsTable
<1>. QED
    BY <1>1, FS_Subset

\* Rejecting offers changes nothing but the status of those rejected.
LEMMA RejectRows ==
    ASSUME NEW os, IsTable(os, OfferIds, OfferRow), NEW S
    PROVE  LET after == RejectOffers(os, S) IN
           /\ IsTable(after, OfferIds, OfferRow)
           /\ DOMAIN after = DOMAIN os
           /\ \A o \in DOMAIN os : /\ after[o].listing = os[o].listing
                                   /\ after[o].buyer = os[o].buyer
                                   /\ after[o].quantity = os[o].quantity
                                   /\ after[o].status = IF o \in S THEN "rejected" ELSE os[o].status
BY DEF RejectOffers, IsTable, OfferRow

\* Reconciling a holding only ever takes publications down or makes them smaller.
LEMMA ReconcileRows ==
    ASSUME NEW ls, IsTable(ls, ListingIds, ListingRow), NEW h, NEW budget \in Int
    PROVE  LET after == ReconciledListings(ls, h, budget) IN
           /\ IsTable(after, ListingIds, ListingRow)
           /\ DOMAIN after = DOMAIN ls
           /\ \A l \in DOMAIN ls : /\ after[l].seller = ls[l].seller
                                   /\ after[l].holding = ls[l].holding
                                   /\ after[l].expired = ls[l].expired
                                   /\ after[l].active => ls[l].active
                                   /\ after[l].quantity <= ls[l].quantity
<1>. DEFINE after == ReconciledListings(ls, h, budget)
<1>1. ASSUME NEW l \in DOMAIN ls
      PROVE  Granted(ls, h, budget, l) \in Grams /\ Granted(ls, h, budget, l) <= ls[l].quantity
    <2>1. IsFiniteSet(Ahead(ls, h, l))
        <3>1. Ahead(ls, h, l) \in SUBSET DOMAIN ls
            BY DEF Ahead, Published
        <3>. QED
            BY <3>1, FiniteTable, InventoryAssumption
    <2>2. SumQuantity(ls, Ahead(ls, h, l)) \in Nat
        BY <2>1, SumIsNat
    <2>3. ls[l].quantity \in 0..MaxGrams
        BY DEF IsTable, ListingRow, Grams
    <2>. QED
        BY <2>2, <2>3, MaxGramsAssumption DEF Granted, Least, Greatest, Grams
<1>2. ASSUME NEW l \in DOMAIN ls
      PROVE  /\ after[l] \in ListingRow
             /\ after[l].seller = ls[l].seller
             /\ after[l].holding = ls[l].holding
             /\ after[l].expired = ls[l].expired
             /\ after[l].active => ls[l].active
             /\ after[l].quantity <= ls[l].quantity
    <2>1. ls[l] \in ListingRow
        BY DEF IsTable
    <2>2. CASE l \in Published(ls, h)
        <3>. DEFINE g == Granted(ls, h, budget, l)
        <3>1. g \in Grams /\ g <= ls[l].quantity
            BY <1>1
        <3>2. after[l] = [ls[l] EXCEPT !.quantity = g, !.active = g > 0]
            BY <2>2 DEF ReconciledListings
        <3>3. (g > 0) \in BOOLEAN /\ ls[l].active
            BY <2>2 DEF Published
        <3>. HIDE DEF g, after
        <3>. QED
            BY <2>1, <3>1, <3>2, <3>3 DEF ListingRow
    <2>3. CASE l \notin Published(ls, h)
        BY <2>1, <2>3, MaxGramsAssumption DEF ReconciledListings, ListingRow, Grams
    <2>. QED
        BY <2>2, <2>3
<1>3. DOMAIN after = DOMAIN ls /\ after = [l \in DOMAIN ls |-> after[l]]
    BY DEF ReconciledListings
<1>. QED
    BY <1>2, <1>3 DEF IsTable

-----------------------------------------------------------------------------
(* The inductive invariant.                                                *)

(***************************************************************************)
(* The foreign keys of the schema: no operation deletes a row, so every    *)
(* reference resolves.  Without it "the holding of a listing" would mean   *)
(* nothing, and none of the invariants below would be inductive.           *)
(***************************************************************************)
ForeignKeys ==
    /\ \A l \in DOMAIN listings : listings[l].holding \in DOMAIN holdings
    /\ \A o \in DOMAIN offers : offers[o].listing \in DOMAIN listings
    /\ \A t \in DOMAIN transfers : transfers[t].holding \in DOMAIN holdings
    /\ \A o \in DOMAIN contracts : contracts[o].holding \in DOMAIN holdings
    /\ DOMAIN withdrawing \subseteq DOMAIN offers

IInv ==
    /\ TypeOK
    /\ ForeignKeys
    /\ CommittedForOneContract
    /\ ContractsMatchOffers
    /\ NothingPublishedUnderRecall

-----------------------------------------------------------------------------
(* What keeps each part of the invariant.                                  *)

\* The rows of holdings a step leaves behind: none is deleted and none changes batch.
HoldingsStay ==
    \A h \in DOMAIN holdings : h \in DOMAIN holdings' /\ holdings'[h].batch = holdings[h].batch

ListingsStay ==
    \A l \in DOMAIN listings : l \in DOMAIN listings' /\ listings'[l].seller = listings[l].seller

\* Offers keep their terms, and no step but acceptance makes one accepted.
OffersStay ==
    /\ \A o \in DOMAIN offers :
          /\ o \in DOMAIN offers'
          /\ offers'[o].listing = offers[o].listing
          /\ offers'[o].buyer = offers[o].buyer
          /\ offers'[o].quantity = offers[o].quantity
          /\ offers[o].status # "pending" => offers'[o].status = offers[o].status
    /\ \A o \in DOMAIN offers' :
          offers'[o].status = "accepted" => o \in DOMAIN offers /\ offers[o].status = "accepted"

\* Committed holdings are left alone by every step that leaves the contracts alone.
LEMMA CommittedKept ==
    ASSUME ForeignKeys, CommittedForOneContract, contracts' = contracts,
           \A h \in DOMAIN holdings : /\ h \in DOMAIN holdings'
                                      /\ holdings[h].status = "committed" => holdings'[h] = holdings[h],
           \A h \in DOMAIN holdings' : holdings'[h].status = "committed" =>
                                          h \in DOMAIN holdings /\ holdings[h].status = "committed"
    PROVE  CommittedForOneContract'
BY DEF ForeignKeys, CommittedForOneContract, SliceIntact

\* Contracts and accepted offers stay paired while offers keep their terms.
LEMMA MatchKept ==
    ASSUME ForeignKeys, ContractsMatchOffers, contracts' = contracts, OffersStay, ListingsStay
    PROVE  ContractsMatchOffers'
<1>1. DOMAIN contracts' = {o \in DOMAIN offers' : offers'[o].status = "accepted"}
    BY DEF ContractsMatchOffers, OffersStay
<1>2. ASSUME NEW o \in DOMAIN contracts
      PROVE  /\ contracts[o].listing = offers'[o].listing
             /\ contracts[o].buyer = offers'[o].buyer
             /\ contracts[o].quantity = offers'[o].quantity
             /\ contracts[o].seller = listings'[offers'[o].listing].seller
    BY DEF ContractsMatchOffers, OffersStay, ListingsStay, ForeignKeys
<1>. QED
    BY <1>1, <1>2 DEF ContractsMatchOffers

\* reconcileHoldingListings keeps both tables well formed, only takes publications down
\* and only rejects pending offers.
LEMMA ReconcileStep ==
    ASSUME TypeOK, NEW ls, IsTable(ls, ListingIds, ListingRow), NEW h, NEW budget \in Int,
           Reconcile(ls, offers, h, budget)
    PROVE  /\ IsTable(listings', ListingIds, ListingRow)
           /\ DOMAIN listings' = DOMAIN ls
           /\ \A l \in DOMAIN ls : /\ listings'[l].seller = ls[l].seller
                                   /\ listings'[l].holding = ls[l].holding
                                   /\ listings'[l].active => ls[l].active
           /\ IsTable(offers', OfferIds, OfferRow)
           /\ DOMAIN offers' = DOMAIN offers
           /\ OffersStay
<1>. DEFINE after == ReconciledListings(ls, h, budget)
            S == UncoveredOffers(offers, after, h)
<1>1. listings' = after /\ offers' = RejectOffers(offers, S)
    BY DEF Reconcile
<1>2. \A o \in S : offers[o].status = "pending"
    BY DEF UncoveredOffers
<1>3. IsTable(offers, OfferIds, OfferRow)
    BY DEF TypeOK
<1>. HIDE DEF after, S
<1>4. /\ IsTable(offers', OfferIds, OfferRow)
      /\ DOMAIN offers' = DOMAIN offers
      /\ \A o \in DOMAIN offers : /\ offers'[o].listing = offers[o].listing
                                  /\ offers'[o].buyer = offers[o].buyer
                                  /\ offers'[o].quantity = offers[o].quantity
                                  /\ offers'[o].status = IF o \in S THEN "rejected" ELSE offers[o].status
    BY <1>1, <1>3, RejectRows
<1>5. OffersStay
    BY <1>2, <1>4 DEF OffersStay
<1>6. /\ IsTable(after, ListingIds, ListingRow)
      /\ DOMAIN after = DOMAIN ls
      /\ \A l \in DOMAIN ls : /\ after[l].seller = ls[l].seller
                              /\ after[l].holding = ls[l].holding
                              /\ after[l].active => ls[l].active
    BY ReconcileRows DEF after
<1>. QED
    BY <1>1, <1>4, <1>5, <1>6

\* The stock requested for custody transfers of a holding is a natural number.
LEMMA PendingIsNat ==
    ASSUME TypeOK, NEW h
    PROVE  pendingTransferQuantity(h) \in Nat
<1>1. RequestedTransfers(h) \in SUBSET DOMAIN transfers
    BY DEF RequestedTransfers
<1>2. IsFiniteSet(RequestedTransfers(h))
    BY <1>1, FiniteTable, InventoryAssumption DEF TypeOK
<1>. QED
    BY <1>2, SumIsNat DEF pendingTransferQuantity

\* Steps that leave holdings and contracts alone, accept no offer and publish no held stock.
LEMMA PaperKept ==
    ASSUME IInv, TypeOK', UNCHANGED <<holdings, contracts>>, ListingsStay, OffersStay,
           \A l \in DOMAIN listings' : /\ listings'[l].holding \in DOMAIN holdings
                                       /\ holdings[listings'[l].holding].batch \in held' => ~listings'[l].active,
           \A o \in DOMAIN offers' : offers'[o].listing \in DOMAIN listings',
           \A t \in DOMAIN transfers' : transfers'[t].holding \in DOMAIN holdings,
           DOMAIN withdrawing' \subseteq DOMAIN offers'
    PROVE  IInv'
<1>1. ForeignKeys'
    BY DEF IInv, ForeignKeys
<1>2. CommittedForOneContract'
    BY CommittedKept DEF IInv
<1>3. ContractsMatchOffers'
    BY MatchKept DEF IInv
<1>4. NothingPublishedUnderRecall'
    BY DEF NothingPublishedUnderRecall
<1>. QED
    BY <1>1, <1>2, <1>3, <1>4 DEF IInv

-----------------------------------------------------------------------------
(* Init, and one lemma per group of operations.                            *)

\* Every table is empty at first.
LEMMA InitIInv == Init => IInv
<1>. SUFFICES ASSUME Init PROVE IInv
    OBVIOUS
<1>1. DOMAIN EmptyTable = {}
    BY DEF EmptyTable
<1>2. TypeOK
    BY <1>1 DEF Init, TypeOK, IsTable, EmptyTable
<1>. QED
    BY <1>1, <1>2 DEF Init, IInv, ForeignKeys, CommittedForOneContract, ContractsMatchOffers,
                      NothingPublishedUnderRecall

\* A publication created by NewListing of stock that is not under a recall.
LEMMA NewPublication ==
    ASSUME IInv, NEW l \in ListingIds \ DOMAIN listings, NEW h \in DOMAIN holdings,
           NEW org \in Orgs, NEW q \in 1..MaxGrams, holdings[h].batch \notin held,
           listings' = Insert(listings, l, NewListing(org, h, q)),
           UNCHANGED <<source, holdings, offers, transfers, contracts, held, withdrawing>>
    PROVE  IInv'
<1>1. NewListing(org, h, q) \in ListingRow
    BY MaxGramsAssumption DEF IInv, TypeOK, IsTable, NewListing, ListingRow, Grams
<1>2. /\ IsTable(listings', ListingIds, ListingRow)
      /\ DOMAIN listings' = DOMAIN listings \cup {l}
      /\ listings'[l] = NewListing(org, h, q)
      /\ \A x \in DOMAIN listings : listings'[x] = listings[x]
    BY <1>1 DEF IInv, TypeOK, Insert, IsTable
<1>3. TypeOK'
    BY <1>2 DEF IInv, TypeOK
<1>4. ListingsStay /\ OffersStay
    BY <1>2 DEF ListingsStay, OffersStay
<1>5. \A x \in DOMAIN listings' :
         /\ listings'[x].holding \in DOMAIN holdings
         /\ holdings[listings'[x].holding].batch \in held' => ~listings'[x].active
    <2>1. listings'[l].holding = h
        BY <1>2 DEF NewListing
    <2>2. \A x \in DOMAIN listings :
             /\ listings[x].holding \in DOMAIN holdings
             /\ holdings[listings[x].holding].batch \in held => ~listings[x].active
        BY DEF IInv, ForeignKeys, NothingPublishedUnderRecall
    <2>. QED
        BY <1>2, <2>1, <2>2
<1>. QED
    BY <1>2, <1>3, <1>4, <1>5, PaperKept DEF IInv, ForeignKeys

\* A new available holding, with no contract, disturbs nothing.
LEMMA NewFreeHolding ==
    ASSUME IInv, NEW h \in HoldingIds \ DOMAIN holdings, NEW row \in HoldingRow,
           row.status = "available",
           holdings' = Insert(holdings, h, row), TypeOK', 
           UNCHANGED <<listings, offers, transfers, contracts, held, withdrawing>>
    PROVE  IInv'
<1>1. /\ DOMAIN holdings' = DOMAIN holdings \cup {h}
      /\ holdings'[h] = row
      /\ \A x \in DOMAIN holdings : holdings'[x] = holdings[x]
    BY DEF IInv, TypeOK, Insert, IsTable
<1>2. ForeignKeys'
    BY <1>1 DEF IInv, ForeignKeys
<1>3. CommittedForOneContract'
    BY <1>1, CommittedKept DEF IInv
<1>4. ContractsMatchOffers'
    BY DEF IInv, ContractsMatchOffers
<1>5. NothingPublishedUnderRecall'
    BY <1>1 DEF IInv, ForeignKeys, NothingPublishedUnderRecall
<1>. QED
    BY <1>2, <1>3, <1>4, <1>5 DEF IInv

\* Registration and allocation of source stock.
LEMMA AllocateKeeps == IInv /\ AllocateStock => IInv'
<1>. SUFFICES ASSUME IInv, NEW b \in Batches, NEW q \in 1..MaxGrams, NEW h \in HoldingIds,
                     \/ \E org \in Orgs : registerBatch(b, org, q, h)
                     \/ createHolding(b, q, h)
                     \/ \E l \in ListingIds : publishBatchFromSource(b, q, h, l)
              PROVE  IInv'
    BY DEF AllocateStock
<1>1. source[b] \in SourceRow /\ source[b].holder \in Orgs
    BY DEF IInv, TypeOK, SourceRow
<1>2. ASSUME NEW org \in Orgs
      PROVE  NewHolding(b, org, q, "available") \in HoldingRow
    BY MaxGramsAssumption DEF NewHolding, HoldingRow, Grams
<1>3. ASSUME NEW org \in Orgs, registerBatch(b, org, q, h)
      PROVE  IInv'
    <2>1. [holder |-> org, quantity |-> q] \in SourceRow
        BY MaxGramsAssumption DEF SourceRow, Grams
    <2>2. source' \in [Batches -> SourceRow]
        BY <1>3, <2>1 DEF registerBatch, IInv, TypeOK
    <2>3. IsTable(holdings', HoldingIds, HoldingRow)
        BY <1>2, <1>3 DEF registerBatch, IInv, TypeOK, Insert, IsTable
    <2>4. TypeOK'
        BY <1>3, <2>2, <2>3 DEF registerBatch, IInv, TypeOK
    <2>. QED
        BY <1>2, <1>3, <2>4, NewFreeHolding DEF registerBatch, NewHolding
<1>4. CASE createHolding(b, q, h)
    <2>1. IsTable(holdings', HoldingIds, HoldingRow)
        BY <1>1, <1>2, <1>4 DEF createHolding, IInv, TypeOK, Insert, IsTable
    <2>2. TypeOK'
        BY <1>4, <2>1 DEF createHolding, IInv, TypeOK
    <2>. QED
        BY <1>1, <1>2, <1>4, <2>2, NewFreeHolding DEF createHolding, NewHolding
<1>5. ASSUME NEW l \in ListingIds, publishBatchFromSource(b, q, h, l)
      PROVE  IInv'
    <2>. DEFINE row == NewHolding(b, source[b].holder, q, "available")
                new == NewListing(source[b].holder, h, q)
    <2>1. row \in HoldingRow /\ row.batch = b /\ row.status = "available"
        BY <1>1, <1>2 DEF NewHolding
    <2>2. new \in ListingRow /\ new.holding = h /\ new.seller \in Orgs
        BY <1>1, MaxGramsAssumption DEF NewListing, ListingRow, Grams
    <2>3. /\ holdings' = Insert(holdings, h, row)
          /\ listings' = Insert(listings, l, new)
          /\ h \notin DOMAIN holdings /\ l \notin DOMAIN listings /\ b \notin held
          /\ UNCHANGED <<source, offers, transfers, contracts, held, withdrawing>>
        BY <1>5 DEF publishBatchFromSource
    <2>. HIDE DEF row, new
    <2>4. /\ IsTable(holdings', HoldingIds, HoldingRow)
          /\ DOMAIN holdings' = DOMAIN holdings \cup {h}
          /\ holdings'[h] = row
          /\ \A x \in DOMAIN holdings : holdings'[x] = holdings[x]
        BY <2>1, <2>3 DEF IInv, TypeOK, Insert, IsTable
    <2>5. /\ IsTable(listings', ListingIds, ListingRow)
          /\ DOMAIN listings' = DOMAIN listings \cup {l}
          /\ listings'[l] = new
          /\ \A x \in DOMAIN listings : listings'[x] = listings[x]
        <3>1. IsTable(listings, ListingIds, ListingRow)
            BY DEF IInv, TypeOK
        <3>. QED
            BY <2>2, <2>3, <3>1 DEF Insert, IsTable
    <2>6. TypeOK'
        BY <2>3, <2>4, <2>5 DEF IInv, TypeOK
    <2>7. ForeignKeys'
        BY <2>2, <2>3, <2>4, <2>5 DEF IInv, ForeignKeys
    <2>8. CommittedForOneContract'
        BY <2>1, <2>3, <2>4, CommittedKept DEF IInv
    <2>9. ContractsMatchOffers'
        BY <2>3, <2>5, MatchKept DEF IInv, OffersStay, ListingsStay
    <2>10. NothingPublishedUnderRecall'
        BY <2>1, <2>2, <2>3, <2>4, <2>5 DEF IInv, ForeignKeys, NothingPublishedUnderRecall
    <2>. QED
        BY <2>6, <2>7, <2>8, <2>9, <2>10 DEF IInv
<1>. QED
    BY <1>3, <1>4, <1>5

\* A listing that expires or is renewed keeps its stock and its publication.
LEMMA ExpiryRows ==
    ASSUME IInv, NEW l \in DOMAIN listings, NEW e \in BOOLEAN,
           listings' = [listings EXCEPT ![l].expired = e]
    PROVE  /\ IsTable(listings', ListingIds, ListingRow)
           /\ DOMAIN listings' = DOMAIN listings
           /\ \A x \in DOMAIN listings : /\ listings'[x].seller = listings[x].seller
                                         /\ listings'[x].holding = listings[x].holding
                                         /\ listings'[x].active = listings[x].active
<1>1. IsTable(listings, ListingIds, ListingRow)
    BY DEF IInv, TypeOK
<1>2. listings[l] \in ListingRow
    BY <1>1 DEF IsTable
<1>3. DOMAIN listings' = DOMAIN listings /\ \A x \in DOMAIN listings \ {l} : listings'[x] = listings[x]
    BY <1>1 DEF IsTable
<1>4. /\ listings'[l] \in ListingRow
      /\ listings'[l].seller = listings[l].seller
      /\ listings'[l].holding = listings[l].holding
      /\ listings'[l].active = listings[l].active
    BY <1>2, <1>3 DEF ListingRow
<1>5. IsTable(listings', ListingIds, ListingRow)
    BY <1>1, <1>3, <1>4 DEF IsTable
<1>. QED
    BY <1>3, <1>4, <1>5

\* reconcileHoldingListings after an edit of one listing: stock under a recall is not published by it.
LEMMA EditKept ==
    ASSUME IInv, NEW l \in DOMAIN listings, NEW q \in Grams, NEW active \in BOOLEAN,
           NEW ls, NEW budget \in Int,
           \/ ls = [listings EXCEPT ![l].quantity = q, ![l].active = active]
           \/ ls = [listings EXCEPT ![l].active = active],
           active => holdings[listings[l].holding].batch \notin held,
           Reconcile(ls, offers, listings[l].holding, budget),
           UNCHANGED <<source, holdings, transfers, contracts, held, withdrawing>>
    PROVE  IInv'
<1>1. /\ IsTable(ls, ListingIds, ListingRow)
      /\ DOMAIN ls = DOMAIN listings
      /\ \A x \in DOMAIN listings : /\ ls[x].seller = listings[x].seller
                                    /\ ls[x].holding = listings[x].holding
      /\ \A x \in DOMAIN listings \ {l} : ls[x].active = listings[x].active
      /\ ls[l].active = active
    <2>1. IsTable(listings, ListingIds, ListingRow)
        BY DEF IInv, TypeOK
    <2>2. listings[l] \in ListingRow
        BY <2>1 DEF IsTable
    <2>3. DOMAIN ls = DOMAIN listings /\ \A x \in DOMAIN listings \ {l} : ls[x] = listings[x]
        BY <2>1 DEF IsTable
    <2>4. /\ ls[l] \in ListingRow
          /\ ls[l].seller = listings[l].seller
          /\ ls[l].holding = listings[l].holding
          /\ ls[l].active = active
        BY <2>2, <2>3 DEF ListingRow
    <2>5. IsTable(ls, ListingIds, ListingRow)
        BY <2>1, <2>3, <2>4 DEF IsTable
    <2>. QED
        BY <2>3, <2>4, <2>5
<1>2. /\ IsTable(listings', ListingIds, ListingRow)
      /\ DOMAIN listings' = DOMAIN ls
      /\ \A x \in DOMAIN ls : /\ listings'[x].seller = ls[x].seller
                              /\ listings'[x].holding = ls[x].holding
                              /\ listings'[x].active => ls[x].active
      /\ IsTable(offers', OfferIds, OfferRow)
      /\ DOMAIN offers' = DOMAIN offers
      /\ OffersStay
    BY <1>1, ReconcileStep DEF IInv
<1>3. TypeOK'
    BY <1>2 DEF IInv, TypeOK
<1>4. ListingsStay
    BY <1>1, <1>2 DEF ListingsStay
<1>5. \A x \in DOMAIN listings' :
         /\ listings'[x].holding \in DOMAIN holdings
         /\ holdings[listings'[x].holding].batch \in held' => ~listings'[x].active
    BY <1>1, <1>2 DEF IInv, ForeignKeys, NothingPublishedUnderRecall
<1>6. \A o \in DOMAIN offers' : offers'[o].listing \in DOMAIN listings'
    BY <1>1, <1>2 DEF IInv, ForeignKeys, OffersStay
<1>. QED
    BY <1>2, <1>3, <1>4, <1>5, <1>6, PaperKept DEF IInv, ForeignKeys

\* Publishing, editing, renewing and withdrawing a listing.
LEMMA PublishKeeps == IInv /\ PublishStock => IInv'
<1>. SUFFICES ASSUME IInv, NEW l \in ListingIds,
                     \/ \E b \in Batches, q \in 1..MaxGrams : publishBatchFromHolding(b, q, l)
                     \/ \E h \in HoldingIds, q \in 1..MaxGrams : publishListing(h, q, l)
                     \/ \E q \in 1..MaxGrams, active \in BOOLEAN : editListing(l, q, active)
                     \/ withdrawListing(l)
                     \/ renewListing(l)
                     \/ expireListing(l)
              PROVE  IInv'
    BY DEF PublishStock
<1>. DEFINE h0 == listings[l].holding
            budget == holdings[h0].quantity - pendingTransferQuantity(h0)
<1>1. ASSUME l \in DOMAIN listings
      PROVE  budget \in Int
    <2>1. h0 \in DOMAIN holdings
        BY <1>1 DEF IInv, ForeignKeys
    <2>2. holdings[h0].quantity \in Int
        BY <2>1, MaxGramsAssumption DEF IInv, TypeOK, IsTable, HoldingRow, Grams
    <2>. QED
        BY <2>2, PendingIsNat DEF IInv
<1>2. ASSUME NEW b \in Batches, NEW q \in 1..MaxGrams, publishBatchFromHolding(b, q, l)
      PROVE  IInv'
    <2>1. PICK h \in OwnAvailable(b) : listings' = Insert(listings, l, NewListing(source[b].holder, h, q))
        BY <1>2 DEF publishBatchFromHolding
    <2>2. h \in DOMAIN holdings /\ holdings[h].batch = b /\ source[b].holder \in Orgs
        BY <2>1 DEF OwnAvailable, IInv, TypeOK, SourceRow
    <2>. QED
        BY <1>2, <2>1, <2>2, NewPublication DEF publishBatchFromHolding
<1>3. ASSUME NEW h \in HoldingIds, NEW q \in 1..MaxGrams, publishListing(h, q, l)
      PROVE  IInv'
    <2>1. h \in DOMAIN holdings /\ holdings[h].holder \in Orgs /\ holdings[h].batch \notin held
        BY <1>3 DEF publishListing, Tradable, IInv, TypeOK, IsTable, HoldingRow
    <2>. QED
        BY <1>3, <2>1, NewPublication DEF publishListing
<1>4. ASSUME NEW q \in 1..MaxGrams, NEW active \in BOOLEAN, editListing(l, q, active)
      PROVE  IInv'
    <2>1. q \in Grams /\ Editable(l)
        BY <1>4, MaxGramsAssumption DEF Grams, editListing
    <2>2. active => holdings[h0].batch \notin held
        BY <1>4 DEF editListing, Publishable
    <2>. QED
        BY <1>1, <1>4, <2>1, <2>2, EditKept DEF editListing, Editable
<1>5. CASE withdrawListing(l)
    <2>1. 0 \in Grams /\ l \in DOMAIN listings
        BY <1>5, MaxGramsAssumption DEF Grams, withdrawListing, Editable
    <2>. QED
        BY <1>1, <1>5, <2>1, EditKept DEF withdrawListing
<1>6. CASE expireListing(l)
    <2>1. l \in DOMAIN listings
        BY <1>6 DEF expireListing
    <2>2. /\ IsTable(listings', ListingIds, ListingRow)
          /\ DOMAIN listings' = DOMAIN listings
          /\ \A x \in DOMAIN listings : /\ listings'[x].seller = listings[x].seller
                                        /\ listings'[x].holding = listings[x].holding
                                        /\ listings'[x].active = listings[x].active
        BY <1>6, <2>1, ExpiryRows DEF expireListing
    <2>3. TypeOK'
        BY <1>6, <2>2 DEF expireListing, IInv, TypeOK
    <2>4. ListingsStay /\ OffersStay
        BY <1>6, <2>2 DEF expireListing, ListingsStay, OffersStay
    <2>. QED
        BY <1>6, <2>2, <2>3, <2>4, PaperKept
           DEF expireListing, IInv, ForeignKeys, NothingPublishedUnderRecall
<1>7. CASE renewListing(l)
    <2>1. l \in DOMAIN listings
        BY <1>7 DEF renewListing, Editable
    <2>2. /\ IsTable(listings', ListingIds, ListingRow)
          /\ DOMAIN listings' = DOMAIN listings
          /\ \A x \in DOMAIN listings : /\ listings'[x].seller = listings[x].seller
                                        /\ listings'[x].holding = listings[x].holding
                                        /\ listings'[x].active = listings[x].active
        BY <1>7, <2>1, ExpiryRows DEF renewListing
    <2>3. \A o \in PendingOn(offers, l) : offers[o].status = "pending"
        BY DEF PendingOn
    <2>4. /\ IsTable(offers', OfferIds, OfferRow)
          /\ DOMAIN offers' = DOMAIN offers
          /\ OffersStay
        BY <1>7, <2>3, RejectRows DEF renewListing, IInv, TypeOK, OffersStay
    <2>5. TypeOK'
        BY <1>7, <2>2, <2>4 DEF renewListing, IInv, TypeOK
    <2>6. ListingsStay
        BY <2>2 DEF ListingsStay
    <2>7. \A o \in DOMAIN offers' : offers'[o].listing \in DOMAIN listings'
        BY <2>2, <2>4 DEF IInv, ForeignKeys, OffersStay
    <2>. QED
        BY <1>7, <2>2, <2>4, <2>5, <2>6, <2>7, PaperKept
           DEF renewListing, IInv, ForeignKeys, NothingPublishedUnderRecall
<1>. QED
    BY <1>2, <1>3, <1>4, <1>5, <1>6, <1>7

\* Recall activation takes publications down; resolution only lifts the hold.
LEMMA RecallKeeps == IInv /\ RecallStock => IInv'
<1>. SUFFICES ASSUME IInv, NEW b \in Batches, activateRecall(b) \/ resolveRecall(b)
              PROVE  IInv'
    BY DEF RecallStock
<1>1. CASE activateRecall(b)
    <2>1. IsTable(listings, ListingIds, ListingRow)
        BY DEF IInv, TypeOK
    <2>2. DOMAIN listings' = DOMAIN listings
        BY <1>1 DEF activateRecall
    <2>3. ASSUME NEW l \in DOMAIN listings
          PROVE  /\ listings'[l] \in ListingRow
                 /\ listings'[l].seller = listings[l].seller
                 /\ listings'[l].holding = listings[l].holding
                 /\ listings'[l].active => listings[l].active /\ holdings[listings[l].holding].batch # b
        <3>. DEFINE on == listings[l].active /\ holdings[listings[l].holding].batch # b
        <3>1. listings'[l] = [listings[l] EXCEPT !.active = on]
            BY <1>1 DEF activateRecall
        <3>2. listings[l] \in ListingRow /\ on \in BOOLEAN
            BY <2>1 DEF IsTable
        <3>3. on => listings[l].active /\ holdings[listings[l].holding].batch # b
            OBVIOUS
        <3>. HIDE DEF on
        <3>. QED
            BY <3>1, <3>2, <3>3 DEF ListingRow
    <2>4. IsTable(listings', ListingIds, ListingRow)
        <3>1. listings' = [l \in DOMAIN listings |-> listings'[l]]
            BY <1>1 DEF activateRecall
        <3>. QED
            BY <2>1, <2>2, <2>3, <3>1 DEF IsTable
    <2>5. TypeOK'
        BY <1>1, <2>4 DEF activateRecall, IInv, TypeOK
    <2>6. ListingsStay /\ OffersStay
        BY <1>1, <2>2, <2>3 DEF activateRecall, ListingsStay, OffersStay
    <2>7. \A l \in DOMAIN listings' :
             /\ listings'[l].holding \in DOMAIN holdings
             /\ holdings[listings'[l].holding].batch \in held' => ~listings'[l].active
        BY <1>1, <2>2, <2>3 DEF activateRecall, IInv, ForeignKeys, NothingPublishedUnderRecall
    <2>. QED
        BY <1>1, <2>2, <2>5, <2>6, <2>7, PaperKept DEF activateRecall, IInv, ForeignKeys
<1>2. CASE resolveRecall(b)
    <2>1. TypeOK'
        BY <1>2 DEF resolveRecall, IInv, TypeOK
    <2>2. ListingsStay /\ OffersStay
        BY <1>2 DEF resolveRecall, ListingsStay, OffersStay
    <2>3. \A l \in DOMAIN listings' :
             /\ listings'[l].holding \in DOMAIN holdings
             /\ holdings[listings'[l].holding].batch \in held' => ~listings'[l].active
        BY <1>2 DEF resolveRecall, IInv, ForeignKeys, NothingPublishedUnderRecall
    <2>. QED
        BY <1>2, <2>1, <2>2, <2>3, PaperKept DEF resolveRecall, IInv, ForeignKeys
<1>. QED
    BY <1>1, <1>2

\* Steps on offers alone: a new one, a decision that is not acceptance, a withdrawal in flight.
LEMMA OffersKept ==
    ASSUME IInv, UNCHANGED <<source, holdings, listings, transfers, contracts, held>>,
           IsTable(offers', OfferIds, OfferRow), IsTable(withdrawing', OfferIds, HoldingIds),
           OffersStay, \A o \in DOMAIN offers' : offers'[o].listing \in DOMAIN listings,
           DOMAIN withdrawing' \subseteq DOMAIN offers'
    PROVE  IInv'
<1>1. TypeOK'
    BY DEF IInv, TypeOK
<1>2. ListingsStay
    BY DEF ListingsStay
<1>. QED
    BY <1>1, <1>2, PaperKept DEF IInv, ForeignKeys, NothingPublishedUnderRecall

\* A pending offer that lapses, is rejected or is withdrawn keeps its terms.
LEMMA OfferRows ==
    ASSUME IInv, NEW o \in DOMAIN offers, offers[o].status = "pending",
           \/ offers' = [offers EXCEPT ![o].status = "rejected"]
           \/ offers' = [offers EXCEPT ![o].status = "cancelled"]
           \/ offers' = [offers EXCEPT ![o].lapsed = TRUE]
    PROVE  /\ IsTable(offers', OfferIds, OfferRow)
           /\ DOMAIN offers' = DOMAIN offers
           /\ OffersStay
           /\ \A x \in DOMAIN offers' : offers'[x].listing \in DOMAIN listings
<1>1. IsTable(offers, OfferIds, OfferRow)
    BY DEF IInv, TypeOK
<1>2. offers[o] \in OfferRow
    BY <1>1 DEF IsTable
<1>3. DOMAIN offers' = DOMAIN offers /\ \A x \in DOMAIN offers \ {o} : offers'[x] = offers[x]
    BY <1>1 DEF IsTable
<1>4. /\ offers'[o] \in OfferRow
      /\ offers'[o].listing = offers[o].listing
      /\ offers'[o].buyer = offers[o].buyer
      /\ offers'[o].quantity = offers[o].quantity
      /\ offers'[o].status # "accepted"
    <2>1. \/ offers'[o] = [offers[o] EXCEPT !.status = "rejected"]
          \/ offers'[o] = [offers[o] EXCEPT !.status = "cancelled"]
          \/ offers'[o] = [offers[o] EXCEPT !.lapsed = TRUE]
        BY <1>1 DEF IsTable
    <2>2. CASE offers'[o] = [offers[o] EXCEPT !.status = "rejected"]
        BY <1>2, <2>2 DEF OfferRow
    <2>3. CASE offers'[o] = [offers[o] EXCEPT !.status = "cancelled"]
        BY <1>2, <2>3 DEF OfferRow
    <2>4. CASE offers'[o] = [offers[o] EXCEPT !.lapsed = TRUE]
        BY <1>2, <2>4 DEF OfferRow
    <2>. QED
        BY <2>1, <2>2, <2>3, <2>4
<1>5. IsTable(offers', OfferIds, OfferRow)
    BY <1>1, <1>3, <1>4 DEF IsTable
<1>6. OffersStay
    BY <1>3, <1>4 DEF OffersStay
<1>. QED
    BY <1>3, <1>4, <1>5, <1>6 DEF IInv, ForeignKeys

\* Making, rejecting, lapsing and withdrawing offers.
LEMMA OffersKeep ==
    ASSUME IInv, NEW o \in OfferIds,
           \/ \E l \in ListingIds, buyer \in Orgs, q \in 1..MaxGrams : createTradeOffer(l, buyer, q, o)
           \/ rejectTradeOffer(o) \/ discoverWithdrawal(o) \/ withdrawTradeOffer(o) \/ lapseOffer(o)
    PROVE  IInv'
<1>1. ASSUME NEW l \in ListingIds, NEW buyer \in Orgs, NEW q \in 1..MaxGrams,
             createTradeOffer(l, buyer, q, o)
      PROVE  IInv'
    <2>. DEFINE row == [listing |-> l, buyer |-> buyer, quantity |-> q, lapsed |-> FALSE, status |-> "pending"]
    <2>1. row \in OfferRow
        BY MaxGramsAssumption DEF OfferRow, Grams
    <2>2. offers' = Insert(offers, o, row) /\ o \notin DOMAIN offers /\ l \in DOMAIN listings
        BY <1>1 DEF createTradeOffer
    <2>3. row.status = "pending" /\ row.listing = l
        OBVIOUS
    <2>. HIDE DEF row
    <2>4. /\ IsTable(offers', OfferIds, OfferRow)
          /\ DOMAIN offers' = DOMAIN offers \cup {o}
          /\ offers'[o] = row
          /\ \A x \in DOMAIN offers : offers'[x] = offers[x]
        BY <2>1, <2>2 DEF IInv, TypeOK, Insert, IsTable
    <2>5. OffersStay
        BY <2>2, <2>3, <2>4 DEF OffersStay
    <2>6. \A x \in DOMAIN offers' : offers'[x].listing \in DOMAIN listings
        BY <2>2, <2>3, <2>4 DEF IInv, ForeignKeys
    <2>. QED
        BY <1>1, <2>4, <2>5, <2>6, OffersKept DEF createTradeOffer, IInv, TypeOK, ForeignKeys
<1>2. CASE rejectTradeOffer(o) \/ lapseOffer(o)
    <2>1. o \in DOMAIN offers /\ offers[o].status = "pending"
        BY <1>2 DEF rejectTradeOffer, lapseOffer
    <2>2. /\ IsTable(offers', OfferIds, OfferRow)
          /\ DOMAIN offers' = DOMAIN offers
          /\ OffersStay
          /\ \A x \in DOMAIN offers' : offers'[x].listing \in DOMAIN listings
        BY <1>2, <2>1, OfferRows DEF rejectTradeOffer, lapseOffer
    <2>. QED
        BY <1>2, <2>2, OffersKept DEF rejectTradeOffer, lapseOffer, IInv, TypeOK, ForeignKeys
<1>3. CASE discoverWithdrawal(o)
    <2>1. offers[o].listing \in ListingIds /\ listings[offers[o].listing].holding \in HoldingIds
        BY <1>3 DEF discoverWithdrawal, IInv, TypeOK, IsTable, OfferRow, ListingRow, ForeignKeys
    <2>2. IsTable(withdrawing', OfferIds, HoldingIds) /\ DOMAIN withdrawing' \subseteq DOMAIN offers
        BY <1>3, <2>1 DEF discoverWithdrawal, IInv, TypeOK, ForeignKeys, Insert, IsTable
    <2>3. OffersStay
        BY <1>3 DEF discoverWithdrawal, OffersStay
    <2>. QED
        BY <1>3, <2>2, <2>3, OffersKept DEF discoverWithdrawal, IInv, TypeOK, ForeignKeys
<1>4. CASE withdrawTradeOffer(o)
    <2>1. IsTable(withdrawing', OfferIds, HoldingIds) /\ DOMAIN withdrawing' \subseteq DOMAIN offers
        BY <1>4 DEF withdrawTradeOffer, IInv, TypeOK, ForeignKeys, IsTable
    <2>2. o \in DOMAIN offers
        BY <1>4 DEF withdrawTradeOffer, IInv, ForeignKeys
    <2>3. /\ IsTable(offers', OfferIds, OfferRow)
          /\ DOMAIN offers' = DOMAIN offers
          /\ OffersStay
          /\ \A x \in DOMAIN offers' : offers'[x].listing \in DOMAIN listings
        <3>1. CASE Withdrawable(o)
            BY <1>4, <2>2, <3>1, OfferRows DEF withdrawTradeOffer, Withdrawable
        <3>2. CASE ~Withdrawable(o)
            BY <1>4, <3>2 DEF withdrawTradeOffer, IInv, TypeOK, ForeignKeys, OffersStay
        <3>. QED
            BY <3>1, <3>2
    <2>. QED
        BY <1>4, <2>1, <2>3, OffersKept DEF withdrawTradeOffer
<1>. QED
    BY <1>1, <1>2, <1>3, <1>4

\* Stock leaves an available holding for new available ones, and its listings are reconciled.
LEMMA StockMoved ==
    ASSUME IInv, NEW h \in DOMAIN holdings, holdings[h].status = "available", NEW budget \in Int,
           IsTable(holdings', HoldingIds, HoldingRow), HoldingsStay,
           \A x \in DOMAIN holdings \ {h} : holdings'[x] = holdings[x],
           \A x \in DOMAIN holdings' \ (DOMAIN holdings \ {h}) : holdings'[x].status # "committed",
           IsTable(transfers', TransferIds, TransferRow),
           \A t \in DOMAIN transfers' : transfers'[t].holding \in DOMAIN holdings,
           Reconcile(listings, offers, h, budget),
           UNCHANGED <<source, contracts, held, withdrawing>>
    PROVE  IInv'
<1>1. /\ IsTable(listings', ListingIds, ListingRow)
      /\ DOMAIN listings' = DOMAIN listings
      /\ \A l \in DOMAIN listings : /\ listings'[l].seller = listings[l].seller
                                    /\ listings'[l].holding = listings[l].holding
                                    /\ listings'[l].active => listings[l].active
      /\ IsTable(offers', OfferIds, OfferRow)
      /\ DOMAIN offers' = DOMAIN offers
      /\ OffersStay
    BY ReconcileStep DEF IInv, TypeOK
<1>2. TypeOK'
    BY <1>1 DEF IInv, TypeOK
<1>3. ForeignKeys'
    BY <1>1 DEF IInv, ForeignKeys, HoldingsStay, OffersStay
<1>4. CommittedForOneContract'
    BY CommittedKept DEF IInv, HoldingsStay
<1>5. ContractsMatchOffers'
    BY <1>1, MatchKept DEF IInv, ListingsStay
<1>6. NothingPublishedUnderRecall'
    BY <1>1 DEF IInv, ForeignKeys, NothingPublishedUnderRecall, HoldingsStay
<1>. QED
    BY <1>2, <1>3, <1>4, <1>5, <1>6 DEF IInv

\* Custody transfers, and splits of a holding.
LEMMA MoveKeeps == IInv /\ MoveStock => IInv'
<1>. SUFFICES ASSUME IInv, MoveStock PROVE IInv'
    OBVIOUS
<1>. USE MaxGramsAssumption
<1>1. ASSUME NEW h \in DOMAIN holdings
      PROVE  /\ holdings[h] \in HoldingRow
             /\ holdings[h].quantity \in Grams
             /\ pendingTransferQuantity(h) \in Nat
    BY PendingIsNat DEF IInv, TypeOK, IsTable, HoldingRow
<1>2. ASSUME NEW h \in HoldingIds, NEW to \in Orgs, NEW q \in 1..MaxGrams, NEW t \in TransferIds,
             transferHolding(h, to, q, t)
      PROVE  IInv'
    <2>. DEFINE row == [holding |-> h, from |-> holdings[h].holder, to |-> to,
                        quantity |-> q, status |-> "requested"]
                budget == holdings[h].quantity - pendingTransferQuantity(h) - q
    <2>1. /\ h \in DOMAIN holdings /\ holdings[h].status = "available"
          /\ transfers' = Insert(transfers, t, row)
          /\ Reconcile(listings, offers, h, budget)
          /\ UNCHANGED <<source, holdings, contracts, held, withdrawing>>
        BY <1>2 DEF transferHolding, Tradable
    <2>2. row \in TransferRow /\ row.holding = h
        BY <1>1, <2>1 DEF TransferRow, HoldingRow, Grams
    <2>3. budget \in Int
        BY <1>1, <2>1 DEF Grams
    <2>. HIDE DEF row, budget
    <2>4. /\ IsTable(transfers', TransferIds, TransferRow)
          /\ \A x \in DOMAIN transfers' : transfers'[x].holding \in DOMAIN holdings
        BY <2>1, <2>2 DEF IInv, TypeOK, ForeignKeys, Insert, IsTable
    <2>5. HoldingsStay /\ IsTable(holdings', HoldingIds, HoldingRow)
        BY <2>1 DEF HoldingsStay, IInv, TypeOK
    <2>. QED
        BY <2>1, <2>3, <2>4, <2>5, StockMoved
<1>3. ASSUME NEW t \in TransferIds, NEW n \in HoldingIds, acceptTransfer(t, n)
      PROVE  IInv'
    <2>. DEFINE h == transfers[t].holding
                q == transfers[t].quantity
                reserved == SumQuantity(transfers, RequestedTransfers(h) \ {t})
                row == NewHolding(holdings[h].batch, transfers[t].to, q, "available")
                budget == holdings[h].quantity - q - reserved
    <2>1. /\ t \in DOMAIN transfers /\ n \notin DOMAIN holdings
          /\ holdings[h].status = "available"
          /\ q > 0 /\ q <= holdings[h].quantity - reserved
          /\ holdings' = Insert(TakeFrom(h, q), n, row)
          /\ transfers' = [transfers EXCEPT ![t].status = "accepted"]
          /\ Reconcile(listings, offers, h, budget)
          /\ UNCHANGED <<source, contracts, held, withdrawing>>
        BY <1>3 DEF acceptTransfer, Tradable
    <2>2. h \in DOMAIN holdings /\ transfers[t] \in TransferRow
        BY <2>1 DEF IInv, TypeOK, ForeignKeys, IsTable
    <2>3. reserved \in Nat
        <3>1. RequestedTransfers(h) \ {t} \in SUBSET DOMAIN transfers
            BY DEF RequestedTransfers
        <3>2. IsFiniteSet(RequestedTransfers(h) \ {t})
            BY <3>1, FiniteTable, InventoryAssumption DEF IInv, TypeOK
        <3>. QED
            BY <3>2, SumIsNat
    <2>4. q \in Grams /\ transfers[t].to \in Orgs
        BY <2>2 DEF TransferRow
    <2>5. row \in HoldingRow /\ row.status = "available"
        BY <1>1, <2>2, <2>4 DEF NewHolding, HoldingRow
    <2>6. budget \in Int
        BY <1>1, <2>2, <2>3, <2>4 DEF Grams
    <2>7. q <= holdings[h].quantity
        BY <1>1, <2>1, <2>2, <2>3, <2>4 DEF Grams
    <2>8. /\ IsTable(transfers', TransferIds, TransferRow)
          /\ \A x \in DOMAIN transfers' : transfers'[x].holding \in DOMAIN holdings
        <3>1. IsTable(transfers, TransferIds, TransferRow)
            BY DEF IInv, TypeOK
        <3>2. transfers'[t] = [transfers[t] EXCEPT !.status = "accepted"]
            BY <2>1, <3>1 DEF IsTable
        <3>3. transfers'[t] \in TransferRow /\ transfers'[t].holding = h
            BY <2>2, <3>2 DEF TransferRow
        <3>. QED
            BY <2>1, <3>1, <3>3 DEF IsTable, IInv, ForeignKeys
    <2>. HIDE DEF h, q, reserved, row, budget
    <2>9. /\ IsTable(TakeFrom(h, q), HoldingIds, HoldingRow)
          /\ DOMAIN TakeFrom(h, q) = DOMAIN holdings
          /\ TakeFrom(h, q)[h].batch = holdings[h].batch
          /\ TakeFrom(h, q)[h].status # "committed"
          /\ \A x \in DOMAIN holdings \ {h} : TakeFrom(h, q)[x] = holdings[x]
        <3>1. IsTable(holdings, HoldingIds, HoldingRow)
            BY DEF IInv, TypeOK
        <3>2. CASE q = holdings[h].quantity
            BY <1>1, <2>2, <3>1, <3>2 DEF TakeFrom, IsTable, HoldingRow
        <3>3. CASE q # holdings[h].quantity
            <4>1. holdings[h].quantity - q \in Grams
                BY <1>1, <2>2, <2>4, <2>7 DEF Grams
            <4>. QED
                BY <1>1, <2>1, <2>2, <3>1, <3>3, <4>1 DEF TakeFrom, IsTable, HoldingRow
        <3>. QED
            BY <3>2, <3>3
    <2>10. /\ IsTable(holdings', HoldingIds, HoldingRow)
           /\ HoldingsStay
           /\ \A x \in DOMAIN holdings \ {h} : holdings'[x] = holdings[x]
           /\ \A x \in DOMAIN holdings' \ (DOMAIN holdings \ {h}) : holdings'[x].status # "committed"
        BY <2>1, <2>2, <2>5, <2>9 DEF HoldingsStay, Insert, IsTable
    <2>. QED
        BY <2>1, <2>2, <2>6, <2>8, <2>10, StockMoved
<1>4. ASSUME NEW h \in HoldingIds, NEW m \in HoldingIds, NEW n \in HoldingIds, NEW q \in 1..MaxGrams,
             splitHolding(h, q, m, n)
      PROVE  IInv'
    <2>. DEFINE part(x) == NewHolding(holdings[h].batch, holdings[h].holder, x, "available")
                gone == [holdings EXCEPT ![h].status = "transferred"]
                rest == holdings[h].quantity - q
    <2>1. /\ h \in DOMAIN holdings /\ m \notin DOMAIN holdings /\ n \notin DOMAIN holdings
          /\ holdings[h].status = "available"
          /\ q < holdings[h].quantity
          /\ holdings' = Insert(Insert(gone, m, part(q)), n, part(rest))
          /\ Reconcile(listings, offers, h, 0)
          /\ UNCHANGED <<source, transfers, contracts, held, withdrawing>>
        BY <1>4 DEF splitHolding, Tradable
    <2>2. q \in Grams /\ rest \in Grams
        BY <1>1, <2>1 DEF Grams
    <2>3. /\ part(q) \in HoldingRow /\ part(q).status = "available"
          /\ part(rest) \in HoldingRow /\ part(rest).status = "available"
        BY <1>1, <2>1, <2>2 DEF NewHolding, HoldingRow
    <2>4. /\ IsTable(gone, HoldingIds, HoldingRow)
          /\ DOMAIN gone = DOMAIN holdings
          /\ gone[h].batch = holdings[h].batch
          /\ gone[h].status # "committed"
          /\ \A x \in DOMAIN holdings \ {h} : gone[x] = holdings[x]
        BY <1>1, <2>1 DEF IInv, TypeOK, IsTable, HoldingRow
    <2>. HIDE DEF part, gone, rest
    <2>5. /\ IsTable(holdings', HoldingIds, HoldingRow)
          /\ HoldingsStay
          /\ \A x \in DOMAIN holdings \ {h} : holdings'[x] = holdings[x]
          /\ \A x \in DOMAIN holdings' \ (DOMAIN holdings \ {h}) : holdings'[x].status # "committed"
        BY <2>1, <2>3, <2>4 DEF HoldingsStay, Insert, IsTable
    <2>6. /\ IsTable(transfers', TransferIds, TransferRow)
          /\ \A x \in DOMAIN transfers' : transfers'[x].holding \in DOMAIN holdings
        BY <2>1 DEF IInv, TypeOK, ForeignKeys
    <2>. QED
        BY <2>1, <2>5, <2>6, StockMoved
<1>. QED
    BY <1>2, <1>3, <1>4 DEF MoveStock

(***************************************************************************)
(* Closing a contract frees its slice: the contract was the only open one  *)
(* for the holding, so no other contract loses its stock.                  *)
(***************************************************************************)
LEMMA ContractClosed ==
    ASSUME IInv, NEW o \in DOMAIN contracts, SliceIntact(o), NEW org \in Orgs,
           NEW end \in {"settled", "cancelled"},
           contracts' = [contracts EXCEPT ![o].status = end],
           \/ holdings' = [holdings EXCEPT ![contracts[o].holding].holder = org,
                                           ![contracts[o].holding].status = "available"]
           \/ holdings' = [holdings EXCEPT ![contracts[o].holding].status = "available"],
           IsTable(transfers', TransferIds, TransferRow),
           \A t \in DOMAIN transfers' : transfers'[t].holding \in DOMAIN holdings,
           UNCHANGED <<source, listings, offers, held, withdrawing>>
    PROVE  IInv'
<1>. DEFINE h == contracts[o].holding
<1>1. h \in DOMAIN holdings /\ contracts[o].status = "open"
    BY DEF IInv, ForeignKeys, SliceIntact
<1>2. /\ IsTable(holdings, HoldingIds, HoldingRow)
      /\ IsTable(contracts, OfferIds, ContractRow)
    BY DEF IInv, TypeOK
<1>3. holdings[h] \in HoldingRow /\ contracts[o] \in ContractRow
    BY <1>1, <1>2 DEF IsTable
<1>4. /\ DOMAIN holdings' = DOMAIN holdings
      /\ \A x \in DOMAIN holdings \ {h} : holdings'[x] = holdings[x]
    BY <1>2 DEF IsTable
<1>5. /\ holdings'[h] \in HoldingRow
      /\ holdings'[h].batch = holdings[h].batch
      /\ holdings'[h].status = "available"
    <2>1. \/ holdings'[h] = [holdings[h] EXCEPT !.holder = org, !.status = "available"]
          \/ holdings'[h] = [holdings[h] EXCEPT !.status = "available"]
        BY <1>1, <1>2 DEF IsTable
    <2>2. CASE holdings'[h] = [holdings[h] EXCEPT !.holder = org, !.status = "available"]
        BY <1>3, <2>2 DEF HoldingRow
    <2>3. CASE holdings'[h] = [holdings[h] EXCEPT !.status = "available"]
        BY <1>3, <2>3 DEF HoldingRow
    <2>. QED
        BY <2>1, <2>2, <2>3
<1>6. IsTable(holdings', HoldingIds, HoldingRow)
    BY <1>2, <1>4, <1>5 DEF IsTable
<1>7. /\ DOMAIN contracts' = DOMAIN contracts
      /\ \A x \in DOMAIN contracts \ {o} : contracts'[x] = contracts[x]
      /\ contracts'[o] = [contracts[o] EXCEPT !.status = end]
    BY <1>2 DEF IsTable
<1>8. /\ contracts'[o] \in ContractRow
      /\ contracts'[o].status # "open"
      /\ contracts'[o].listing = contracts[o].listing
      /\ contracts'[o].holding = contracts[o].holding
      /\ contracts'[o].buyer = contracts[o].buyer
      /\ contracts'[o].seller = contracts[o].seller
      /\ contracts'[o].quantity = contracts[o].quantity
    BY <1>3, <1>7 DEF ContractRow
<1>9. IsTable(contracts', OfferIds, ContractRow)
    BY <1>2, <1>7, <1>8 DEF IsTable
<1>10. TypeOK'
    BY <1>6, <1>9 DEF IInv, TypeOK
<1>11. ForeignKeys'
    BY <1>4, <1>7, <1>8 DEF IInv, ForeignKeys
<1>12. ContractsMatchOffers'
    BY <1>7, <1>8 DEF IInv, ContractsMatchOffers
<1>13. NothingPublishedUnderRecall'
    BY <1>4, <1>5 DEF IInv, ForeignKeys, NothingPublishedUnderRecall
<1>14. CommittedForOneContract'
    <2>1. ASSUME NEW x \in DOMAIN contracts', contracts'[x].status = "open"
          PROVE  x # o /\ contracts'[x] = contracts[x] /\ x \in DOMAIN contracts /\ contracts[x].holding # h
        BY <1>1, <1>7, <1>8, <2>1 DEF IInv, CommittedForOneContract
    <2>2. ASSUME NEW x \in DOMAIN contracts', contracts'[x].status = "open"
          PROVE  SliceIntact(x)'
        <3>1. SliceIntact(x) /\ contracts[x].holding \in DOMAIN holdings
            BY <2>1, <2>2 DEF IInv, CommittedForOneContract, ForeignKeys
        <3>. QED
            BY <1>4, <2>1, <2>2, <3>1 DEF SliceIntact
    <2>3. ASSUME NEW g \in DOMAIN holdings', holdings'[g].status = "committed"
          PROVE  \E x \in DOMAIN contracts' : contracts'[x].status = "open" /\ contracts'[x].holding = g
        <3>1. g # h /\ g \in DOMAIN holdings /\ holdings[g].status = "committed"
            BY <1>4, <1>5, <2>3
        <3>2. PICK x \in DOMAIN contracts : contracts[x].status = "open" /\ contracts[x].holding = g
            BY <3>1 DEF IInv, CommittedForOneContract
        <3>. QED
            BY <1>7, <3>1, <3>2
    <2>4. ASSUME NEW x \in DOMAIN contracts', NEW y \in DOMAIN contracts',
                 contracts'[x].status = "open", contracts'[y].status = "open",
                 contracts'[x].holding = contracts'[y].holding
          PROVE  x = y
        BY <2>1, <2>4 DEF IInv, CommittedForOneContract
    <2>. QED
        BY <2>2, <2>3, <2>4 DEF CommittedForOneContract
<1>. QED
    BY <1>10, <1>11, <1>12, <1>13, <1>14 DEF IInv

\* Settlement and cancellation of a contract.
LEMMA CloseKeeps == IInv /\ CloseContracts => IInv'
<1>. SUFFICES ASSUME IInv, NEW o \in OfferIds,
                     \/ \E t \in TransferIds : completeTrade(o, t)
                     \/ approveCancellation(o)
              PROVE  IInv'
    BY DEF CloseContracts
<1>1. ASSUME NEW t \in TransferIds, completeTrade(o, t)
      PROVE  IInv'
    <2>. DEFINE c == contracts[o]
                row == [holding |-> c.holding, from |-> c.seller, to |-> c.buyer,
                        quantity |-> c.quantity, status |-> "accepted"]
    <2>1. /\ o \in DOMAIN contracts /\ SliceIntact(o)
          /\ transfers' = transfers \/ transfers' = Insert(transfers, t, row)
          /\ holdings' = [holdings EXCEPT ![c.holding].holder = c.buyer, ![c.holding].status = "available"]
          /\ contracts' = [contracts EXCEPT ![o].status = "settled"]
          /\ UNCHANGED <<source, listings, offers, held, withdrawing>>
        BY <1>1 DEF completeTrade
    <2>2. contracts[o] \in ContractRow /\ c.holding \in DOMAIN holdings
        BY <2>1 DEF IInv, TypeOK, IsTable, ForeignKeys
    <2>3. row \in TransferRow /\ row.holding = c.holding /\ c.buyer \in Orgs
        BY <2>2 DEF TransferRow, ContractRow
    <2>. HIDE DEF row
    <2>4. /\ IsTable(transfers', TransferIds, TransferRow)
          /\ \A x \in DOMAIN transfers' : transfers'[x].holding \in DOMAIN holdings
        BY <2>1, <2>2, <2>3 DEF IInv, TypeOK, ForeignKeys, Insert, IsTable
    <2>. QED
        BY <2>1, <2>3, <2>4, ContractClosed
<1>2. CASE approveCancellation(o)
    <2>1. o \in DOMAIN contracts /\ SliceIntact(o)
        BY <1>2 DEF approveCancellation, InventorySafe
    <2>2. contracts[o].buyer \in Orgs
        BY <2>1 DEF IInv, TypeOK, IsTable, ContractRow
    <2>. QED
        BY <1>2, <2>1, <2>2, ContractClosed DEF approveCancellation, IInv, TypeOK, ForeignKeys
<1>. QED
    BY <1>1, <1>2

-----------------------------------------------------------------------------
(* Acceptance: the one step that commits stock.                            *)

\* The committed slice, whether it is split off or is the whole holding.
LEMMA SliceCommitted ==
    ASSUME IInv, NEW h \in DOMAIN holdings, NEW c \in HoldingIds, NEW q \in Grams,
           q <= holdings[h].quantity, holdings[h].status = "available", CommitHolding(h, c, q)
    PROVE  /\ IsTable(holdings', HoldingIds, HoldingRow)
           /\ HoldingsStay
           /\ c \in DOMAIN holdings'
           /\ DOMAIN holdings' = DOMAIN holdings \cup {c}
           /\ holdings'[c].status = "committed"
           /\ holdings'[c].holder = holdings[h].holder
           /\ holdings'[c].quantity = q
           /\ c \in DOMAIN holdings => c = h
           /\ c # h => holdings'[h].status = "available"
           /\ \A x \in DOMAIN holdings \ {h, c} : holdings'[x] = holdings[x]
<1>. USE MaxGramsAssumption
<1>1. IsTable(holdings, HoldingIds, HoldingRow) /\ holdings[h] \in HoldingRow
    BY DEF IInv, TypeOK, IsTable
<1>2. CASE q < holdings[h].quantity
    <2>. DEFINE cut == [holdings EXCEPT ![h].quantity = @ - q]
                row == NewHolding(holdings[h].batch, holdings[h].holder, q, "committed")
    <2>1. c \notin DOMAIN holdings /\ holdings' = Insert(cut, c, row)
        BY <1>2 DEF CommitHolding
    <2>2. holdings[h].quantity - q \in Grams
        BY <1>1, <1>2 DEF HoldingRow, Grams
    <2>3. /\ IsTable(cut, HoldingIds, HoldingRow)
          /\ DOMAIN cut = DOMAIN holdings
          /\ cut[h].batch = holdings[h].batch
          /\ cut[h].status = "available"
          /\ \A x \in DOMAIN holdings \ {h} : cut[x] = holdings[x]
        BY <1>1, <2>2 DEF IsTable, HoldingRow
    <2>4. row \in HoldingRow /\ row.status = "committed" /\ row.quantity = q /\ row.holder = holdings[h].holder
        BY <1>1 DEF NewHolding, HoldingRow
    <2>. HIDE DEF cut, row
    <2>. QED
        BY <2>1, <2>3, <2>4 DEF HoldingsStay, Insert, IsTable
<1>3. CASE ~(q < holdings[h].quantity)
    <2>1. c = h /\ holdings' = [holdings EXCEPT ![h].status = "committed"]
        BY <1>3 DEF CommitHolding
    <2>2. q = holdings[h].quantity
        BY <1>1, <1>3 DEF HoldingRow, Grams
    <2>. QED
        BY <1>1, <2>1, <2>2 DEF HoldingsStay, IsTable, HoldingRow
<1>. QED
    BY <1>2, <1>3

\* The new contract has the only commitment of its slice.
LEMMA ContractMade ==
    ASSUME IInv, NEW o \in OfferIds \ DOMAIN contracts, NEW row \in ContractRow, NEW h \in DOMAIN holdings,
           holdings[h].status = "available", HoldingsStay,
           contracts' = Insert(contracts, o, row), row.status = "open",
           DOMAIN holdings' = DOMAIN holdings \cup {row.holding},
           row.holding \in DOMAIN holdings => row.holding = h,
           row.holding # h => holdings'[h].status = "available",
           holdings'[row.holding].status = "committed",
           holdings'[row.holding].holder = row.seller,
           holdings'[row.holding].quantity = row.quantity,
           \A x \in DOMAIN holdings \ {h, row.holding} : holdings'[x] = holdings[x]
    PROVE  CommittedForOneContract'
<1>1. /\ DOMAIN contracts' = DOMAIN contracts \cup {o}
      /\ contracts'[o] = row
      /\ \A x \in DOMAIN contracts : contracts'[x] = contracts[x]
    BY DEF Insert
<1>2. ASSUME NEW x \in DOMAIN contracts, contracts[x].status = "open"
      PROVE  /\ SliceIntact(x)
             /\ contracts[x].holding \in DOMAIN holdings
             /\ contracts[x].holding \notin {h, row.holding}
    BY <1>2 DEF IInv, ForeignKeys, CommittedForOneContract, SliceIntact
<1>3. ASSUME NEW x \in DOMAIN contracts', contracts'[x].status = "open"
      PROVE  SliceIntact(x)'
    <2>1. CASE x = o
        BY <1>1, <2>1 DEF SliceIntact
    <2>2. CASE x # o
        BY <1>1, <1>2, <1>3, <2>2 DEF SliceIntact
    <2>. QED
        BY <2>1, <2>2
<1>4. ASSUME NEW g \in DOMAIN holdings', holdings'[g].status = "committed"
      PROVE  \E x \in DOMAIN contracts' : contracts'[x].status = "open" /\ contracts'[x].holding = g
    <2>1. CASE g = row.holding
        BY <1>1, <2>1
    <2>2. CASE g # row.holding
        <3>1. g \in DOMAIN holdings /\ g # h /\ holdings[g].status = "committed"
            BY <1>4, <2>2
        <3>2. PICK x \in DOMAIN contracts : contracts[x].status = "open" /\ contracts[x].holding = g
            BY <3>1 DEF IInv, CommittedForOneContract
        <3>. QED
            BY <1>1, <3>2
    <2>. QED
        BY <2>1, <2>2
<1>5. ASSUME NEW x \in DOMAIN contracts', NEW y \in DOMAIN contracts',
             contracts'[x].status = "open", contracts'[y].status = "open",
             contracts'[x].holding = contracts'[y].holding
      PROVE  x = y
    BY <1>1, <1>2, <1>5 DEF IInv, CommittedForOneContract
<1>. QED
    BY <1>3, <1>4, <1>5 DEF CommittedForOneContract

\* Acceptance decides offer o and rejects pending ones; every other decision stands.
LEMMA OffersDecided ==
    ASSUME IInv, NEW o \in DOMAIN offers, offers[o].status = "pending", NEW decided, NEW ls, NEW h,
           decided = [RejectOffers(offers, PendingOn(offers, offers[o].listing) \ {o})
                         EXCEPT ![o].status = "accepted"],
           offers' = RejectOffers(decided, UncoveredOffers(decided, ls, h))
    PROVE  /\ IsTable(offers', OfferIds, OfferRow)
           /\ DOMAIN offers' = DOMAIN offers
           /\ \A x \in DOMAIN offers : /\ offers'[x].listing = offers[x].listing
                                       /\ offers'[x].buyer = offers[x].buyer
                                       /\ offers'[x].quantity = offers[x].quantity
                                       /\ offers[x].status # "pending" => offers'[x].status = offers[x].status
                                       /\ x # o /\ offers'[x].status = "accepted" => offers[x].status = "accepted"
           /\ offers'[o].status = "accepted"
<1>. DEFINE S == PendingOn(offers, offers[o].listing) \ {o}
            first == RejectOffers(offers, S)
            T == UncoveredOffers(decided, ls, h)
<1>1. \A x \in S : offers[x].status = "pending" /\ x # o
    BY DEF PendingOn
<1>2. \A x \in T : decided[x].status = "pending"
    BY DEF UncoveredOffers
<1>3. decided = [first EXCEPT ![o].status = "accepted"] /\ offers' = RejectOffers(decided, T)
    OBVIOUS
<1>. HIDE DEF S, T
<1>4. /\ IsTable(first, OfferIds, OfferRow)
      /\ DOMAIN first = DOMAIN offers
      /\ \A x \in DOMAIN offers : /\ first[x].listing = offers[x].listing
                                  /\ first[x].buyer = offers[x].buyer
                                  /\ first[x].quantity = offers[x].quantity
                                  /\ first[x].status = IF x \in S THEN "rejected" ELSE offers[x].status
    BY RejectRows DEF IInv, TypeOK
<1>. HIDE DEF first
<1>5. /\ DOMAIN decided = DOMAIN offers
      /\ \A x \in DOMAIN offers \ {o} : decided[x] = first[x]
      /\ decided[o] = [first[o] EXCEPT !.status = "accepted"]
    BY <1>3, <1>4 DEF IsTable
<1>6. /\ decided[o] \in OfferRow
      /\ decided[o].listing = first[o].listing
      /\ decided[o].buyer = first[o].buyer
      /\ decided[o].quantity = first[o].quantity
      /\ decided[o].status = "accepted"
    <2>1. first[o] \in OfferRow
        BY <1>4 DEF IsTable
    <2>. QED
        BY <1>5, <2>1 DEF OfferRow
<1>7. IsTable(decided, OfferIds, OfferRow)
    BY <1>3, <1>4, <1>5, <1>6 DEF IsTable
<1>8. /\ IsTable(offers', OfferIds, OfferRow)
      /\ DOMAIN offers' = DOMAIN decided
      /\ \A x \in DOMAIN decided : /\ offers'[x].listing = decided[x].listing
                                   /\ offers'[x].buyer = decided[x].buyer
                                   /\ offers'[x].quantity = decided[x].quantity
                                   /\ offers'[x].status = IF x \in T THEN "rejected" ELSE decided[x].status
    BY <1>3, <1>7 DEF RejectOffers, IsTable, OfferRow
<1>9. o \notin T
    BY <1>2, <1>6
<1>10. ASSUME NEW x \in DOMAIN offers
       PROVE  /\ offers'[x].listing = offers[x].listing
              /\ offers'[x].buyer = offers[x].buyer
              /\ offers'[x].quantity = offers[x].quantity
              /\ offers[x].status # "pending" => offers'[x].status = offers[x].status
              /\ x # o /\ offers'[x].status = "accepted" => offers[x].status = "accepted"
    <2>1. CASE x = o
        BY <1>4, <1>5, <1>6, <1>8, <2>1
    <2>2. CASE x # o
        <3>1. decided[x] = first[x]
            BY <1>5, <2>2
        <3>2. /\ first[x].listing = offers[x].listing
              /\ first[x].buyer = offers[x].buyer
              /\ first[x].quantity = offers[x].quantity
              /\ offers[x].status # "pending" => first[x].status = offers[x].status
              /\ first[x].status \in {"rejected", offers[x].status}
            BY <1>1, <1>4
        <3>3. /\ offers'[x].listing = first[x].listing
              /\ offers'[x].buyer = first[x].buyer
              /\ offers'[x].quantity = first[x].quantity
              /\ \/ offers'[x].status = first[x].status
                 \/ offers'[x].status = "rejected" /\ first[x].status = "pending"
            <4>1. x \in DOMAIN decided
                BY <1>5
            <4>2. /\ offers'[x].listing = decided[x].listing
                  /\ offers'[x].buyer = decided[x].buyer
                  /\ offers'[x].quantity = decided[x].quantity
                  /\ offers'[x].status = IF x \in T THEN "rejected" ELSE decided[x].status
                BY <1>8, <4>1
            <4>3. x \in T => decided[x].status = "pending"
                BY <1>2
            <4>. QED
                BY <3>1, <4>2, <4>3
        <3>. QED
            BY <3>2, <3>3
    <2>. QED
        BY <2>1, <2>2
<1>. QED
    BY <1>5, <1>6, <1>8, <1>9, <1>10

\* acceptTradeOffer: the listing follows its stock, the contract gets the slice, the rest stays.
LEMMA AcceptKeeps ==
    ASSUME IInv, NEW o \in OfferIds, NEW c \in HoldingIds, NEW k \in ListingIds, acceptTradeOffer(o, c, k)
    PROVE  IInv'
<1>. USE MaxGramsAssumption
<1>. DEFINE l == offers[o].listing
            h == listings[l].holding
            q == offers[o].quantity
            remaining == RemainingListing(o)
            budget == holdings[h].quantity - q - pendingTransferQuantity(h) - remaining
            moved == [listings EXCEPT ![l].active = FALSE, ![l].holding = c, ![l].quantity = q]
            decided == [RejectOffers(offers, PendingOn(offers, l) \ {o}) EXCEPT ![o].status = "accepted"]
            after == ReconciledListings(moved, h, budget)
            new == NewListing(listings[l].seller, h, remaining)
            row == [listing |-> l, holding |-> c, seller |-> listings[l].seller,
                    buyer |-> offers[o].buyer, quantity |-> q, status |-> "open"]
<1>1. /\ Acceptable(o)
      /\ CommitHolding(h, c, q)
      /\ \/ listings' = after
         \/ k \notin DOMAIN listings /\ listings' = Insert(after, k, new)
      /\ offers' = RejectOffers(decided, UncoveredOffers(decided, after, h))
      /\ contracts' = Insert(contracts, o, row)
      /\ UNCHANGED <<source, transfers, held, withdrawing>>
    BY DEF acceptTradeOffer
<1>2. /\ o \in DOMAIN offers /\ offers[o].status = "pending" /\ o \notin DOMAIN contracts
      /\ holdings[h].status = "available" /\ holdings[h].batch \notin held
      /\ listings[l].seller = holdings[h].holder
      /\ q <= holdings[h].quantity - pendingTransferQuantity(h)
    BY <1>1 DEF Acceptable, Tradable
<1>3. l \in DOMAIN listings /\ h \in DOMAIN holdings
    BY <1>2 DEF IInv, ForeignKeys
<1>4. /\ offers[o] \in OfferRow /\ listings[l] \in ListingRow /\ holdings[h] \in HoldingRow
      /\ pendingTransferQuantity(h) \in Nat
    BY <1>2, <1>3, PendingIsNat DEF IInv, TypeOK, IsTable
<1>5. q \in Grams /\ q <= holdings[h].quantity
    BY <1>2, <1>4 DEF OfferRow, HoldingRow, Grams
<1>6. remaining \in Grams /\ budget \in Int
    BY <1>4, <1>5 DEF RemainingListing, Least, Greatest, ListingRow, HoldingRow, Grams
<1>7. new \in ListingRow /\ new.seller = listings[l].seller /\ new.holding = h
    BY <1>3, <1>4, <1>6 DEF NewListing, ListingRow, IInv, TypeOK, IsTable
<1>8. /\ row \in ContractRow /\ row.status = "open" /\ row.holding = c
      /\ row.listing = l /\ row.seller = listings[l].seller
      /\ row.buyer = offers[o].buyer /\ row.quantity = q
    BY <1>4, <1>5 DEF ContractRow, OfferRow, ListingRow
<1>9. /\ IsTable(moved, ListingIds, ListingRow)
      /\ DOMAIN moved = DOMAIN listings
      /\ moved[l].seller = listings[l].seller
      /\ moved[l].holding = c
      /\ ~moved[l].active
      /\ \A x \in DOMAIN listings \ {l} : moved[x] = listings[x]
    <2>1. IsTable(listings, ListingIds, ListingRow)
        BY DEF IInv, TypeOK
    <2>2. /\ DOMAIN moved = DOMAIN listings
          /\ \A x \in DOMAIN listings \ {l} : moved[x] = listings[x]
          /\ moved[l] = [listings[l] EXCEPT !.active = FALSE, !.holding = c, !.quantity = q]
          /\ moved = [x \in DOMAIN listings |-> moved[x]]
        BY <1>3, <2>1 DEF IsTable
    <2>. HIDE DEF moved, l, q
    <2>3. /\ moved[l] \in ListingRow
          /\ moved[l].seller = listings[l].seller
          /\ moved[l].holding = c
          /\ ~moved[l].active
        BY <1>4, <1>5, <2>2 DEF ListingRow
    <2>. QED
        BY <1>3, <2>1, <2>2, <2>3 DEF IsTable
<1>10. /\ IsTable(offers', OfferIds, OfferRow)
       /\ DOMAIN offers' = DOMAIN offers
       /\ \A x \in DOMAIN offers : /\ offers'[x].listing = offers[x].listing
                                   /\ offers'[x].buyer = offers[x].buyer
                                   /\ offers'[x].quantity = offers[x].quantity
                                   /\ offers[x].status # "pending" => offers'[x].status = offers[x].status
                                   /\ x # o /\ offers'[x].status = "accepted" => offers[x].status = "accepted"
       /\ offers'[o].status = "accepted"
    BY <1>1, <1>2, OffersDecided
<1>. HIDE DEF moved, decided, budget, new, row, remaining
<1>11. /\ IsTable(after, ListingIds, ListingRow)
       /\ DOMAIN after = DOMAIN moved
       /\ \A x \in DOMAIN moved : /\ after[x].seller = moved[x].seller
                                  /\ after[x].holding = moved[x].holding
                                  /\ after[x].active => moved[x].active
    BY <1>6, <1>9, ReconcileRows
<1>. HIDE DEF after
<1>12. /\ IsTable(holdings', HoldingIds, HoldingRow)
       /\ HoldingsStay
       /\ c \in DOMAIN holdings'
       /\ DOMAIN holdings' = DOMAIN holdings \cup {c}
       /\ holdings'[c].status = "committed"
       /\ holdings'[c].holder = holdings[h].holder
       /\ holdings'[c].quantity = q
       /\ c \in DOMAIN holdings => c = h
       /\ c # h => holdings'[h].status = "available"
       /\ \A x \in DOMAIN holdings \ {h, c} : holdings'[x] = holdings[x]
    BY <1>1, <1>2, <1>3, <1>5, SliceCommitted
<1>13. /\ IsTable(contracts', OfferIds, ContractRow)
       /\ DOMAIN contracts' = DOMAIN contracts \cup {o}
       /\ contracts'[o] = row
       /\ \A x \in DOMAIN contracts : contracts'[x] = contracts[x]
    BY <1>1, <1>2, <1>8 DEF IInv, TypeOK, Insert, IsTable
<1>14. /\ IsTable(listings', ListingIds, ListingRow)
       /\ \A x \in DOMAIN listings : x \in DOMAIN listings' /\ listings'[x] = after[x]
       /\ \A x \in DOMAIN listings' \ DOMAIN listings : listings'[x] = new
    <2>1. CASE listings' = after
        BY <1>9, <1>11, <2>1
    <2>2. CASE k \notin DOMAIN listings /\ listings' = Insert(after, k, new)
        BY <1>7, <1>9, <1>11, <2>2 DEF Insert, IsTable
    <2>. QED
        BY <1>1, <2>1, <2>2
<1>15. TypeOK'
    BY <1>1, <1>10, <1>12, <1>13, <1>14 DEF IInv, TypeOK
<1>16. ForeignKeys'
    <2>1. \A x \in DOMAIN listings' : listings'[x].holding \in DOMAIN holdings'
        BY <1>3, <1>7, <1>9, <1>11, <1>12, <1>14 DEF IInv, ForeignKeys
    <2>2. \A x \in DOMAIN offers' : offers'[x].listing \in DOMAIN listings'
        BY <1>10, <1>14 DEF IInv, ForeignKeys
    <2>3. \A t \in DOMAIN transfers' : transfers'[t].holding \in DOMAIN holdings'
        BY <1>1, <1>12 DEF IInv, ForeignKeys
    <2>4. \A x \in DOMAIN contracts' : contracts'[x].holding \in DOMAIN holdings'
        BY <1>8, <1>12, <1>13 DEF IInv, ForeignKeys
    <2>5. DOMAIN withdrawing' \subseteq DOMAIN offers'
        BY <1>1, <1>10 DEF IInv, ForeignKeys
    <2>. QED
        BY <2>1, <2>2, <2>3, <2>4, <2>5 DEF ForeignKeys
<1>17. CommittedForOneContract'
    <2>1. o \in OfferIds \ DOMAIN contracts
        BY <1>2
    <2>. QED
        BY <1>1, <1>2, <1>3, <1>8, <1>12, <2>1, ContractMade
<1>18. ContractsMatchOffers'
    <2>1. DOMAIN contracts' = {x \in DOMAIN offers' : offers'[x].status = "accepted"}
        BY <1>2, <1>10, <1>13 DEF IInv, ContractsMatchOffers
    <2>2. \A x \in DOMAIN listings : x \in DOMAIN listings' /\ listings'[x].seller = listings[x].seller
        BY <1>9, <1>11, <1>14
    <2>3. ASSUME NEW x \in DOMAIN contracts'
          PROVE  /\ contracts'[x].listing = offers'[x].listing
                 /\ contracts'[x].buyer = offers'[x].buyer
                 /\ contracts'[x].quantity = offers'[x].quantity
                 /\ contracts'[x].seller = listings'[offers'[x].listing].seller
        <3>1. CASE x = o
            BY <1>2, <1>3, <1>8, <1>10, <1>13, <2>2, <3>1
        <3>2. CASE x # o
            BY <1>10, <1>13, <2>2, <3>2 DEF IInv, ForeignKeys, ContractsMatchOffers
        <3>. QED
            BY <3>1, <3>2
    <2>. QED
        BY <2>1, <2>3 DEF ContractsMatchOffers
<1>19. NothingPublishedUnderRecall'
    <2>1. ASSUME NEW x \in DOMAIN listings', listings'[x].active
          PROVE  holdings'[listings'[x].holding].batch \notin held
        <3>1. CASE x \notin DOMAIN listings
            BY <1>2, <1>3, <1>7, <1>12, <1>14, <3>1 DEF HoldingsStay
        <3>2. CASE x \in DOMAIN listings
            <4>1. x # l /\ listings[x].active /\ listings'[x].holding = listings[x].holding
                BY <1>9, <1>11, <1>14, <2>1, <3>2
            <4>. QED
                BY <1>12, <3>2, <4>1 DEF HoldingsStay, IInv, ForeignKeys, NothingPublishedUnderRecall
        <3>. QED
            BY <3>1, <3>2
    <2>. QED
        BY <1>1, <2>1 DEF NothingPublishedUnderRecall
<1>. QED
    BY <1>15, <1>16, <1>17, <1>18, <1>19 DEF IInv

-----------------------------------------------------------------------------
(* The theorems.                                                           *)

\* Every inventory transaction keeps the inductive invariant.
THEOREM StepIInv == IInv /\ [Next]_vars => IInv'
<1>. SUFFICES ASSUME IInv, [Next]_vars PROVE IInv'
    OBVIOUS
<1>1. CASE AllocateStock
    BY <1>1, AllocateKeeps
<1>2. CASE PublishStock
    BY <1>2, PublishKeeps
<1>3. CASE DecideOffers
    BY <1>3, AcceptKeeps, OffersKeep DEF DecideOffers
<1>4. CASE MoveStock
    BY <1>4, MoveKeeps
<1>5. CASE CloseContracts
    BY <1>5, CloseKeeps
<1>6. CASE RecallStock
    BY <1>6, RecallKeeps
<1>7. CASE UNCHANGED vars
    BY <1>7 DEF vars, IInv, TypeOK, ForeignKeys, CommittedForOneContract, SliceIntact,
                ContractsMatchOffers, NothingPublishedUnderRecall
<1>. QED
    BY <1>1, <1>2, <1>3, <1>4, <1>5, <1>6, <1>7 DEF Next

\* The invariant holds in every reachable state.
THEOREM SpecIInv == Spec => []IInv
BY InitIInv, StepIInv, PTL DEF Spec

(***************************************************************************)
(* Whatever sequence of transactions runs, quantities stay within their    *)
(* column: no split, residual or reconciled share is negative or too big.  *)
(***************************************************************************)
THEOREM TypeCorrect == Spec => []TypeOK
<1>1. IInv => TypeOK
    BY DEF IInv
<1>. QED
    BY <1>1, SpecIInv, PTL

\* A committed holding always belongs to exactly one open contract, whole and unmoved.
THEOREM CommitmentIsExclusive == Spec => []CommittedForOneContract
<1>1. IInv => CommittedForOneContract
    BY DEF IInv
<1>. QED
    BY <1>1, SpecIInv, PTL

\* Accepted offers and contracts are paired one to one on the agreed terms.
THEOREM ContractsAreTheAcceptedOffers == Spec => []ContractsMatchOffers
<1>1. IInv => ContractsMatchOffers
    BY DEF IInv
<1>. QED
    BY <1>1, SpecIInv, PTL

\* No listing of a batch under a recall hold is active.
THEOREM RecallUnpublishes == Spec => []NothingPublishedUnderRecall
<1>1. IInv => NothingPublishedUnderRecall
    BY DEF IInv
<1>. QED
    BY <1>1, SpecIInv, PTL

-----------------------------------------------------------------------------
(* What no step may do, from the invariant.                                *)

(* Decisions on offers.                                                    *)

\* What OfferDecidedOnce says of one step.
DecisionsStand ==
    \A o \in DOMAIN offers : offers[o].status # "pending" => offers'[o].status = offers[o].status

\* Rejecting pending offers overturns no decision.
LEMMA RejectPending ==
    ASSUME TypeOK, NEW S, \A o \in S : offers[o].status = "pending",
           offers' = RejectOffers(offers, S)
    PROVE  DecisionsStand
<1>1. IsTable(offers, OfferIds, OfferRow)
    BY DEF TypeOK
<1>. QED
    BY <1>1, RejectRows DEF DecisionsStand

\* Neither does reconcileHoldingListings, whichever listings it starts from.
LEMMA ReconcileStands ==
    ASSUME TypeOK, NEW ls, NEW h, NEW budget, Reconcile(ls, offers, h, budget)
    PROVE  DecisionsStand
<1>. DEFINE S == UncoveredOffers(offers, ReconciledListings(ls, h, budget), h)
<1>1. offers' = RejectOffers(offers, S) /\ \A o \in S : offers[o].status = "pending"
    BY DEF Reconcile, UncoveredOffers
<1>. HIDE DEF S
<1>. QED
    BY <1>1, RejectPending

\* The transactions of PublishStock reject pending offers or none.
LEMMA PublishStands == IInv /\ PublishStock => DecisionsStand
<1>. SUFFICES ASSUME IInv, NEW l \in ListingIds,
                     \/ \E b \in Batches, q \in 1..MaxGrams : publishBatchFromHolding(b, q, l)
                     \/ \E h \in HoldingIds, q \in 1..MaxGrams : publishListing(h, q, l)
                     \/ \E q \in 1..MaxGrams, active \in BOOLEAN : editListing(l, q, active)
                     \/ withdrawListing(l)
                     \/ renewListing(l)
                     \/ expireListing(l)
              PROVE  DecisionsStand
    BY DEF PublishStock
<1>. TypeOK
    BY DEF IInv
<1>1. CASE offers' = offers
    BY <1>1 DEF DecisionsStand
<1>2. ASSUME NEW q \in 1..MaxGrams, NEW active \in BOOLEAN, editListing(l, q, active)
      PROVE  DecisionsStand
    BY <1>2, ReconcileStands DEF editListing
<1>3. CASE withdrawListing(l)
    BY <1>3, ReconcileStands DEF withdrawListing
<1>4. CASE renewListing(l)
    <2>1. \A o \in PendingOn(offers, l) : offers[o].status = "pending"
        BY DEF PendingOn
    <2>. QED
        BY <1>4, <2>1, RejectPending DEF renewListing
<1>. QED
    BY <1>1, <1>2, <1>3, <1>4 DEF publishBatchFromHolding, publishListing, expireListing

\* The transactions on offers themselves decide pending offers only.
LEMMA DecideStands == IInv /\ DecideOffers => DecisionsStand
<1>. SUFFICES ASSUME IInv, NEW o \in OfferIds,
                     \/ \E l \in ListingIds, buyer \in Orgs, q \in 1..MaxGrams : createTradeOffer(l, buyer, q, o)
                     \/ \E c \in HoldingIds, k \in ListingIds : acceptTradeOffer(o, c, k)
                     \/ rejectTradeOffer(o)
                     \/ discoverWithdrawal(o)
                     \/ withdrawTradeOffer(o)
                     \/ lapseOffer(o)
              PROVE  DecisionsStand
    BY DEF DecideOffers
<1>1. ASSUME NEW l \in ListingIds, NEW buyer \in Orgs, NEW q \in 1..MaxGrams, createTradeOffer(l, buyer, q, o)
      PROVE  DecisionsStand
    BY <1>1 DEF createTradeOffer, Insert, DecisionsStand
<1>2. ASSUME NEW c \in HoldingIds, NEW k \in ListingIds, acceptTradeOffer(o, c, k)
      PROVE  DecisionsStand
    <2>. DEFINE l == offers[o].listing
                h == listings[l].holding
                q == offers[o].quantity
                budget == holdings[h].quantity - q - pendingTransferQuantity(h) - RemainingListing(o)
                moved == [listings EXCEPT ![l].active = FALSE, ![l].holding = c, ![l].quantity = q]
                after == ReconciledListings(moved, h, budget)
                decided == [RejectOffers(offers, PendingOn(offers, l) \ {o}) EXCEPT ![o].status = "accepted"]
    <2>1. o \in DOMAIN offers /\ offers[o].status = "pending"
        BY <1>2 DEF acceptTradeOffer, Acceptable
    <2>2. offers' = RejectOffers(decided, UncoveredOffers(decided, after, h))
        BY <1>2 DEF acceptTradeOffer
    <2>. HIDE DEF h, after
    <2>. QED
        BY <2>1, <2>2, OffersDecided DEF DecisionsStand
<1>3. CASE rejectTradeOffer(o) \/ lapseOffer(o) \/ (withdrawTradeOffer(o) /\ Withdrawable(o))
    <2>1. o \in DOMAIN offers /\ offers[o].status = "pending"
        BY <1>3 DEF rejectTradeOffer, lapseOffer, withdrawTradeOffer, Withdrawable, IInv, ForeignKeys
    <2>2. OffersStay
        BY <1>3, <2>1, OfferRows DEF rejectTradeOffer, lapseOffer, withdrawTradeOffer
    <2>. QED
        BY <2>2 DEF OffersStay, DecisionsStand
<1>4. CASE discoverWithdrawal(o) \/ (withdrawTradeOffer(o) /\ ~Withdrawable(o))
    BY <1>4 DEF discoverWithdrawal, withdrawTradeOffer, DecisionsStand
<1>. QED
    BY <1>1, <1>2, <1>3, <1>4

\* No transaction overturns the decision on an offer.
LEMMA StepDecisions == IInv /\ [Next]_vars => DecisionsStand
<1>. SUFFICES ASSUME IInv, [Next]_vars PROVE DecisionsStand
    OBVIOUS
<1>1. CASE offers' = offers
    BY <1>1 DEF DecisionsStand
<1>2. CASE AllocateStock
    BY <1>1, <1>2 DEF AllocateStock, registerBatch, createHolding, publishBatchFromSource
<1>3. CASE MoveStock
    <2>1. TypeOK
        BY DEF IInv
    <2>2. ASSUME NEW h \in HoldingIds, NEW to \in Orgs, NEW q \in 1..MaxGrams, NEW t \in TransferIds,
                 transferHolding(h, to, q, t)
          PROVE  DecisionsStand
        BY <2>1, <2>2, ReconcileStands DEF transferHolding
    <2>3. ASSUME NEW t \in TransferIds, NEW n \in HoldingIds, acceptTransfer(t, n)
          PROVE  DecisionsStand
        BY <2>1, <2>3, ReconcileStands DEF acceptTransfer
    <2>4. ASSUME NEW h \in HoldingIds, NEW m \in HoldingIds, NEW n \in HoldingIds, NEW q \in 1..MaxGrams,
                 splitHolding(h, q, m, n)
          PROVE  DecisionsStand
        BY <2>1, <2>4, ReconcileStands DEF splitHolding
    <2>. QED
        BY <1>3, <2>2, <2>3, <2>4 DEF MoveStock
<1>4. CASE CloseContracts
    BY <1>1, <1>4 DEF CloseContracts, completeTrade, approveCancellation
<1>5. CASE RecallStock
    BY <1>1, <1>5 DEF RecallStock, activateRecall, resolveRecall
<1>6. CASE UNCHANGED vars
    BY <1>1, <1>6 DEF vars
<1>. QED
    BY <1>2, <1>3, <1>4, <1>5, <1>6, PublishStands, DecideStands DEF Next

(***************************************************************************)
(* Acceptance, rejection, withdrawal, renewal and reconciliation race for  *)
(* an offer, in any number of concurrent requests: once one has decided    *)
(* it, none of the others changes the outcome.                             *)
(***************************************************************************)
THEOREM DecisionsAreFinal == Spec => OfferDecidedOnce
<1>1. IInv /\ [Next]_vars =>
        [\A o \in DOMAIN offers : offers[o].status # "pending" => offers'[o].status = offers[o].status]_vars
    BY StepDecisions DEF DecisionsStand
<1>. QED
    BY <1>1, SpecIInv, PTL DEF Spec, OfferDecidedOnce

-----------------------------------------------------------------------------
(* Stock under a recall hold.                                              *)

\* Contract o is settled by this step and had stock h.
SettledNow(o, h) ==
    /\ contracts[o].holding = h
    /\ contracts[o].status = "open"
    /\ contracts'[o].status = "settled"

\* What RecalledStockStays says of one step.
StockStays ==
    \A h \in DOMAIN holdings : holdings[h].batch \in held =>
        holdings'[h] = holdings[h] \/ \E o \in DOMAIN contracts : SettledNow(o, h)

\* A transaction that changes one holding only, of a batch that is not recalled.
LEMMA OneHoldingChanges ==
    ASSUME NEW h, holdings[h].batch \notin held,
           \A x \in DOMAIN holdings \ {h} : holdings'[x] = holdings[x]
    PROVE  StockStays
BY DEF StockStays

\* New allocations leave every other holding as it is.
LEMMA AllocateStays == AllocateStock => StockStays
<1>. SUFFICES ASSUME NEW b \in Batches, NEW q \in 1..MaxGrams, NEW h \in HoldingIds,
                     \/ \E org \in Orgs : registerBatch(b, org, q, h)
                     \/ createHolding(b, q, h)
                     \/ \E l \in ListingIds : publishBatchFromSource(b, q, h, l)
              PROVE  StockStays
    BY DEF AllocateStock
<1>1. \E r : holdings' = Insert(holdings, h, r) /\ h \notin DOMAIN holdings
    BY DEF registerBatch, createHolding, publishBatchFromSource
<1>. QED
    BY <1>1 DEF Insert, StockStays

\* acceptTradeOffer commits stock of a batch that is not recalled, and touches no other.
LEMMA AcceptStays ==
    ASSUME IInv, NEW o \in OfferIds, NEW c \in HoldingIds, NEW k \in ListingIds, acceptTradeOffer(o, c, k)
    PROVE  StockStays
<1>. DEFINE h == listings[offers[o].listing].holding
            q == offers[o].quantity
<1>1. holdings[h].batch \notin held /\ CommitHolding(h, c, q)
    BY DEF acceptTradeOffer, Acceptable, Tradable
<1>2. \A x \in DOMAIN holdings \ {h} : holdings'[x] = holdings[x]
    <2>. HIDE DEF h, q
    <2>1. CASE q < holdings[h].quantity
        BY <1>1, <2>1 DEF CommitHolding, Insert
    <2>2. CASE ~(q < holdings[h].quantity)
        BY <1>1, <2>2 DEF CommitHolding
    <2>. QED
        BY <2>1, <2>2
<1>. HIDE DEF h
<1>. QED
    BY <1>1, <1>2, OneHoldingChanges

\* Transfers and splits take from a holding of a batch that is not recalled.
LEMMA MoveStays == MoveStock => StockStays
<1>. SUFFICES ASSUME MoveStock PROVE StockStays
    OBVIOUS
<1>1. ASSUME NEW h \in HoldingIds, NEW to \in Orgs, NEW q \in 1..MaxGrams, NEW t \in TransferIds,
             transferHolding(h, to, q, t)
      PROVE  StockStays
    BY <1>1 DEF transferHolding, StockStays
<1>2. ASSUME NEW t \in TransferIds, NEW n \in HoldingIds, acceptTransfer(t, n)
      PROVE  StockStays
    <2>. DEFINE h == transfers[t].holding
                q == transfers[t].quantity
                rest == TakeFrom(h, q)
                row == NewHolding(holdings[h].batch, transfers[t].to, q, "available")
    <2>1. holdings[h].batch \notin held /\ n \notin DOMAIN holdings /\ holdings' = Insert(rest, n, row)
        BY <1>2 DEF acceptTransfer, Tradable
    <2>2. DOMAIN rest = DOMAIN holdings /\ \A x \in DOMAIN holdings \ {h} : rest[x] = holdings[x]
        <3>. HIDE DEF h, q
        <3>. QED
            BY DEF TakeFrom
    <2>. HIDE DEF h, rest, row
    <2>3. \A x \in DOMAIN holdings \ {h} : holdings'[x] = holdings[x]
        BY <2>1, <2>2 DEF Insert
    <2>. QED
        BY <2>1, <2>3, OneHoldingChanges
<1>3. ASSUME NEW h \in HoldingIds, NEW m \in HoldingIds, NEW n \in HoldingIds, NEW q \in 1..MaxGrams,
             splitHolding(h, q, m, n)
      PROVE  StockStays
    <2>1. holdings[h].batch \notin held
        BY <1>3 DEF splitHolding, Tradable
    <2>2. \A x \in DOMAIN holdings \ {h} : holdings'[x] = holdings[x]
        BY <1>3 DEF splitHolding, Insert
    <2>. QED
        BY <2>1, <2>2, OneHoldingChanges
<1>. QED
    BY <1>1, <1>2, <1>3 DEF MoveStock

\* A contract that ends releases its own slice: to the buyer, or back when not recalled.
LEMMA CloseStays == IInv /\ CloseContracts => StockStays
<1>. SUFFICES ASSUME IInv, NEW o \in OfferIds,
                     (\E t \in TransferIds : completeTrade(o, t)) \/ approveCancellation(o)
              PROVE  StockStays
    BY DEF CloseContracts
<1>. DEFINE h == contracts[o].holding
<1>1. CASE \E t \in TransferIds : completeTrade(o, t)
    <2>1. o \in DOMAIN contracts /\ contracts[o].status = "open"
        BY <1>1 DEF completeTrade, SliceIntact
    <2>2. contracts'[o].status = "settled"
        BY <1>1, <2>1 DEF completeTrade, IInv, TypeOK, IsTable, ContractRow
    <2>3. \A x \in DOMAIN holdings \ {h} : holdings'[x] = holdings[x]
        BY <1>1 DEF completeTrade
    <2>. QED
        BY <2>1, <2>2, <2>3 DEF StockStays, SettledNow
<1>2. CASE approveCancellation(o)
    <2>1. holdings[h].batch \notin held /\ \A x \in DOMAIN holdings \ {h} : holdings'[x] = holdings[x]
        BY <1>2 DEF approveCancellation
    <2>. HIDE DEF h
    <2>. QED
        BY <2>1, OneHoldingChanges
<1>. QED
    BY <1>1, <1>2

\* No transaction moves recalled stock, except the settlement of an open contract.
LEMMA StepStays == IInv /\ [Next]_vars => StockStays
<1>. SUFFICES ASSUME IInv, [Next]_vars PROVE StockStays
    OBVIOUS
<1>1. CASE holdings' = holdings
    BY <1>1 DEF StockStays
<1>2. CASE PublishStock
    BY <1>1, <1>2 DEF PublishStock, publishBatchFromHolding, publishListing, editListing, withdrawListing,
                      renewListing, expireListing
<1>3. CASE DecideOffers
    BY <1>1, <1>3, AcceptStays DEF DecideOffers, createTradeOffer, rejectTradeOffer, discoverWithdrawal,
                                   withdrawTradeOffer, lapseOffer
<1>4. CASE RecallStock
    BY <1>1, <1>4 DEF RecallStock, activateRecall, resolveRecall
<1>5. CASE UNCHANGED vars
    BY <1>1, <1>5 DEF vars
<1>. QED
    BY <1>2, <1>3, <1>4, <1>5, AllocateStays, MoveStays, CloseStays DEF Next

(***************************************************************************)
(* A recall freezes the stock of its batch against every split, transfer,  *)
(* sale and cancellation, however they interleave with its activation;     *)
(* what is left is the settlement of contracts concluded before it.        *)
(***************************************************************************)
THEOREM RecallFreezesStock == Spec => RecalledStockStays
<1>1. IInv /\ [Next]_vars =>
        [\A h \in DOMAIN holdings : holdings[h].batch \in held =>
            \/ holdings'[h] = holdings[h]
            \/ \E o \in DOMAIN contracts : /\ contracts[o].holding = h
                                           /\ contracts[o].status = "open"
                                           /\ contracts'[o].status = "settled"]_vars
    BY StepStays DEF StockStays, SettledNow
<1>. QED
    BY <1>1, SpecIInv, PTL DEF Spec, RecalledStockStays
=============================================================================
