----------------------------- MODULE Inventory ------------------------------
(***************************************************************************)
(* The trade inventory of the API: source batches, the holdings stock is   *)
(* split into, the listings that publish it, the offers made on listings,  *)
(* custody transfers, and the contracts that commit stock to a buyer.      *)
(*                                                                         *)
(* Every operation is one PostgreSQL transaction that locks the recall     *)
(* boundary, the holding, its listings and its offers before it reads      *)
(* them, so an action is the whole transaction.  withdrawTradeOffer is the *)
(* one inventory writer that runs outside the recall boundary: it finds    *)
(* its holding without a lock and rechecks it once locked, and is modelled *)
(* as those two steps.  A refused request changes nothing and has no       *)
(* action.  Fee standing (assertNoOverdueFees), currencies and prices only *)
(* refuse requests and are left out.                                       *)
(***************************************************************************)
EXTENDS Tables

CONSTANTS
    Batches,        \* harvest_batches ids
    Orgs,           \* organizations
    HoldingIds,     \* batch_holdings ids
    ListingIds,     \* listings ids: ordered, as ORDER BY id orders them
    OfferIds,       \* trade_offers ids; a contract has its offer's id
    TransferIds     \* custody_transfers ids

ASSUME InventoryAssumption ==
    /\ IsFiniteSet(Batches)
    /\ IsFiniteSet(Orgs)
    /\ IsFiniteSet(HoldingIds)
    /\ IsFiniteSet(ListingIds) /\ ListingIds \subseteq Nat
    /\ IsFiniteSet(OfferIds)
    /\ IsFiniteSet(TransferIds)

VARIABLES
    source,         \* harvest_batches: holder and quantity, 0 before registration
    holdings,       \* batch_holdings
    listings,       \* listings
    offers,         \* trade_offers
    transfers,      \* custody_transfers
    contracts,      \* sales_contracts, by offer (trade_contract_one_per_offer)
    held,           \* batches for which assertBatchNotRecalled throws
    withdrawing     \* offer withdrawals in flight, with the holding they found

vars == <<source, holdings, listings, offers, transfers, contracts, held, withdrawing>>

Grams == 0..MaxGrams

SourceRow   == [holder : Orgs, quantity : Grams]
HoldingRow  == [batch : Batches, holder : Orgs, quantity : Grams,
                status : {"available", "committed", "transferred"}]
ListingRow  == [seller : Orgs, holding : HoldingIds, quantity : Grams,
                active : BOOLEAN, expired : BOOLEAN]
OfferRow    == [listing : ListingIds, buyer : Orgs, quantity : Grams, lapsed : BOOLEAN,
                status : {"pending", "accepted", "rejected", "cancelled"}]
TransferRow == [holding : HoldingIds, from : Orgs, to : Orgs, quantity : Grams,
                status : {"requested", "accepted"}]
ContractRow == [listing : ListingIds, holding : HoldingIds, seller : Orgs, buyer : Orgs,
                quantity : Grams, status : {"open", "settled", "cancelled"}]

-----------------------------------------------------------------------------
(* What the transactions compute from the tables.                          *)

\* SELECT ... FROM batch_holdings WHERE batch_id=b AND status<>'transferred'
LiveHoldings(b) ==
    {h \in DOMAIN holdings : holdings[h].batch = b /\ holdings[h].status # "transferred"}

allocatedBatchQuantity(b) == SumQuantity(holdings, LiveHoldings(b))

RequestedTransfers(h) ==
    {t \in DOMAIN transfers : transfers[t].holding = h /\ transfers[t].status = "requested"}

pendingTransferQuantity(h) == SumQuantity(transfers, RequestedTransfers(h))

\* A listing on holding h that is published: active and not past expires_at.
Published(ls, h) ==
    {l \in DOMAIN ls : ls[l].holding = h /\ ls[l].active /\ ~ls[l].expired}

publishedQuantity(h) == SumQuantity(listings, Published(listings, h))
publishedSiblings(h, l) == SumQuantity(listings, Published(listings, h) \ {l})

\* The undecided offers on a listing.  (AllOn: the status left out of the WHERE clause.)
AllOn(os, l) == {o \in DOMAIN os : os[o].listing = l}
PendingOn(os, l) == {o \in DOMAIN os : os[o].listing = l /\ os[o].status = "pending"}

RejectOffers(os, S) ==
    [o \in DOMAIN os |-> IF o \in S THEN [os[o] EXCEPT !.status = "rejected"] ELSE os[o]]

(***************************************************************************)
(* reconcileHoldingListings: the listings of h, in id order, share the     *)
(* budget; an active one is cut to what the ones before it leave and       *)
(* deactivated when that is nothing.  Expired listings are passed over.    *)
(* (AheadNone: every listing measured against the whole budget.)           *)
(***************************************************************************)
AheadNone(ls, h, l) == {}
Ahead(ls, h, l) == {k \in Published(ls, h) : k < l}

Granted(ls, h, budget, l) ==
    Least(ls[l].quantity, Greatest(0, budget - SumQuantity(ls, Ahead(ls, h, l))))

ReconciledListings(ls, h, budget) ==
    [l \in DOMAIN ls |->
        IF l \in Published(ls, h)
        THEN [ls[l] EXCEPT !.quantity = Granted(ls, h, budget, l),
                           !.active = Granted(ls, h, budget, l) > 0]
        ELSE ls[l]]

\* ... and the pending offers a reconciled listing no longer covers are rejected.
\* (InactiveOnly: a listing cut below an offer's quantity keeps the offer.)
UncoveredInactiveOnly(os, ls, h) ==
    {o \in DOMAIN os :
        LET l == os[o].listing IN
        os[o].status = "pending" /\ ls[l].holding = h /\ ~ls[l].expired /\ ~ls[l].active}

UncoveredOffers(os, ls, h) ==
    {o \in DOMAIN os :
        LET l == os[o].listing IN
        /\ os[o].status = "pending"
        /\ ls[l].holding = h /\ ~ls[l].expired
        /\ ~ls[l].active \/ os[o].quantity > ls[l].quantity}

\* The tables after reconcileHoldingListings, from the given listings and offers.
Reconcile(ls, os, h, budget) ==
    LET after == ReconciledListings(ls, h, budget) IN
    /\ listings' = after
    /\ offers' = RejectOffers(os, UncoveredOffers(os, after, h))

\* The checks every use of a holding's stock makes: status='available', assertBatchNotRecalled.
\* (DespiteRecall: the recall check forgotten.)
TradableDespiteRecall(h) == holdings[h].status = "available"
Tradable(h) == holdings[h].status = "available" /\ holdings[h].batch \notin held

-----------------------------------------------------------------------------
(* Registration and allocation of source stock.                            *)

NewHolding(b, org, q, status) == [batch |-> b, holder |-> org, quantity |-> q, status |-> status]
NewListing(org, h, q) ==
    [seller |-> org, holding |-> h, quantity |-> q, active |-> TRUE, expired |-> FALSE]

\* registerHarvestBatch and registerDirectInventory: a batch and one holding of all of it.
registerBatch(b, org, q, h) ==
    /\ source[b].quantity = 0
    /\ h \notin DOMAIN holdings
    /\ source' = [source EXCEPT ![b] = [holder |-> org, quantity |-> q]]
    /\ holdings' = Insert(holdings, h, NewHolding(b, org, q, "available"))
    /\ UNCHANGED <<listings, offers, transfers, contracts, held, withdrawing>>

\* createHolding: current_holder_id allocates part of what no live holding has.
createHolding(b, q, h) ==
    /\ source[b].quantity > 0
    /\ b \notin held
    /\ q <= source[b].quantity - allocatedBatchQuantity(b)
    /\ h \notin DOMAIN holdings
    /\ holdings' = Insert(holdings, h, NewHolding(b, source[b].holder, q, "available"))
    /\ UNCHANGED <<source, listings, offers, transfers, contracts, held, withdrawing>>

\* publishBatchInventory's holdings: the batch holder's available ones ...
OwnAvailable(b) ==
    {h \in DOMAIN holdings : /\ holdings[h].batch = b
                             /\ holdings[h].holder = source[b].holder
                             /\ holdings[h].status = "available"}
Unreserved(h) == holdings[h].quantity - publishedQuantity(h) - pendingTransferQuantity(h)

\* ... of which bestHolding takes one with the most unreserved stock.
publishBatchFromHolding(b, q, l) ==
    /\ source[b].quantity > 0
    /\ b \notin held
    /\ l \notin DOMAIN listings
    /\ \E h \in OwnAvailable(b) :
        /\ \A g \in OwnAvailable(b) : Unreserved(g) <= Unreserved(h)
        /\ q <= Unreserved(h)
        /\ listings' = Insert(listings, l, NewListing(source[b].holder, h, q))
    /\ UNCHANGED <<source, holdings, offers, transfers, contracts, held, withdrawing>>

\* publishBatchInventory without such a holding: allocate one of exactly the listed quantity.
publishBatchFromSource(b, q, h, l) ==
    /\ source[b].quantity > 0
    /\ b \notin held
    /\ OwnAvailable(b) = {}
    /\ q <= source[b].quantity - allocatedBatchQuantity(b)
    /\ h \notin DOMAIN holdings /\ l \notin DOMAIN listings
    /\ holdings' = Insert(holdings, h, NewHolding(b, source[b].holder, q, "available"))
    /\ listings' = Insert(listings, l, NewListing(source[b].holder, h, q))
    /\ UNCHANGED <<source, offers, transfers, contracts, held, withdrawing>>

-----------------------------------------------------------------------------
(* Publication.                                                            *)

publishListing(h, q, l) ==
    /\ h \in DOMAIN holdings /\ Tradable(h)
    /\ q <= holdings[h].quantity - publishedQuantity(h) - pendingTransferQuantity(h)
    /\ l \notin DOMAIN listings
    /\ listings' = Insert(listings, l, NewListing(holdings[h].holder, h, q))
    /\ UNCHANGED <<source, holdings, offers, transfers, contracts, held, withdrawing>>

\* The listing's holding is still the seller's and available: editing is allowed at all.
Editable(l) ==
    LET h == listings[l].holding IN
    /\ l \in DOMAIN listings
    /\ holdings[h].holder = listings[l].seller
    /\ holdings[h].status = "available"

\* assertListingCurrent, assertBatchNotRecalled and the free quantity, for an active outcome.
\* (DespiteRecall: the recall check forgotten.)
PublishableDespiteRecall(l, q) ==
    LET h == listings[l].holding IN
    /\ ~listings[l].expired
    /\ q <= holdings[h].quantity - publishedSiblings(h, l) - pendingTransferQuantity(h)

Publishable(l, q) ==
    LET h == listings[l].holding IN
    /\ ~listings[l].expired
    /\ holdings[h].batch \notin held
    /\ q <= holdings[h].quantity - publishedSiblings(h, l) - pendingTransferQuantity(h)

editListing(l, q, active) ==
    LET h == listings[l].holding
        edited == [listings EXCEPT ![l].quantity = q, ![l].active = active]
    IN  /\ Editable(l)
        /\ active => Publishable(l, q)
        /\ Reconcile(edited, offers, h, holdings[h].quantity - pendingTransferQuantity(h))
        /\ UNCHANGED <<source, holdings, transfers, contracts, held, withdrawing>>

withdrawListing(l) ==
    LET h == listings[l].holding
        withdrawn == [listings EXCEPT ![l].active = FALSE]
    IN  /\ Editable(l)
        /\ Reconcile(withdrawn, offers, h, holdings[h].quantity - pendingTransferQuantity(h))
        /\ UNCHANGED <<source, holdings, transfers, contracts, held, withdrawing>>

\* POST /listings/:id/renew: a reviewed future expiry; pending offers must be made again.
renewListing(l) ==
    LET h == listings[l].holding IN
    /\ Editable(l)
    /\ listings[l].active
    /\ holdings[h].batch \notin held
    /\ listings[l].quantity <= holdings[h].quantity - publishedSiblings(h, l) - pendingTransferQuantity(h)
    /\ \A o \in DOMAIN offers : offers[o].listing = l => offers[o].status # "accepted"
    /\ offers' = RejectOffers(offers, PendingOn(offers, l))
    /\ listings' = [listings EXCEPT ![l].expired = FALSE]
    /\ UNCHANGED <<source, holdings, transfers, contracts, held, withdrawing>>

-----------------------------------------------------------------------------
(* Offers.                                                                 *)

createTradeOffer(l, buyer, q, o) ==
    LET h == listings[l].holding IN
    /\ l \in DOMAIN listings /\ o \notin DOMAIN offers
    /\ listings[l].active /\ ~listings[l].expired
    /\ Tradable(h)
    /\ buyer # listings[l].seller
    /\ listings[l].seller = holdings[h].holder
    /\ q <= listings[l].quantity
    /\ q <= holdings[h].quantity - pendingTransferQuantity(h)
    /\ offers' = Insert(offers, o, [listing |-> l, buyer |-> buyer, quantity |-> q,
                                    lapsed |-> FALSE, status |-> "pending"])
    /\ UNCHANGED <<source, holdings, listings, transfers, contracts, held, withdrawing>>

\* The checks of acceptTradeOffer after lockOfferInventory.
Acceptable(o) ==
    LET l == offers[o].listing
        h == listings[l].holding
    IN  /\ o \in DOMAIN offers
        /\ offers[o].status = "pending" /\ ~offers[o].lapsed
        /\ listings[l].seller = holdings[h].holder
        /\ offers[o].buyer # listings[l].seller
        /\ listings[l].active /\ ~listings[l].expired
        /\ Tradable(h)
        /\ offers[o].quantity <= listings[l].quantity
        /\ offers[o].quantity <= holdings[h].quantity - pendingTransferQuantity(h)
        /\ o \notin DOMAIN contracts

\* The advertised quantity that stays on sale once offer o has its part.
RemainingListing(o) ==
    LET l == offers[o].listing
        h == listings[l].holding
    IN  Greatest(0, Least(listings[l].quantity - offers[o].quantity,
                          holdings[h].quantity - offers[o].quantity - pendingTransferQuantity(h)))

\* The committed slice c: a new holding, or the whole of h when nothing is left of it.
\* (Whole: the holding committed without splitting it; Twice: the residual not written back.)
CommitWhole(h, c, q) ==
    /\ c = h
    /\ holdings' = [holdings EXCEPT ![h].status = "committed"]

CommitTwice(h, c, q) ==
    /\ c \notin DOMAIN holdings
    /\ holdings' = Insert(holdings, c,
                          NewHolding(holdings[h].batch, holdings[h].holder, q, "committed"))

CommitHolding(h, c, q) ==
    IF q < holdings[h].quantity
    THEN /\ c \notin DOMAIN holdings
         /\ holdings' = Insert([holdings EXCEPT ![h].quantity = @ - q], c,
                               NewHolding(holdings[h].batch, holdings[h].holder, q, "committed"))
    ELSE /\ c = h
         /\ holdings' = [holdings EXCEPT ![h].status = "committed"]

(***************************************************************************)
(* The accepted listing moves to the committed slice; its other pending    *)
(* offers are rejected; the siblings are reconciled to what the remainder  *)
(* of the listing leaves, and the remainder continues as a new listing k.  *)
(***************************************************************************)
acceptTradeOffer(o, c, k) ==
    LET l == offers[o].listing
        h == listings[l].holding
        q == offers[o].quantity
        remaining == RemainingListing(o)
        budget == holdings[h].quantity - q - pendingTransferQuantity(h) - remaining
        moved == [listings EXCEPT ![l].active = FALSE, ![l].holding = c, ![l].quantity = q]
        decided == [RejectOffers(offers, PendingOn(offers, l) \ {o}) EXCEPT ![o].status = "accepted"]
        after == ReconciledListings(moved, h, budget)
    IN  /\ Acceptable(o)
        /\ CommitHolding(h, c, q)
        /\ IF remaining > 0
           THEN /\ k \notin DOMAIN listings
                /\ listings' = Insert(after, k, NewListing(listings[l].seller, h, remaining))
           ELSE listings' = after
        /\ offers' = RejectOffers(decided, UncoveredOffers(decided, after, h))
        /\ contracts' = Insert(contracts, o,
                               [listing |-> l, holding |-> c, seller |-> listings[l].seller,
                                buyer |-> offers[o].buyer, quantity |-> q, status |-> "open"])
        /\ UNCHANGED <<source, transfers, held, withdrawing>>

rejectTradeOffer(o) ==
    LET l == offers[o].listing IN
    /\ o \in DOMAIN offers /\ offers[o].status = "pending"
    /\ listings[l].seller = holdings[listings[l].holding].holder
    /\ offers' = [offers EXCEPT ![o].status = "rejected"]
    /\ UNCHANGED <<source, holdings, listings, transfers, contracts, held, withdrawing>>

\* withdrawTradeOffer finds the holding to lock; nothing is locked yet.  (A request for an
\* offer that is already decided can change nothing any more.)
discoverWithdrawal(o) ==
    /\ o \in DOMAIN offers /\ offers[o].status = "pending"
    /\ o \notin DOMAIN withdrawing
    /\ withdrawing' = Insert(withdrawing, o, listings[offers[o].listing].holding)
    /\ UNCHANGED <<source, holdings, listings, offers, transfers, contracts, held>>

\* With the locks held the offer is read again: cancelled if still pending and still there.
\* (Stale: the status believed from before the locks.)
WithdrawableStale(o) == listings[offers[o].listing].holding = withdrawing[o]

Withdrawable(o) ==
    /\ listings[offers[o].listing].holding = withdrawing[o]
    /\ offers[o].status = "pending"

withdrawTradeOffer(o) ==
    /\ o \in DOMAIN withdrawing
    /\ offers' = IF Withdrawable(o) THEN [offers EXCEPT ![o].status = "cancelled"] ELSE offers
    /\ withdrawing' = [x \in DOMAIN withdrawing \ {o} |-> withdrawing[x]]
    /\ UNCHANGED <<source, holdings, listings, transfers, contracts, held>>

-----------------------------------------------------------------------------
(* Custody transfers and splits.                                           *)

transferHolding(h, to, q, t) ==
    LET free == holdings[h].quantity - pendingTransferQuantity(h) IN
    /\ h \in DOMAIN holdings /\ t \notin DOMAIN transfers
    /\ to # holdings[h].holder
    /\ Tradable(h)
    /\ q <= free
    /\ transfers' = Insert(transfers, t, [holding |-> h, from |-> holdings[h].holder, to |-> to,
                                          quantity |-> q, status |-> "requested"])
    /\ Reconcile(listings, offers, h, free - q)
    /\ UNCHANGED <<source, holdings, contracts, held, withdrawing>>

\* A source holding that gives all its stock keeps its quantity, as history.
\* (Partial: a source left with nothing not marked transferred.)
TakeFromPartial(h, q) ==
    IF q = holdings[h].quantity THEN holdings ELSE [holdings EXCEPT ![h].quantity = @ - q]

TakeFrom(h, q) ==
    IF q = holdings[h].quantity
    THEN [holdings EXCEPT ![h].status = "transferred"]
    ELSE [holdings EXCEPT ![h].quantity = @ - q]

acceptTransfer(t, n) ==
    LET h == transfers[t].holding
        q == transfers[t].quantity
        reserved == SumQuantity(transfers, RequestedTransfers(h) \ {t})
    IN  /\ t \in DOMAIN transfers /\ n \notin DOMAIN holdings
        /\ transfers[t].status = "requested"
        /\ Tradable(h)
        /\ holdings[h].holder = transfers[t].from
        /\ transfers[t].to # transfers[t].from
        /\ q > 0
        /\ q <= holdings[h].quantity - reserved
        /\ holdings' = Insert(TakeFrom(h, q), n,
                              NewHolding(holdings[h].batch, transfers[t].to, q, "available"))
        /\ transfers' = [transfers EXCEPT ![t].status = "accepted"]
        /\ Reconcile(listings, offers, h, holdings[h].quantity - q - reserved)
        /\ UNCHANGED <<source, contracts, held, withdrawing>>

\* splitHolding into two parts (more parts are repeated splits).
splitHolding(h, q, m, n) ==
    LET part(x) == NewHolding(holdings[h].batch, holdings[h].holder, x, "available") IN
    /\ h \in DOMAIN holdings /\ m \notin DOMAIN holdings /\ n \notin DOMAIN holdings /\ m # n
    /\ Tradable(h)
    /\ pendingTransferQuantity(h) = 0
    /\ q < holdings[h].quantity
    /\ holdings' = Insert(Insert([holdings EXCEPT ![h].status = "transferred"], m, part(q)),
                          n, part(holdings[h].quantity - q))
    /\ Reconcile(listings, offers, h, 0)
    /\ UNCHANGED <<source, transfers, contracts, held, withdrawing>>

-----------------------------------------------------------------------------
(* The ends of a contract.                                                 *)

\* The committed slice is still exactly what the contract sold.
SliceIntact(o) ==
    LET c == contracts[o] IN
    /\ c.status = "open"
    /\ holdings[c.holding].status = "committed"
    /\ holdings[c.holding].holder = c.seller
    /\ holdings[c.holding].quantity = c.quantity

(***************************************************************************)
(* completeTradeIfReady, once the deal is delivered, accepted and paid     *)
(* (those conditions are the deal's and may become true at any time): the  *)
(* holding is the buyer's, and a custody transfer is recorded unless one   *)
(* of this holding to this buyer already is.                               *)
(***************************************************************************)
CustodyRecorded(h, org) ==
    \E t \in DOMAIN transfers : /\ transfers[t].holding = h
                                /\ transfers[t].to = org
                                /\ transfers[t].status = "accepted"

completeTrade(o, t) ==
    LET c == contracts[o] IN
    /\ o \in DOMAIN contracts
    /\ SliceIntact(o)
    /\ IF CustodyRecorded(c.holding, c.buyer)
       THEN UNCHANGED transfers
       ELSE /\ t \notin DOMAIN transfers
            /\ transfers' = Insert(transfers, t, [holding |-> c.holding, from |-> c.seller, to |-> c.buyer,
                                                  quantity |-> c.quantity, status |-> "accepted"])
    /\ holdings' = [holdings EXCEPT ![c.holding].holder = c.buyer, ![c.holding].status = "available"]
    /\ contracts' = [contracts EXCEPT ![o].status = "settled"]
    /\ UNCHANGED <<source, listings, offers, held, withdrawing>>

\* inventorySafe: the slice is intact and nothing else is promised from it.
InventorySafe(o) ==
    LET h == contracts[o].holding IN
    /\ SliceIntact(o)
    /\ \A l \in DOMAIN listings : ~(listings[l].holding = h /\ listings[l].active)
    /\ RequestedTransfers(h) = {}
    /\ \A x \in DOMAIN contracts \ {o} : ~(contracts[x].holding = h /\ contracts[x].status = "open")

\* reviewCancellation approved by the other party, for a deal without activity.
approveCancellation(o) ==
    /\ o \in DOMAIN contracts
    /\ InventorySafe(o)
    /\ holdings[contracts[o].holding].batch \notin held
    /\ contracts' = [contracts EXCEPT ![o].status = "cancelled"]
    /\ holdings' = [holdings EXCEPT ![contracts[o].holding].status = "available"]
    /\ UNCHANGED <<source, listings, offers, transfers, held, withdrawing>>

-----------------------------------------------------------------------------
(* Recall holds and the clock.                                             *)

\* activateRecall withdraws every active listing of the batch; offers stay pending.
activateRecall(b) ==
    /\ source[b].quantity > 0
    /\ held' = held \cup {b}
    /\ listings' = [l \in DOMAIN listings |->
                        [listings[l] EXCEPT !.active = @ /\ holdings[listings[l].holding].batch # b]]
    /\ UNCHANGED <<source, holdings, offers, transfers, contracts, withdrawing>>

\* resolveRecallResponse with nothing returned or destroyed releases the batch.
resolveRecall(b) ==
    /\ b \in held
    /\ held' = held \ {b}
    /\ UNCHANGED <<source, holdings, listings, offers, transfers, contracts, withdrawing>>

\* expires_at <= clock_timestamp() becomes true.
expireListing(l) ==
    /\ l \in DOMAIN listings /\ ~listings[l].expired
    /\ listings' = [listings EXCEPT ![l].expired = TRUE]
    /\ UNCHANGED <<source, holdings, offers, transfers, contracts, held, withdrawing>>

\* valid_until > clock_timestamp() becomes false; only a pending offer's is ever read.
lapseOffer(o) ==
    /\ o \in DOMAIN offers /\ offers[o].status = "pending" /\ ~offers[o].lapsed
    /\ offers' = [offers EXCEPT ![o].lapsed = TRUE]
    /\ UNCHANGED <<source, holdings, listings, transfers, contracts, held, withdrawing>>

-----------------------------------------------------------------------------
\* A batch is not registered yet, or was loaded before holdings were kept.
Init ==
    /\ source \in [Batches -> SourceRow]
    /\ holdings = EmptyTable
    /\ listings = EmptyTable
    /\ offers = EmptyTable
    /\ transfers = EmptyTable
    /\ contracts = EmptyTable
    /\ held = {}
    /\ withdrawing = EmptyTable

AllocateStock ==
    \E b \in Batches, q \in 1..MaxGrams, h \in HoldingIds :
        \/ \E org \in Orgs : registerBatch(b, org, q, h)
        \/ createHolding(b, q, h)
        \/ \E l \in ListingIds : publishBatchFromSource(b, q, h, l)

PublishStock ==
    \E l \in ListingIds :
        \/ \E b \in Batches, q \in 1..MaxGrams : publishBatchFromHolding(b, q, l)
        \/ \E h \in HoldingIds, q \in 1..MaxGrams : publishListing(h, q, l)
        \/ \E q \in 1..MaxGrams, active \in BOOLEAN : editListing(l, q, active)
        \/ withdrawListing(l)
        \/ renewListing(l)
        \/ expireListing(l)

DecideOffers ==
    \E o \in OfferIds :
        \/ \E l \in ListingIds, buyer \in Orgs, q \in 1..MaxGrams : createTradeOffer(l, buyer, q, o)
        \/ \E c \in HoldingIds, k \in ListingIds : acceptTradeOffer(o, c, k)
        \/ rejectTradeOffer(o)
        \/ discoverWithdrawal(o)
        \/ withdrawTradeOffer(o)
        \/ lapseOffer(o)

MoveStock ==
    \/ \E h \in HoldingIds, to \in Orgs, q \in 1..MaxGrams, t \in TransferIds : transferHolding(h, to, q, t)
    \/ \E t \in TransferIds, n \in HoldingIds : acceptTransfer(t, n)
    \/ \E h, m, n \in HoldingIds, q \in 1..MaxGrams : splitHolding(h, q, m, n)

CloseContracts ==
    \E o \in OfferIds :
        \/ \E t \in TransferIds : completeTrade(o, t)
        \/ approveCancellation(o)

RecallStock == \E b \in Batches : activateRecall(b) \/ resolveRecall(b)

Next == AllocateStock \/ PublishStock \/ DecideOffers \/ MoveStock \/ CloseContracts \/ RecallStock

Spec == Init /\ [][Next]_vars

-----------------------------------------------------------------------------
TypeOK ==
    /\ source \in [Batches -> SourceRow]
    /\ IsTable(holdings, HoldingIds, HoldingRow)
    /\ IsTable(listings, ListingIds, ListingRow)
    /\ IsTable(offers, OfferIds, OfferRow)
    /\ IsTable(transfers, TransferIds, TransferRow)
    /\ IsTable(contracts, OfferIds, ContractRow)
    /\ held \subseteq Batches
    /\ IsTable(withdrawing, OfferIds, HoldingIds)

(***************************************************************************)
(* SOURCE_OVERALLOCATED never arises: the live holdings of a batch never   *)
(* add up to more than was registered, whatever is split, transferred,     *)
(* committed, released and sold on.                                        *)
(***************************************************************************)
SourceNotOverallocated ==
    \A b \in Batches : allocatedBatchQuantity(b) <= source[b].quantity

(***************************************************************************)
(* HOLDING_OVERRESERVED and INACTIVE_HOLDING_HAS_RESERVATION, for the      *)
(* publications the market sees: what is published from a holding plus     *)
(* what is promised to custody transfers fits in it, and a committed or    *)
(* transferred holding promises nothing.                                   *)
(***************************************************************************)
ReservationsFit ==
    \A h \in DOMAIN holdings :
        publishedQuantity(h) + pendingTransferQuantity(h)
            <= IF holdings[h].status = "available" THEN holdings[h].quantity ELSE 0

(***************************************************************************)
(* COMMITTED_HOLDING_WITHOUT_SINGLE_CONTRACT and CONTRACT_HOLDING_MISMATCH *)
(* never arise: a holding is committed exactly when one open contract has  *)
(* it, and then it is the seller's and of the contract's quantity.         *)
(***************************************************************************)
CommittedForOneContract ==
    /\ \A o \in DOMAIN contracts : contracts[o].status = "open" => SliceIntact(o)
    /\ \A h \in DOMAIN holdings : holdings[h].status = "committed" =>
          \E o \in DOMAIN contracts : contracts[o].status = "open" /\ contracts[o].holding = h
    /\ \A o, x \in DOMAIN contracts :
          contracts[o].status = "open" /\ contracts[x].status = "open"
             /\ contracts[o].holding = contracts[x].holding => o = x

(***************************************************************************)
(* Whoever can see a publication can rely on it: a pending offer on it is  *)
(* for no more than it advertises, and the advertised stock is available   *)
(* and the seller's.  (PENDING_TRANSFER_OWNER_MISMATCH and                 *)
(* LISTING_OWNER_MISMATCH for what is published.)                          *)
(***************************************************************************)
PromisesKept ==
    /\ \A h \in DOMAIN holdings : \A l \in Published(listings, h) :
          /\ listings[l].seller = holdings[h].holder
          /\ \A o \in PendingOn(offers, l) : offers[o].quantity <= listings[l].quantity
    /\ \A h \in DOMAIN holdings : \A t \in RequestedTransfers(h) :
          transfers[t].from = holdings[h].holder /\ transfers[t].to # transfers[t].from

\* ACTIVE_RECALL_LISTING_PUBLISHED never arises, not even for expired listings.
NothingPublishedUnderRecall ==
    \A l \in DOMAIN listings :
        holdings[listings[l].holding].batch \in held => ~listings[l].active

(***************************************************************************)
(* CONTRACT_OFFER_MISMATCH and ACCEPTED_OFFER_WITHOUT_SINGLE_CONTRACT:     *)
(* exactly the accepted offers have contracts, on the offer's own terms.   *)
(***************************************************************************)
ContractsMatchOffers ==
    /\ DOMAIN contracts = {o \in DOMAIN offers : offers[o].status = "accepted"}
    /\ \A o \in DOMAIN contracts :
          /\ contracts[o].listing = offers[o].listing
          /\ contracts[o].buyer = offers[o].buyer
          /\ contracts[o].quantity = offers[o].quantity
          /\ contracts[o].seller = listings[offers[o].listing].seller

\* One terminal decision wins: acceptance, rejection and withdrawal race for a pending offer only.
OfferDecidedOnce ==
    [][\A o \in DOMAIN offers :
          offers[o].status # "pending" => offers'[o].status = offers[o].status]_vars

(***************************************************************************)
(* Stock under a recall hold stays where it is: it is not split, moved or  *)
(* committed; only a contract made before the recall can still settle.     *)
(***************************************************************************)
RecalledStockStays ==
    [][\A h \in DOMAIN holdings : holdings[h].batch \in held =>
          \/ holdings'[h] = holdings[h]
          \/ \E o \in DOMAIN contracts : /\ contracts[o].holding = h
                                         /\ contracts[o].status = "open"
                                         /\ contracts'[o].status = "settled"]_vars

-----------------------------------------------------------------------------
(* What the documents say, where the code does otherwise.                  *)

\* "Quarantined inventory cannot be released by settlement." (docs/runbooks/DELIVERY_ACCEPTANCE.md)
QuarantineSurvivesSettlement ==
    [][\A h \in DOMAIN holdings :
          holdings[h].batch \in held /\ holdings[h].status = "committed"
             => holdings'[h].status = "committed"]_vars
=============================================================================
