----------------------------- MODULE StockProofs ----------------------------
(***************************************************************************)
(* Theorems about the quantities of Inventory: what is allocated, what is  *)
(* published and what is promised, for every number of rows and every      *)
(* quantity; and that the program implements StockLedger.                  *)
(***************************************************************************)
EXTENDS InventoryProofs, InventoryLedger

-----------------------------------------------------------------------------
(* Sums of a quantity column.  A sum is the number of grams there are, so  *)
(* each fact about sums is a fact about finite sets of grams.              *)

\* Finitely many rows, each with a quantity the column can hold.
Rows(table, ids) == IsFiniteSet(ids) /\ \A i \in ids : table[i].quantity \in Grams

\* SumQuantity counts grams: there are finitely many.
LEMMA GramsFinite ==
    ASSUME NEW table, NEW ids, IsFiniteSet(ids)
    PROVE  IsFiniteSet(GramsOf(table, ids))
<1>1. IsFiniteSet(1..MaxGrams)
    BY FS_Interval, MaxGramsAssumption
<1>2. IsFiniteSet(ids \X (1..MaxGrams))
    BY <1>1, FS_Product
<1>3. GramsOf(table, ids) \in SUBSET (ids \X (1..MaxGrams))
    BY DEF GramsOf
<1>. QED
    BY <1>2, <1>3, FS_Subset

\* SUM over no rows is 0 (COALESCE).
LEMMA SumOfNone == ASSUME NEW table PROVE SumQuantity(table, {}) = 0
<1>1. GramsOf(table, {}) = {}
    BY DEF GramsOf
<1>. QED
    BY <1>1, FS_EmptySet DEF SumQuantity

\* SUM over one row is its quantity.
LEMMA SumOfOne ==
    ASSUME NEW table, NEW i, table[i].quantity \in Grams
    PROVE  SumQuantity(table, {i}) = table[i].quantity
<1>. DEFINE q == table[i].quantity
<1>1. q \in 0..MaxGrams /\ MaxGrams \in Nat
    BY MaxGramsAssumption DEF Grams
<1>2. GramsOf(table, {i}) = {i} \X (1..q)
    BY <1>1 DEF GramsOf
<1>3. IsFiniteSet({i}) /\ Cardinality({i}) = 1
    BY FS_Singleton
<1>. HIDE DEF q
<1>4. IsFiniteSet(1..q) /\ Cardinality(1..q) = q
    BY <1>1, FS_Interval
<1>5. Cardinality({i} \X (1..q)) = Cardinality({i}) * Cardinality(1..q)
    BY <1>3, <1>4, FS_Product
<1>6. Cardinality({i} \X (1..q)) = q
    BY <1>1, <1>3, <1>4, <1>5
<1>. QED
    BY <1>2, <1>6 DEF SumQuantity, q

\* SUM over two disjoint sets of rows is the sum of their sums.
LEMMA SumOfBoth ==
    ASSUME NEW table, NEW A, NEW B, IsFiniteSet(A), IsFiniteSet(B), A \cap B = {}
    PROVE  SumQuantity(table, A \cup B) = SumQuantity(table, A) + SumQuantity(table, B)
<1>1. GramsOf(table, A \cup B) = GramsOf(table, A) \cup GramsOf(table, B)
    BY DEF GramsOf
<1>2. GramsOf(table, A) \cap GramsOf(table, B) = {}
    BY DEF GramsOf
<1>3. IsFiniteSet(GramsOf(table, A)) /\ IsFiniteSet(GramsOf(table, B))
    BY GramsFinite
<1>4. Cardinality(GramsOf(table, A)) \in Nat /\ Cardinality(GramsOf(table, B)) \in Nat
    BY <1>3, FS_CardinalityType
<1>5. Cardinality(GramsOf(table, A) \cup GramsOf(table, B))
        = Cardinality(GramsOf(table, A)) + Cardinality(GramsOf(table, B)) - Cardinality({})
    BY <1>2, <1>3, FS_Union
<1>. QED
    BY <1>1, <1>4, <1>5, FS_EmptySet DEF SumQuantity

\* SUM over fewer rows, or over rows of smaller quantities, is no more.
LEMMA SumMonotone ==
    ASSUME NEW t, NEW u, NEW A, NEW B, IsFiniteSet(B), A \subseteq B, Rows(t, A), Rows(u, B),
           \A i \in A : t[i].quantity <= u[i].quantity
    PROVE  SumQuantity(t, A) <= SumQuantity(u, B)
<1>1. GramsOf(t, A) \subseteq GramsOf(u, B)
    BY MaxGramsAssumption DEF GramsOf, Rows, Grams
<1>. QED
    BY <1>1, GramsFinite, FS_Subset DEF SumQuantity

\* SUM sees nothing but the quantities of the rows it is over.
LEMMA SumSame ==
    ASSUME NEW t, NEW u, NEW A, \A i \in A : t[i].quantity = u[i].quantity
    PROVE  SumQuantity(t, A) = SumQuantity(u, A)
<1>1. GramsOf(t, A) = GramsOf(u, A)
    BY DEF GramsOf
<1>. QED
    BY <1>1 DEF SumQuantity

\* A row apart from the others.
LEMMA SumApart ==
    ASSUME NEW table, NEW A, NEW i \in A, Rows(table, A)
    PROVE  SumQuantity(table, A) = SumQuantity(table, A \ {i}) + table[i].quantity
<1>1. IsFiniteSet(A \ {i}) /\ IsFiniteSet({i})
    BY FS_RemoveElement, FS_Singleton DEF Rows
<1>2. A = (A \ {i}) \cup {i} /\ (A \ {i}) \cap {i} = {}
    OBVIOUS
<1>3. SumQuantity(table, A) = SumQuantity(table, A \ {i}) + SumQuantity(table, {i})
    BY <1>1, <1>2, SumOfBoth
<1>. QED
    BY <1>3, SumOfOne DEF Rows

\* A sum of nothing but positive quantities is 0 only over no rows.
LEMMA SumPositive ==
    ASSUME NEW table, NEW A, Rows(table, A), \A i \in A : table[i].quantity > 0, SumQuantity(table, A) <= 0
    PROVE  A = {}
<1>. SUFFICES ASSUME NEW i \in A PROVE FALSE
    OBVIOUS
<1>1. IsFiniteSet(A \ {i})
    BY FS_RemoveElement DEF Rows
<1>2. SumQuantity(table, A \ {i}) \in Nat
    BY <1>1, SumIsNat
<1>3. table[i].quantity \in Nat
    BY MaxGramsAssumption DEF Rows, Grams
<1>4. SumQuantity(table, A) = SumQuantity(table, A \ {i}) + table[i].quantity
    BY SumApart
<1>. QED
    BY <1>2, <1>3, <1>4

-----------------------------------------------------------------------------
(* reconcileHoldingListings shares a budget and never more.                *)

\* Among finitely many listing ids there is a last one.
LEMMA LastId ==
    ASSUME NEW S, IsFiniteSet(S), S \subseteq Nat, S # {}
    PROVE  \E m \in S : \A x \in S : x <= m
<1>. DEFINE After(x) == {y \in S : y > x}
            T == {After(x) : x \in S}
<1>1. IsWellFoundedOn(StrictSubsetOrdering(S), FiniteSubsetsOf(S))
    BY FS_StrictSubsetOrderingWellFounded
<1>2. T \subseteq FiniteSubsetsOf(S) /\ T # {}
    <2>1. FiniteSubsetsOf(S) = SUBSET S
        BY FS_FiniteSubsetsOfFinite
    <2>2. T \subseteq SUBSET S /\ T # {}
        OBVIOUS
    <2>. HIDE DEF T
    <2>. QED
        BY <2>1, <2>2
<1>3. PICK M \in T : \A Y \in T : ~(<<Y, M>> \in StrictSubsetOrdering(S))
    <2>. HIDE DEF T
    <2>. QED
        BY <1>1, <1>2, WFMin
<1>4. PICK m \in S : M = After(m)
    OBVIOUS
<1>5. ASSUME NEW x \in S, ~(x <= m) PROVE FALSE
    <2>1. x \in Nat /\ m \in Nat /\ x > m
        BY <1>5
    <2>2. After(x) \subseteq After(m) /\ x \in After(m) /\ x \notin After(x)
        <3>1. x \in After(m) /\ x \notin After(x)
            BY <2>1
        <3>2. ASSUME NEW y \in After(x) PROVE y \in After(m)
            <4>1. y \in Nat /\ y > x /\ y \in S
                OBVIOUS
            <4>2. y > m
                BY <2>1, <4>1
            <4>. QED
                BY <4>1, <4>2
        <3>. HIDE DEF After
        <3>. QED
            BY <3>1, <3>2
    <2>3. <<After(x), After(m)>> \in StrictSubsetOrdering(S)
        BY <2>2 DEF StrictSubsetOrdering
    <2>. QED
        BY <1>3, <1>4, <2>3
<1>. QED
    BY <1>5

(***************************************************************************)
(* What reconcileHoldingListings leaves published on h fits in the budget: *)
(* the last listing that is left anything gets at most what the ones ahead *)
(* of it leave, and they are left no more than they advertised before.     *)
(***************************************************************************)
LEMMA ReconcileFits ==
    ASSUME NEW ls, IsTable(ls, ListingIds, ListingRow), NEW h, NEW budget \in Int,
           NEW after, after = ReconciledListings(ls, h, budget)
    PROVE  SumQuantity(after, Published(after, h)) <= Greatest(0, budget)
<1>. DEFINE P == Published(after, h)
<1>1. /\ IsTable(after, ListingIds, ListingRow)
      /\ DOMAIN after = DOMAIN ls
      /\ \A l \in DOMAIN ls : /\ after[l].holding = ls[l].holding
                              /\ after[l].expired = ls[l].expired
                              /\ after[l].active => ls[l].active
                              /\ after[l].quantity <= ls[l].quantity
    BY ReconcileRows
<1>2. P \subseteq Published(ls, h) /\ Published(ls, h) \subseteq DOMAIN ls
    <2>. QED
        BY <1>1 DEF Published
<1>3. IsFiniteSet(P) /\ P \subseteq Nat /\ IsFiniteSet(Published(ls, h))
    BY <1>2, FiniteTable, InventoryAssumption DEF IsTable
<1>4. \A l \in P : after[l].quantity \in Grams /\ ls[l].quantity \in Grams
    <2>. QED
        BY <1>1, <1>2 DEF IsTable, ListingRow
<1>5. CASE P = {}
    BY <1>5, SumOfNone DEF Greatest
<1>6. CASE P # {}
    <2>1. PICK m \in P : \A l \in P : l <= m
        BY <1>3, <1>6, LastId
    <2>. DEFINE ahead == SumQuantity(ls, Ahead(ls, h, m))
    <2>2. Ahead(ls, h, m) \in SUBSET Published(ls, h)
        BY DEF Ahead
    <2>3. IsFiniteSet(Ahead(ls, h, m))
        BY <1>3, <2>2, FS_Subset
    <2>4. ahead \in Nat
        BY <2>3, SumIsNat
    <2>5. after[m].quantity = Granted(ls, h, budget, m) /\ after[m].active = (Granted(ls, h, budget, m) > 0)
        <3>1. m \in Published(ls, h) /\ m \in DOMAIN ls
            BY <1>2, <2>1
        <3>2. after[m] = [ls[m] EXCEPT !.quantity = Granted(ls, h, budget, m),
                                       !.active = Granted(ls, h, budget, m) > 0]
            BY <3>1 DEF ReconciledListings
        <3>3. ls[m] \in ListingRow
            BY <3>1 DEF IsTable
        <3>. QED
            BY <3>2, <3>3 DEF ListingRow
    <2>6. after[m].active
        BY <2>1 DEF Published
    <2>7. budget - ahead > 0 /\ after[m].quantity <= budget - ahead
        <3>1. ls[m].quantity \in Int
            BY <1>4, <2>1, MaxGramsAssumption DEF Grams
        <3>2. Granted(ls, h, budget, m) = Least(ls[m].quantity, Greatest(0, budget - ahead))
            BY DEF Granted
        <3>3. Granted(ls, h, budget, m) > 0
            BY <2>5, <2>6
        <3>. HIDE DEF ahead, P
        <3>. QED
            BY <2>4, <2>5, <3>1, <3>2, <3>3 DEF Least, Greatest
    <2>8. SumQuantity(after, P \ {m}) <= ahead
        <3>. HIDE DEF P
        <3>1. P \ {m} \subseteq Ahead(ls, h, m)
            BY <1>2, <1>3, <2>1 DEF Ahead
        <3>2. Rows(ls, Ahead(ls, h, m))
            BY <1>1, <1>2, <2>2, <2>3 DEF Rows, IsTable, ListingRow
        <3>3. Rows(after, P \ {m}) /\ \A l \in P \ {m} : after[l].quantity <= ls[l].quantity
            BY <1>1, <1>2, <1>3, <1>4, FS_RemoveElement DEF Rows
        <3>. QED
            BY <2>3, <3>1, <3>2, <3>3, SumMonotone
    <2>9. SumQuantity(after, P) = SumQuantity(after, P \ {m}) + after[m].quantity
        <3>. HIDE DEF P
        <3>. QED
            BY <1>3, <1>4, <2>1, SumApart DEF Rows
    <2>10. SumQuantity(after, P \ {m}) \in Nat /\ after[m].quantity \in Nat
        <3>. HIDE DEF P
        <3>. QED
            BY <1>3, <1>4, <2>1, FS_RemoveElement, SumIsNat, MaxGramsAssumption DEF Grams
    <2>. HIDE DEF P, ahead
    <2>11. SumQuantity(after, P) <= Greatest(0, budget)
        BY <2>4, <2>7, <2>8, <2>9, <2>10 DEF Greatest
    <2>. QED
        BY <2>11 DEF P
<1>. QED
    BY <1>5, <1>6

-----------------------------------------------------------------------------
(* What the transactions leave of the holdings they touch.                 *)

\* Row x of holdings', against row h of holdings.
SameStock(x, h) == holdings'[x].batch = holdings[h].batch /\ holdings'[x].holder = holdings[h].holder

\* CommitHolding splits the slice off, or commits the holding whole.
LEMMA CommitRows ==
    ASSUME TypeOK, NEW h \in DOMAIN holdings, NEW c, NEW q \in Grams, q <= holdings[h].quantity,
           CommitHolding(h, c, q)
    PROVE  \/ /\ q < holdings[h].quantity /\ c \notin DOMAIN holdings
              /\ DOMAIN holdings' = DOMAIN holdings \cup {c}
              /\ \A x \in DOMAIN holdings \ {h} : holdings'[x] = holdings[x]
              /\ SameStock(h, h) /\ SameStock(c, h)
              /\ holdings'[h].status = holdings[h].status
              /\ holdings'[h].quantity = holdings[h].quantity - q
              /\ holdings'[c].status = "committed"
              /\ holdings'[c].quantity = q
           \/ /\ q = holdings[h].quantity /\ c = h
              /\ DOMAIN holdings' = DOMAIN holdings
              /\ \A x \in DOMAIN holdings \ {h} : holdings'[x] = holdings[x]
              /\ SameStock(h, h)
              /\ holdings'[h].status = "committed"
              /\ holdings'[h].quantity = q
<1>1. holdings[h] \in HoldingRow /\ holdings[h].quantity \in Int /\ q \in Int
    BY MaxGramsAssumption DEF TypeOK, IsTable, HoldingRow, Grams
<1>2. CASE q < holdings[h].quantity
    <2>. DEFINE cut == [holdings EXCEPT ![h].quantity = @ - q]
                row == NewHolding(holdings[h].batch, holdings[h].holder, q, "committed")
    <2>1. c \notin DOMAIN holdings /\ holdings' = Insert(cut, c, row)
        BY <1>2 DEF CommitHolding
    <2>2. /\ DOMAIN cut = DOMAIN holdings
          /\ cut[h] = [holdings[h] EXCEPT !.quantity = holdings[h].quantity - q]
          /\ \A x \in DOMAIN holdings \ {h} : cut[x] = holdings[x]
        BY DEF TypeOK, IsTable
    <2>3. /\ cut[h].batch = holdings[h].batch /\ cut[h].holder = holdings[h].holder
          /\ cut[h].status = holdings[h].status /\ cut[h].quantity = holdings[h].quantity - q
        BY <1>1, <2>2 DEF HoldingRow
    <2>4. row.batch = holdings[h].batch /\ row.holder = holdings[h].holder
          /\ row.status = "committed" /\ row.quantity = q
        BY DEF NewHolding
    <2>. HIDE DEF cut, row
    <2>. QED
        BY <1>2, <2>1, <2>2, <2>3, <2>4 DEF Insert, SameStock
<1>3. CASE ~(q < holdings[h].quantity)
    <2>1. c = h /\ holdings' = [holdings EXCEPT ![h].status = "committed"]
        BY <1>3 DEF CommitHolding
    <2>2. q = holdings[h].quantity
        BY <1>1, <1>3
    <2>3. /\ DOMAIN holdings' = DOMAIN holdings
          /\ holdings'[h] = [holdings[h] EXCEPT !.status = "committed"]
          /\ \A x \in DOMAIN holdings \ {h} : holdings'[x] = holdings[x]
        BY <2>1 DEF TypeOK, IsTable
    <2>. QED
        BY <1>1, <2>1, <2>2, <2>3 DEF HoldingRow, SameStock
<1>. QED
    BY <1>2, <1>3

\* acceptTransfer takes part of a holding, or all of it and leaves its row as history.
LEMMA TakenRows ==
    ASSUME TypeOK, NEW h \in DOMAIN holdings, NEW n \in HoldingIds \ DOMAIN holdings, NEW q \in Grams,
           NEW to \in Orgs, holdings[h].status = "available",
           holdings' = Insert(TakeFrom(h, q), n, NewHolding(holdings[h].batch, to, q, "available"))
    PROVE  /\ DOMAIN holdings' = DOMAIN holdings \cup {n}
           /\ \A x \in DOMAIN holdings \ {h} : holdings'[x] = holdings[x]
           /\ holdings'[n].batch = holdings[h].batch
           /\ holdings'[n].holder = to
           /\ holdings'[n].quantity = q
           /\ holdings'[n].status = "available"
           /\ SameStock(h, h)
           /\ \/ q = holdings[h].quantity /\ holdings'[h].status = "transferred"
              \/ /\ q # holdings[h].quantity /\ holdings'[h].status = "available"
                 /\ holdings'[h].quantity = holdings[h].quantity - q
<1>. DEFINE rest == TakeFrom(h, q)
            row == NewHolding(holdings[h].batch, to, q, "available")
<1>1. holdings[h] \in HoldingRow
    BY DEF TypeOK, IsTable
<1>2. /\ DOMAIN rest = DOMAIN holdings
      /\ \A x \in DOMAIN holdings \ {h} : rest[x] = holdings[x]
      /\ rest[h].batch = holdings[h].batch /\ rest[h].holder = holdings[h].holder
      /\ \/ q = holdings[h].quantity /\ rest[h].status = "transferred"
         \/ q # holdings[h].quantity /\ rest[h].status = "available" /\ rest[h].quantity = holdings[h].quantity - q
    <2>1. CASE q = holdings[h].quantity
        BY <1>1, <2>1 DEF TakeFrom, TypeOK, IsTable, HoldingRow
    <2>2. CASE q # holdings[h].quantity
        BY <1>1, <2>2 DEF TakeFrom, TypeOK, IsTable, HoldingRow
    <2>. QED
        BY <2>1, <2>2
<1>3. row.batch = holdings[h].batch /\ row.holder = to /\ row.quantity = q /\ row.status = "available"
    BY DEF NewHolding
<1>4. holdings' = Insert(rest, n, row)
    OBVIOUS
<1>. HIDE DEF rest, row
<1>. QED
    BY <1>2, <1>3, <1>4 DEF Insert, SameStock

\* splitHolding replaces a holding by two that add up to it.
LEMMA SplitRows ==
    ASSUME TypeOK, NEW h \in HoldingIds, NEW m \in HoldingIds, NEW n \in HoldingIds, NEW q \in 1..MaxGrams,
           splitHolding(h, q, m, n)
    PROVE  /\ h \in DOMAIN holdings /\ m \notin DOMAIN holdings /\ n \notin DOMAIN holdings /\ m # n
           /\ DOMAIN holdings' = DOMAIN holdings \cup {m, n}
           /\ \A x \in DOMAIN holdings \ {h} : holdings'[x] = holdings[x]
           /\ SameStock(h, h) /\ SameStock(m, h) /\ SameStock(n, h)
           /\ holdings'[h].status = "transferred"
           /\ holdings'[m].status = "available" /\ holdings'[m].quantity = q
           /\ holdings'[n].status = "available" /\ holdings'[n].quantity = holdings[h].quantity - q
<1>. DEFINE gone == [holdings EXCEPT ![h].status = "transferred"]
            pm == NewHolding(holdings[h].batch, holdings[h].holder, q, "available")
            pn == NewHolding(holdings[h].batch, holdings[h].holder, holdings[h].quantity - q, "available")
<1>1. /\ h \in DOMAIN holdings /\ m \notin DOMAIN holdings /\ n \notin DOMAIN holdings /\ m # n
      /\ holdings' = Insert(Insert(gone, m, pm), n, pn)
    BY DEF splitHolding
<1>2. /\ DOMAIN gone = DOMAIN holdings
      /\ gone[h].batch = holdings[h].batch /\ gone[h].holder = holdings[h].holder
      /\ gone[h].status = "transferred"
      /\ \A x \in DOMAIN holdings \ {h} : gone[x] = holdings[x]
    BY <1>1 DEF TypeOK, IsTable, HoldingRow
<1>3. /\ pm.batch = holdings[h].batch /\ pm.holder = holdings[h].holder
      /\ pm.status = "available" /\ pm.quantity = q
      /\ pn.batch = holdings[h].batch /\ pn.holder = holdings[h].holder
      /\ pn.status = "available" /\ pn.quantity = holdings[h].quantity - q
    BY DEF NewHolding
<1>. HIDE DEF gone, pm, pn
<1>. QED
    BY <1>1, <1>2, <1>3 DEF Insert, SameStock

\* The end of a contract frees its slice, for the buyer or for the seller.
LEMMA ClosedRows ==
    ASSUME TypeOK, NEW h \in DOMAIN holdings, NEW org \in Orgs,
           \/ holdings' = [holdings EXCEPT ![h].holder = org, ![h].status = "available"]
           \/ holdings' = [holdings EXCEPT ![h].status = "available"]
    PROVE  /\ DOMAIN holdings' = DOMAIN holdings
           /\ \A x \in DOMAIN holdings \ {h} : holdings'[x] = holdings[x]
           /\ holdings'[h].batch = holdings[h].batch
           /\ holdings'[h].quantity = holdings[h].quantity
           /\ holdings'[h].status = "available"
<1>1. holdings[h] \in HoldingRow
    BY DEF TypeOK, IsTable
<1>2. /\ DOMAIN holdings' = DOMAIN holdings
      /\ \A x \in DOMAIN holdings \ {h} : holdings'[x] = holdings[x]
      /\ \/ holdings'[h] = [holdings[h] EXCEPT !.holder = org, !.status = "available"]
         \/ holdings'[h] = [holdings[h] EXCEPT !.status = "available"]
    BY DEF TypeOK, IsTable
<1>3. CASE holdings'[h] = [holdings[h] EXCEPT !.holder = org, !.status = "available"]
    BY <1>1, <1>2, <1>3 DEF HoldingRow
<1>4. CASE holdings'[h] = [holdings[h] EXCEPT !.status = "available"]
    BY <1>1, <1>2, <1>4 DEF HoldingRow
<1>. QED
    BY <1>2, <1>3, <1>4

-----------------------------------------------------------------------------
(* A batch is never allocated beyond what was registered.                  *)

\* A batch has finitely many live holdings, each with a quantity.
LEMMA LiveRows == ASSUME TypeOK, NEW b PROVE Rows(holdings, LiveHoldings(b))
<1>1. LiveHoldings(b) \in SUBSET DOMAIN holdings
    BY DEF LiveHoldings
<1>. QED
    BY <1>1, FiniteTable, InventoryAssumption DEF TypeOK, Rows, IsTable, HoldingRow

\* A new holding adds its quantity to its batch and to no other.
LEMMA AllocationAdds ==
    ASSUME TypeOK, TypeOK', NEW h, h \notin DOMAIN holdings, NEW row \in HoldingRow, row.status = "available",
           holdings' = Insert(holdings, h, row), NEW b
    PROVE  allocatedBatchQuantity(b)'
             = allocatedBatchQuantity(b) + (IF row.batch = b THEN row.quantity ELSE 0)
<1>. DEFINE L == LiveHoldings(b)
<1>1. /\ \A x \in L : holdings'[x] = holdings[x]
      /\ h \notin L
      /\ holdings'[h] = row
      /\ LiveHoldings(b)' = IF row.batch = b THEN L \cup {h} ELSE L
    BY DEF LiveHoldings, Insert
<1>2. SumQuantity(holdings', L) = SumQuantity(holdings, L)
    BY <1>1, SumSame
<1>3. SumQuantity(holdings, L) \in Nat
    BY LiveRows, SumIsNat DEF Rows
<1>4. CASE row.batch = b
    <2>1. Rows(holdings', L \cup {h})
        BY <1>1, <1>4, LiveRows, FS_AddElement DEF Rows, HoldingRow
    <2>2. SumQuantity(holdings', L \cup {h}) = SumQuantity(holdings', (L \cup {h}) \ {h}) + row.quantity
        BY <1>1, <2>1, SumApart
    <2>3. (L \cup {h}) \ {h} = L
        BY <1>1
    <2>. HIDE DEF L
    <2>. QED
        BY <1>1, <1>2, <1>4, <2>2, <2>3 DEF allocatedBatchQuantity, L
<1>5. CASE row.batch # b
    BY <1>1, <1>2, <1>3, <1>5 DEF allocatedBatchQuantity
<1>. QED
    BY <1>4, <1>5

\* Two or three rows are finitely many.
LEMMA FewRows ==
    ASSUME NEW i, NEW j, NEW k
    PROVE  IsFiniteSet({i}) /\ IsFiniteSet({i, j}) /\ IsFiniteSet({i, j, k})
<1>1. IsFiniteSet({i})
    BY FS_Singleton
<1>2. IsFiniteSet({i} \cup {j})
    BY <1>1, FS_AddElement
<1>3. IsFiniteSet(({i} \cup {j}) \cup {k})
    BY <1>2, FS_AddElement
<1>4. {i} \cup {j} = {i, j} /\ ({i} \cup {j}) \cup {k} = {i, j, k}
    OBVIOUS
<1>. QED
    BY <1>1, <1>2, <1>3, <1>4

\* SUM over two rows.
LEMMA SumOfTwo ==
    ASSUME NEW table, NEW i, NEW j, i # j, table[i].quantity \in Grams, table[j].quantity \in Grams
    PROVE  SumQuantity(table, {i, j}) = table[i].quantity + table[j].quantity
<1>1. IsFiniteSet({i}) /\ IsFiniteSet({j}) /\ {i, j} = {i} \cup {j} /\ {i} \cap {j} = {}
    BY FS_Singleton
<1>2. SumQuantity(table, {i} \cup {j}) = SumQuantity(table, {i}) + SumQuantity(table, {j})
    BY <1>1, SumOfBoth
<1>. QED
    BY <1>1, <1>2, SumOfOne

(***************************************************************************)
(* Stock that is split, moved, committed or released stays allocated: the  *)
(* live rows that replace a live holding add up to it.                     *)
(***************************************************************************)
LEMMA AllocationKept ==
    ASSUME TypeOK, TypeOK', NEW h \in DOMAIN holdings, holdings[h].status # "transferred",
           NEW S, IsFiniteSet(S), h \in S, DOMAIN holdings' = DOMAIN holdings \cup S,
           \A x \in DOMAIN holdings \ {h} : x \notin S /\ holdings'[x] = holdings[x],
           \A x \in S : holdings'[x].batch = holdings[h].batch,
           NEW live, live = {x \in S : holdings'[x].status # "transferred"},
           SumQuantity(holdings', live) = holdings[h].quantity, NEW b
    PROVE  allocatedBatchQuantity(b)' = allocatedBatchQuantity(b)
<1>. DEFINE K == LiveHoldings(b) \ {h}
<1>1. SumQuantity(holdings', K) = SumQuantity(holdings, K)
    <2>1. \A x \in K : holdings'[x] = holdings[x]
        BY DEF LiveHoldings
    <2>. QED
        BY <2>1, SumSame
<1>2. IsFiniteSet(K) /\ IsFiniteSet(live)
    BY LiveRows, FS_RemoveElement, FS_Subset DEF Rows
<1>3. CASE b = holdings[h].batch
    <2>1. h \in LiveHoldings(b)
        BY <1>3 DEF LiveHoldings
    <2>2. allocatedBatchQuantity(b) = SumQuantity(holdings, K) + holdings[h].quantity
        BY <2>1, LiveRows, SumApart DEF allocatedBatchQuantity
    <2>3. LiveHoldings(b)' = K \cup live /\ K \cap live = {}
        BY <1>3 DEF LiveHoldings
    <2>4. allocatedBatchQuantity(b)' = SumQuantity(holdings', K) + SumQuantity(holdings', live)
        <3>. HIDE DEF K
        <3>. QED
            BY <1>2, <2>3, SumOfBoth DEF allocatedBatchQuantity
    <2>. QED
        BY <1>1, <2>2, <2>4
<1>4. CASE b # holdings[h].batch
    <2>1. LiveHoldings(b) = K /\ LiveHoldings(b)' = K
        BY <1>4 DEF LiveHoldings
    <2>. HIDE DEF K
    <2>. QED
        BY <1>1, <2>1 DEF allocatedBatchQuantity
<1>. QED
    BY <1>3, <1>4

\* Allocation from source is the only way to allocate more, and it checks what is left.
LEMMA AllocateSource == IInv /\ IInv' /\ SourceNotOverallocated /\ AllocateStock => SourceNotOverallocated'
<1>. SUFFICES ASSUME IInv, IInv', SourceNotOverallocated, NEW b \in Batches, NEW q \in 1..MaxGrams,
                     NEW h \in HoldingIds, NEW x \in Batches,
                     \/ \E org \in Orgs : registerBatch(b, org, q, h)
                     \/ createHolding(b, q, h)
                     \/ \E l \in ListingIds : publishBatchFromSource(b, q, h, l)
              PROVE  allocatedBatchQuantity(x)' <= source'[x].quantity
    BY DEF AllocateStock, SourceNotOverallocated
<1>. TypeOK /\ TypeOK'
    BY DEF IInv
<1>1. PICK org \in Orgs : holdings' = Insert(holdings, h, NewHolding(b, org, q, "available"))
    BY DEF registerBatch, createHolding, publishBatchFromSource, TypeOK, SourceRow
<1>. DEFINE row == NewHolding(b, org, q, "available")
<1>2. h \notin DOMAIN holdings
    BY DEF registerBatch, createHolding, publishBatchFromSource
<1>3. row \in HoldingRow /\ row.status = "available" /\ row.batch = b /\ row.quantity = q
    BY MaxGramsAssumption DEF NewHolding, HoldingRow, Grams
<1>. HIDE DEF row
<1>4. allocatedBatchQuantity(x)' = allocatedBatchQuantity(x) + (IF b = x THEN q ELSE 0)
    <2>1. holdings' = Insert(holdings, h, row)
        BY <1>1 DEF row
    <2>2. allocatedBatchQuantity(x)'
             = allocatedBatchQuantity(x) + (IF row.batch = x THEN row.quantity ELSE 0)
        BY <1>2, <1>3, <2>1, AllocationAdds
    <2>. QED
        BY <1>3, <2>2
<1>5. allocatedBatchQuantity(x) \in Nat /\ allocatedBatchQuantity(b) \in Nat
    BY LiveRows, SumIsNat DEF Rows, allocatedBatchQuantity
<1>6. /\ source[x].quantity \in Nat /\ source[b].quantity \in Nat
      /\ allocatedBatchQuantity(x) <= source[x].quantity
      /\ allocatedBatchQuantity(b) <= source[b].quantity
    BY MaxGramsAssumption DEF TypeOK, SourceRow, Grams, SourceNotOverallocated
<1>7. CASE \E a \in Orgs : registerBatch(b, a, q, h)
    <2>1. source[b].quantity = 0 /\ source'[b].quantity = q /\ (x # b => source'[x] = source[x])
        BY <1>7 DEF registerBatch, TypeOK
    <2>. QED
        BY <1>4, <1>5, <1>6, <2>1
<1>8. CASE createHolding(b, q, h) \/ \E l \in ListingIds : publishBatchFromSource(b, q, h, l)
    <2>1. source' = source /\ q <= source[b].quantity - allocatedBatchQuantity(b)
        BY <1>8 DEF createHolding, publishBatchFromSource
    <2>. QED
        BY <1>4, <1>5, <1>6, <2>1
<1>. QED
    BY <1>7, <1>8

\* Acceptance, transfers and splits leave the same stock allocated in other rows.
LEMMA MoveSource ==
    ASSUME IInv, IInv', NEW b,
           \/ \E o \in OfferIds, c \in HoldingIds, k \in ListingIds : acceptTradeOffer(o, c, k)
           \/ \E t \in TransferIds, n \in HoldingIds : acceptTransfer(t, n)
           \/ \E h, m, n \in HoldingIds, q \in 1..MaxGrams : splitHolding(h, q, m, n)
    PROVE  allocatedBatchQuantity(b)' = allocatedBatchQuantity(b) /\ source' = source
<1>. USE MaxGramsAssumption
<1>. TypeOK /\ TypeOK'
    BY DEF IInv
<1>0. /\ \A x \in DOMAIN holdings : holdings[x].quantity \in Grams /\ x \in HoldingIds
      /\ \A x \in DOMAIN holdings' : holdings'[x].quantity \in Grams
    BY DEF TypeOK, IsTable, HoldingRow
<1>1. ASSUME NEW o \in OfferIds, NEW c \in HoldingIds, NEW k \in ListingIds, acceptTradeOffer(o, c, k)
      PROVE  allocatedBatchQuantity(b)' = allocatedBatchQuantity(b) /\ source' = source
    <2>. DEFINE h == listings[offers[o].listing].holding
                q == offers[o].quantity
    <2>1. /\ h \in DOMAIN holdings /\ holdings[h].status = "available"
          /\ q \in Grams /\ CommitHolding(h, c, q) /\ source' = source
          /\ q <= holdings[h].quantity - pendingTransferQuantity(h)
        BY <1>1 DEF acceptTradeOffer, Acceptable, Tradable, TypeOK, IInv, ForeignKeys, IsTable, OfferRow
    <2>. HIDE DEF h, q
    <2>2. q <= holdings[h].quantity
        BY <1>0, <2>1, PendingIsNat DEF Grams
    <2>3. CASE c \notin DOMAIN holdings
        <3>. DEFINE S == {h, c}
        <3>1. /\ DOMAIN holdings' = DOMAIN holdings \cup S
              /\ \A x \in DOMAIN holdings \ {h} : x \notin S /\ holdings'[x] = holdings[x]
              /\ \A x \in S : holdings'[x].batch = holdings[h].batch /\ holdings'[x].status # "transferred"
              /\ holdings'[h].quantity = holdings[h].quantity - q /\ holdings'[c].quantity = q /\ h # c
            BY <2>1, <2>2, <2>3, CommitRows DEF SameStock
        <3>2. SumQuantity(holdings', S) = holdings[h].quantity
            BY <1>0, <2>1, <3>1, SumOfTwo DEF Grams
        <3>3. IsFiniteSet(S)
            BY FewRows
        <3>4. S = {x \in S : holdings'[x].status # "transferred"}
            BY <3>1
        <3>5. h \in S
            OBVIOUS
        <3>. HIDE DEF S
        <3>. QED
            BY <2>1, <3>1, <3>2, <3>3, <3>4, <3>5, AllocationKept
    <2>4. CASE c \in DOMAIN holdings
        <3>1. /\ DOMAIN holdings' = DOMAIN holdings \cup {h}
              /\ \A x \in DOMAIN holdings \ {h} : x \notin {h} /\ holdings'[x] = holdings[x]
              /\ \A x \in {h} : holdings'[x].batch = holdings[h].batch /\ holdings'[x].status # "transferred"
              /\ holdings'[h].quantity = holdings[h].quantity
            BY <2>1, <2>2, <2>4, CommitRows DEF SameStock
        <3>2. SumQuantity(holdings', {h}) = holdings[h].quantity /\ IsFiniteSet({h})
            BY <1>0, <2>1, <3>1, SumOfOne, FS_Singleton
        <3>3. {h} = {x \in {h} : holdings'[x].status # "transferred"}
            BY <3>1
        <3>. QED
            BY <2>1, <3>1, <3>2, <3>3, AllocationKept
    <2>. QED
        BY <2>3, <2>4
<1>2. ASSUME NEW t \in TransferIds, NEW n \in HoldingIds, acceptTransfer(t, n)
      PROVE  allocatedBatchQuantity(b)' = allocatedBatchQuantity(b) /\ source' = source
    <2>. DEFINE h == transfers[t].holding
                q == transfers[t].quantity
                to == transfers[t].to
    <2>1. /\ h \in DOMAIN holdings /\ holdings[h].status = "available" /\ n \notin DOMAIN holdings
          /\ q \in Grams /\ to \in Orgs /\ source' = source
          /\ holdings' = Insert(TakeFrom(h, q), n, NewHolding(holdings[h].batch, to, q, "available"))
        BY <1>2 DEF acceptTransfer, Tradable, TypeOK, IInv, ForeignKeys, IsTable, TransferRow
    <2>. HIDE DEF h, q, to
    <2>. DEFINE S == {h, n}
                live == {x \in S : holdings'[x].status # "transferred"}
    <2>2. /\ DOMAIN holdings' = DOMAIN holdings \cup {n}
          /\ \A x \in DOMAIN holdings \ {h} : holdings'[x] = holdings[x]
          /\ holdings'[n].batch = holdings[h].batch /\ holdings'[h].batch = holdings[h].batch
          /\ holdings'[n].quantity = q /\ holdings'[n].status = "available"
          /\ \/ q = holdings[h].quantity /\ holdings'[h].status = "transferred"
             \/ /\ q # holdings[h].quantity /\ holdings'[h].status = "available"
                /\ holdings'[h].quantity = holdings[h].quantity - q
        <3>1. n \in HoldingIds \ DOMAIN holdings
            BY <2>1
        <3>. QED
            BY <2>1, <3>1, TakenRows DEF SameStock
    <2>3. SumQuantity(holdings', live) = holdings[h].quantity
        <3>1. CASE q = holdings[h].quantity
            <4>1. live = {n}
                BY <2>1, <2>2, <3>1
            <4>. HIDE DEF live
            <4>. QED
                BY <2>1, <2>2, <3>1, <4>1, SumOfOne
        <3>2. CASE q # holdings[h].quantity
            <4>1. live = {h, n} /\ h # n
                BY <2>1, <2>2, <3>2
            <4>2. holdings'[h].quantity \in Grams /\ holdings'[n].quantity \in Grams
                BY <1>0, <2>1, <2>2
            <4>3. SumQuantity(holdings', {h, n}) = holdings'[h].quantity + holdings'[n].quantity
                BY <4>1, <4>2, SumOfTwo
            <4>4. holdings[h].quantity \in Int /\ q \in Int
                BY <1>0, <2>1 DEF Grams
            <4>. HIDE DEF live
            <4>. QED
                BY <2>2, <3>2, <4>1, <4>3, <4>4
        <3>. QED
            BY <3>1, <3>2
    <2>5. /\ IsFiniteSet(S) /\ h \in S /\ DOMAIN holdings' = DOMAIN holdings \cup S
          /\ \A x \in DOMAIN holdings \ {h} : x \notin S /\ holdings'[x] = holdings[x]
          /\ \A x \in S : holdings'[x].batch = holdings[h].batch
        BY <2>1, <2>2, FewRows
    <2>4. live = {x \in S : holdings'[x].status # "transferred"}
        OBVIOUS
    <2>. HIDE DEF S, live
    <2>. QED
        BY <2>1, <2>3, <2>4, <2>5, AllocationKept
<1>3. ASSUME NEW h \in HoldingIds, NEW m \in HoldingIds, NEW n \in HoldingIds, NEW q \in 1..MaxGrams,
             splitHolding(h, q, m, n)
      PROVE  allocatedBatchQuantity(b)' = allocatedBatchQuantity(b) /\ source' = source
    <2>. DEFINE S == {h, m, n}
                live == {x \in S : holdings'[x].status # "transferred"}
    <2>1. /\ h \in DOMAIN holdings /\ m \notin DOMAIN holdings /\ n \notin DOMAIN holdings /\ m # n
          /\ DOMAIN holdings' = DOMAIN holdings \cup {m, n}
          /\ \A x \in DOMAIN holdings \ {h} : holdings'[x] = holdings[x]
          /\ holdings'[h].batch = holdings[h].batch
          /\ holdings'[m].batch = holdings[h].batch /\ holdings'[n].batch = holdings[h].batch
          /\ holdings'[h].status = "transferred"
          /\ holdings'[m].status = "available" /\ holdings'[m].quantity = q
          /\ holdings'[n].status = "available" /\ holdings'[n].quantity = holdings[h].quantity - q
        <3>. HIDE DEF S, live
        <3>1. /\ h \in DOMAIN holdings /\ m \notin DOMAIN holdings /\ n \notin DOMAIN holdings /\ m # n
              /\ DOMAIN holdings' = DOMAIN holdings \cup {m, n}
              /\ \A x \in DOMAIN holdings \ {h} : holdings'[x] = holdings[x]
              /\ SameStock(h, h) /\ SameStock(m, h) /\ SameStock(n, h)
              /\ holdings'[h].status = "transferred"
              /\ holdings'[m].status = "available" /\ holdings'[m].quantity = q
              /\ holdings'[n].status = "available" /\ holdings'[n].quantity = holdings[h].quantity - q
            BY <1>3, SplitRows
        <3>. QED
            BY <3>1 DEF SameStock
    <2>2. holdings[h].status # "transferred" /\ source' = source
        BY <1>3 DEF splitHolding, Tradable
    <2>3. SumQuantity(holdings', live) = holdings[h].quantity
        <3>1. live = {m, n}
            BY <2>1
        <3>2. SumQuantity(holdings', {m, n}) = holdings'[m].quantity + holdings'[n].quantity
            BY <1>0, <2>1, SumOfTwo
        <3>3. holdings[h].quantity \in Int /\ q \in Int
            BY <1>0, <2>1 DEF Grams
        <3>. HIDE DEF live
        <3>. QED
            BY <2>1, <3>1, <3>2, <3>3
    <2>5. /\ IsFiniteSet(S) /\ h \in S /\ DOMAIN holdings' = DOMAIN holdings \cup S
          /\ \A x \in DOMAIN holdings \ {h} : x \notin S /\ holdings'[x] = holdings[x]
          /\ \A x \in S : holdings'[x].batch = holdings[h].batch
        BY <2>1, FewRows
    <2>4. live = {x \in S : holdings'[x].status # "transferred"}
        OBVIOUS
    <2>. HIDE DEF S, live
    <2>. QED
        BY <2>1, <2>2, <2>3, <2>4, <2>5, AllocationKept
<1>. QED
    BY <1>1, <1>2, <1>3

\* Settlement and cancellation free a slice that was allocated all along.
LEMMA CloseSource ==
    ASSUME IInv, IInv', CloseContracts, NEW b
    PROVE  allocatedBatchQuantity(b)' = allocatedBatchQuantity(b) /\ source' = source
<1>. TypeOK /\ TypeOK'
    BY DEF IInv
<1>1. PICK o \in OfferIds : (\E t \in TransferIds : completeTrade(o, t)) \/ approveCancellation(o)
    BY DEF CloseContracts
<1>. DEFINE h == contracts[o].holding
            org == contracts[o].buyer
<1>2. /\ o \in DOMAIN contracts /\ holdings[h].status = "committed" /\ source' = source
      /\ \/ holdings' = [holdings EXCEPT ![h].holder = org, ![h].status = "available"]
         \/ holdings' = [holdings EXCEPT ![h].status = "available"]
    BY <1>1 DEF completeTrade, approveCancellation, InventorySafe, SliceIntact
<1>3. h \in DOMAIN holdings /\ org \in Orgs
    BY <1>2 DEF IInv, ForeignKeys, TypeOK, IsTable, ContractRow
<1>. HIDE DEF h, org
<1>4. /\ DOMAIN holdings' = DOMAIN holdings
      /\ \A x \in DOMAIN holdings \ {h} : holdings'[x] = holdings[x]
      /\ holdings'[h].batch = holdings[h].batch
      /\ holdings'[h].quantity = holdings[h].quantity
      /\ holdings'[h].status = "available"
    BY <1>2, <1>3, ClosedRows
<1>5. SumQuantity(holdings', {h}) = holdings[h].quantity
    BY <1>3, <1>4, SumOfOne DEF TypeOK, IsTable, HoldingRow
<1>6. {h} = {x \in {h} : holdings'[x].status # "transferred"}
    BY <1>4
<1>7. /\ holdings[h].status # "transferred" /\ IsFiniteSet({h}) /\ h \in {h}
      /\ DOMAIN holdings' = DOMAIN holdings \cup {h}
      /\ \A x \in DOMAIN holdings \ {h} : x \notin {h} /\ holdings'[x] = holdings[x]
      /\ \A x \in {h} : holdings'[x].batch = holdings[h].batch
    BY <1>2, <1>3, <1>4, FewRows
<1>. QED
    BY <1>2, <1>3, <1>5, <1>6, <1>7, AllocationKept

\* Publications, undecided offers, transfer requests and recalls allocate nothing.
LEMMA StepSource == IInv /\ IInv' /\ SourceNotOverallocated /\ [Next]_vars => SourceNotOverallocated'
<1>. SUFFICES ASSUME IInv, IInv', SourceNotOverallocated, [Next]_vars
              PROVE  SourceNotOverallocated'
    OBVIOUS
<1>1. CASE AllocateStock
    BY <1>1, AllocateSource
<1>2. ASSUME \A b \in Batches : allocatedBatchQuantity(b)' = allocatedBatchQuantity(b) /\ source' = source
      PROVE  SourceNotOverallocated'
    BY <1>2 DEF SourceNotOverallocated
<1>3. ASSUME UNCHANGED <<source, holdings>>
      PROVE  SourceNotOverallocated'
    BY <1>3 DEF SourceNotOverallocated, allocatedBatchQuantity, LiveHoldings
<1>4. CASE PublishStock
    <2>1. UNCHANGED <<source, holdings>>
        BY <1>4 DEF PublishStock, publishBatchFromHolding, publishListing, editListing, withdrawListing,
                    renewListing, expireListing
    <2>. QED
        BY <1>3, <2>1
<1>5. CASE DecideOffers
    <2>1. \/ UNCHANGED <<source, holdings>>
          \/ \E o \in OfferIds, c \in HoldingIds, k \in ListingIds : acceptTradeOffer(o, c, k)
        BY <1>5 DEF DecideOffers, createTradeOffer, rejectTradeOffer, discoverWithdrawal,
                    withdrawTradeOffer, lapseOffer
    <2>. QED
        BY <1>2, <1>3, <2>1, MoveSource
<1>6. CASE MoveStock
    <2>1. \/ UNCHANGED <<source, holdings>>
          \/ \E t \in TransferIds, n \in HoldingIds : acceptTransfer(t, n)
          \/ \E h, m, n \in HoldingIds, q \in 1..MaxGrams : splitHolding(h, q, m, n)
        BY <1>6 DEF MoveStock, transferHolding
    <2>. QED
        BY <1>2, <1>3, <2>1, MoveSource
<1>7. CASE CloseContracts
    BY <1>2, <1>7, CloseSource
<1>8. CASE RecallStock
    BY <1>3, <1>8 DEF RecallStock, activateRecall, resolveRecall
<1>9. CASE UNCHANGED vars
    BY <1>3, <1>9 DEF vars
<1>. QED
    BY <1>1, <1>4, <1>5, <1>6, <1>7, <1>8, <1>9 DEF Next

\* Nothing is allocated before the first holding.
LEMMA InitSource == Init => SourceNotOverallocated
<1>. SUFFICES ASSUME Init, NEW b \in Batches PROVE allocatedBatchQuantity(b) <= source[b].quantity
    BY DEF SourceNotOverallocated
<1>1. LiveHoldings(b) = {}
    BY DEF Init, EmptyTable, LiveHoldings
<1>2. source[b].quantity \in Nat
    BY MaxGramsAssumption DEF Init, SourceRow, Grams
<1>. QED
    BY <1>1, <1>2, SumOfNone DEF allocatedBatchQuantity

(***************************************************************************)
(* SOURCE_OVERALLOCATED never arises, whatever is split, transferred,      *)
(* committed, released and sold on: the live holdings of a batch never add *)
(* up to more than was registered.                                         *)
(***************************************************************************)
THEOREM NeverOverallocated == Spec => []SourceNotOverallocated
BY InitSource, StepSource, SpecIInv, PTL DEF Spec

(***************************************************************************)
(* No transaction loses stock or makes some: what a batch has in its live  *)
(* holdings changes only when one more holding is created for the holder   *)
(* of the batch, by the quantity of that holding and with every other row  *)
(* as it was.  Splits, transfers, acceptances, settlements and             *)
(* cancellations rewrite the same grams into other rows.                   *)
(***************************************************************************)
Allocation(b) ==
    \E h \in DOMAIN holdings' \ DOMAIN holdings :
        /\ holdings'[h].batch = b
        /\ holdings'[h].holder = source'[b].holder
        /\ allocatedBatchQuantity(b)' = allocatedBatchQuantity(b) + holdings'[h].quantity
        /\ \A x \in DOMAIN holdings : x \in DOMAIN holdings' /\ holdings'[x] = holdings[x]

StockKept == \A b \in Batches : allocatedBatchQuantity(b)' = allocatedBatchQuantity(b) \/ Allocation(b)

StockStaysAllocated == [][StockKept]_vars

\* The three transactions that create a holding from source stock.
LEMMA AllocateAdds == IInv /\ IInv' /\ AllocateStock => StockKept
<1>. SUFFICES ASSUME IInv, IInv', NEW b \in Batches, NEW q \in 1..MaxGrams,
                     NEW h \in HoldingIds, NEW x \in Batches,
                     \/ \E org \in Orgs : registerBatch(b, org, q, h)
                     \/ createHolding(b, q, h)
                     \/ \E l \in ListingIds : publishBatchFromSource(b, q, h, l)
              PROVE  allocatedBatchQuantity(x)' = allocatedBatchQuantity(x) \/ Allocation(x)
    BY DEF AllocateStock, StockKept
<1>. TypeOK /\ TypeOK'
    BY DEF IInv
<1>1. PICK org \in Orgs : /\ holdings' = Insert(holdings, h, NewHolding(b, org, q, "available"))
                          /\ source'[b].holder = org
    BY DEF registerBatch, createHolding, publishBatchFromSource, TypeOK, SourceRow
<1>. DEFINE row == NewHolding(b, org, q, "available")
<1>2. h \notin DOMAIN holdings
    BY DEF registerBatch, createHolding, publishBatchFromSource
<1>3. /\ row \in HoldingRow /\ row.status = "available" /\ row.batch = b /\ row.quantity = q
      /\ row.holder = org
    BY MaxGramsAssumption DEF NewHolding, HoldingRow, Grams
<1>. HIDE DEF row
<1>4. holdings' = Insert(holdings, h, row)
    BY <1>1 DEF row
<1>5. allocatedBatchQuantity(x)' = allocatedBatchQuantity(x) + (IF b = x THEN q ELSE 0)
    <2>1. allocatedBatchQuantity(x)'
             = allocatedBatchQuantity(x) + (IF row.batch = x THEN row.quantity ELSE 0)
        BY <1>2, <1>3, <1>4, AllocationAdds
    <2>. QED
        BY <1>3, <2>1
<1>6. allocatedBatchQuantity(x) \in Nat
    BY LiveRows, SumIsNat DEF Rows, allocatedBatchQuantity
<1>7. CASE b # x
    BY <1>5, <1>6, <1>7
<1>8. CASE b = x
    <2>1. /\ h \in DOMAIN holdings' \ DOMAIN holdings /\ holdings'[h] = row
          /\ \A y \in DOMAIN holdings : y \in DOMAIN holdings' /\ holdings'[y] = holdings[y]
        BY <1>2, <1>4 DEF Insert
    <2>. QED
        BY <1>1, <1>3, <1>5, <1>8, <2>1 DEF Allocation
<1>. QED
    BY <1>7, <1>8

\* Every other transaction leaves each batch as much as it had.
LEMMA StepKeepsStock == IInv /\ IInv' /\ [Next]_vars => StockKept
<1>. SUFFICES ASSUME IInv, IInv', [Next]_vars PROVE StockKept
    OBVIOUS
<1>1. CASE AllocateStock
    BY <1>1, AllocateAdds
<1>2. ASSUME \A b \in Batches : allocatedBatchQuantity(b)' = allocatedBatchQuantity(b)
      PROVE  StockKept
    BY <1>2 DEF StockKept
<1>3. ASSUME UNCHANGED holdings PROVE StockKept
    BY <1>3 DEF StockKept, allocatedBatchQuantity, LiveHoldings
<1>4. CASE PublishStock
    <2>1. UNCHANGED holdings
        BY <1>4 DEF PublishStock, publishBatchFromHolding, publishListing, editListing, withdrawListing,
                    renewListing, expireListing
    <2>. QED
        BY <1>3, <2>1
<1>5. CASE DecideOffers
    <2>1. \/ UNCHANGED holdings
          \/ \E o \in OfferIds, c \in HoldingIds, k \in ListingIds : acceptTradeOffer(o, c, k)
        BY <1>5 DEF DecideOffers, createTradeOffer, rejectTradeOffer, discoverWithdrawal,
                    withdrawTradeOffer, lapseOffer
    <2>. QED
        BY <1>2, <1>3, <2>1, MoveSource
<1>6. CASE MoveStock
    <2>1. \/ UNCHANGED holdings
          \/ \E t \in TransferIds, n \in HoldingIds : acceptTransfer(t, n)
          \/ \E h, m, n \in HoldingIds, q \in 1..MaxGrams : splitHolding(h, q, m, n)
        BY <1>6 DEF MoveStock, transferHolding
    <2>. QED
        BY <1>2, <1>3, <2>1, MoveSource
<1>7. CASE CloseContracts
    BY <1>2, <1>7, CloseSource
<1>8. CASE RecallStock
    BY <1>3, <1>8 DEF RecallStock, activateRecall, resolveRecall
<1>9. CASE UNCHANGED vars
    BY <1>3, <1>9 DEF vars
<1>. QED
    BY <1>1, <1>4, <1>5, <1>6, <1>7, <1>8, <1>9 DEF Next

(***************************************************************************)
(* Through every interleaving of offers, transfers, splits, settlements    *)
(* and cancellations the live holdings of a batch keep adding up to the    *)
(* same quantity; only an allocation to the holder of the batch adds to    *)
(* it, and nothing ever takes from it.                                     *)
(***************************************************************************)
THEOREM TradeKeepsStock == Spec => StockStaysAllocated
BY StepKeepsStock, SpecIInv, PTL DEF Spec, StockStaysAllocated

-----------------------------------------------------------------------------
(* What is published and promised from a holding is in it.                 *)

\* No publication, offer or transfer request is for nothing.
PositiveQuantities ==
    /\ \A l \in DOMAIN listings : listings[l].active => listings[l].quantity > 0
    /\ \A o \in DOMAIN offers : offers[o].quantity > 0
    /\ \A t \in DOMAIN transfers : transfers[t].status = "requested" => transfers[t].quantity > 0

\* ReservationsFit of one holding.
Fits(h) ==
    publishedQuantity(h) + pendingTransferQuantity(h)
        <= IF holdings[h].status = "available" THEN holdings[h].quantity ELSE 0

\* PromisesKept of one holding: of its publications, and of its transfer requests.
Advertised(h) ==
    \A l \in Published(listings, h) :
        /\ listings[l].seller = holdings[h].holder
        /\ \A o \in PendingOn(offers, l) : offers[o].quantity <= listings[l].quantity

Requested(h) ==
    \A t \in RequestedTransfers(h) :
        transfers[t].from = holdings[h].holder /\ transfers[t].to # transfers[t].from

Sound(h) == Fits(h) /\ Advertised(h) /\ Requested(h)

(***************************************************************************)
(* The inductive invariant of the quantities, over IInv: the two           *)
(* invariants themselves, holding by holding, and that nothing promised is *)
(* of no stock, so that a holding from which nothing is promised has no    *)
(* publication and no request left.                                        *)
(***************************************************************************)
StockInv == PositiveQuantities /\ \A h \in DOMAIN holdings : Sound(h)

\* The publications and the transfer requests of a holding are finitely many rows.
LEMMA PublicationRows ==
    ASSUME NEW ls, IsTable(ls, ListingIds, ListingRow), NEW h
    PROVE  Rows(ls, Published(ls, h)) /\ SumQuantity(ls, Published(ls, h)) \in Nat
<1>1. Published(ls, h) \in SUBSET DOMAIN ls
    BY DEF Published
<1>2. IsFiniteSet(Published(ls, h))
    BY <1>1, FiniteTable, InventoryAssumption
<1>. QED
    BY <1>1, <1>2, SumIsNat DEF Rows, IsTable, ListingRow

\* ... and so are its transfer requests.
LEMMA RequestRows ==
    ASSUME TypeOK, NEW h
    PROVE  Rows(transfers, RequestedTransfers(h)) /\ pendingTransferQuantity(h) \in Nat
<1>1. RequestedTransfers(h) \in SUBSET DOMAIN transfers
    BY DEF RequestedTransfers
<1>2. IsFiniteSet(RequestedTransfers(h))
    BY <1>1, FiniteTable, InventoryAssumption DEF TypeOK
<1>. QED
    BY <1>1, <1>2, SumIsNat DEF Rows, IsTable, TransferRow, TypeOK, pendingTransferQuantity

\* A holding that has nothing to promise has no publication and no transfer request.
LEMMA NothingPromised ==
    ASSUME TypeOK, StockInv, NEW h \in DOMAIN holdings, holdings[h].status # "available"
    PROVE  Published(listings, h) = {} /\ RequestedTransfers(h) = {}
<1>1. /\ Rows(listings, Published(listings, h)) /\ publishedQuantity(h) \in Nat
      /\ Rows(transfers, RequestedTransfers(h)) /\ pendingTransferQuantity(h) \in Nat
    BY PublicationRows, RequestRows DEF TypeOK, publishedQuantity
<1>2. publishedQuantity(h) + pendingTransferQuantity(h) <= 0
    BY DEF StockInv, Sound, Fits
<1>3. publishedQuantity(h) <= 0 /\ pendingTransferQuantity(h) <= 0
    BY <1>1, <1>2
<1>4. \A l \in Published(listings, h) : listings[l].quantity > 0
    BY DEF StockInv, PositiveQuantities, Published
<1>5. \A t \in RequestedTransfers(h) : transfers[t].quantity > 0
    BY DEF StockInv, PositiveQuantities, RequestedTransfers
<1>6. Published(listings, h) = {}
    BY <1>1, <1>3, <1>4, SumPositive DEF publishedQuantity
<1>7. RequestedTransfers(h) = {}
    BY <1>1, <1>3, <1>5, SumPositive DEF pendingTransferQuantity
<1>. QED
    BY <1>6, <1>7

(***************************************************************************)
(* A holding from which a step promises nothing new stays sound: its row   *)
(* stays, or the end of its contract frees it, its publications and        *)
(* requests are among those there were, and undecided offers are covered.  *)
(***************************************************************************)
LEMMA UntouchedSound ==
    ASSUME TypeOK, TypeOK', StockInv, NEW g \in DOMAIN holdings,
           \/ holdings'[g] = holdings[g]
           \/ holdings[g].status = "committed" /\ holdings'[g].status = "available"
              /\ holdings'[g].quantity \in Nat,
           \A l \in Published(listings', g) : /\ l \in Published(listings, g)
                                              /\ listings'[l].seller = listings[l].seller
                                              /\ listings'[l].quantity = listings[l].quantity
                                              /\ \A o \in PendingOn(offers', l) :
                                                    offers'[o].quantity <= listings'[l].quantity,
           \A t \in RequestedTransfers(g)' : t \in RequestedTransfers(g) /\ transfers'[t] = transfers[t]
    PROVE  Sound(g)'
<1>. DEFINE P == Published(listings, g)
            Q == Published(listings', g)
            R == RequestedTransfers(g)
            T == RequestedTransfers(g)'
<1>1. /\ Rows(listings, P) /\ Rows(listings', Q)
      /\ SumQuantity(listings, P) \in Nat /\ SumQuantity(listings', Q) \in Nat
    BY PublicationRows DEF TypeOK
<1>2. Rows(transfers, R) /\ SumQuantity(transfers, R) \in Nat
    BY RequestRows DEF pendingTransferQuantity
<1>3. T \in SUBSET DOMAIN transfers'
    BY DEF RequestedTransfers
<1>4. Rows(transfers', T) /\ SumQuantity(transfers', T) \in Nat
    <2>1. IsFiniteSet(T)
        BY <1>3, FiniteTable, InventoryAssumption DEF TypeOK
    <2>. QED
        BY <1>3, <2>1, SumIsNat DEF Rows, IsTable, TransferRow, TypeOK
<1>5. /\ Q \subseteq P /\ \A l \in Q : listings'[l].quantity <= listings[l].quantity
      /\ T \subseteq R /\ \A t \in T : transfers'[t].quantity <= transfers[t].quantity
    <2>1. /\ \A l \in Q : listings'[l].quantity = listings[l].quantity /\ listings[l].quantity \in Int
          /\ \A t \in T : transfers'[t].quantity = transfers[t].quantity /\ transfers[t].quantity \in Int
        BY <1>1, <1>2, MaxGramsAssumption DEF Rows, Grams
    <2>2. Q \subseteq P /\ T \subseteq R
        OBVIOUS
    <2>. HIDE DEF P, Q, R, T
    <2>. QED
        BY <2>1, <2>2
<1>6. /\ publishedQuantity(g)' = SumQuantity(listings', Q)
      /\ publishedQuantity(g) = SumQuantity(listings, P)
      /\ pendingTransferQuantity(g)' = SumQuantity(transfers', T)
      /\ pendingTransferQuantity(g) = SumQuantity(transfers, R)
    BY DEF publishedQuantity, pendingTransferQuantity
<1>7. CASE holdings'[g] = holdings[g]
    <2>1. SumQuantity(listings', Q) <= SumQuantity(listings, P)
        <3>. HIDE DEF P, Q
        <3>. QED
            BY <1>1, <1>5, SumMonotone DEF Rows
    <2>2. SumQuantity(transfers', T) <= SumQuantity(transfers, R)
        <3>. HIDE DEF R, T
        <3>. QED
            BY <1>2, <1>4, <1>5, SumMonotone DEF Rows
    <2>3. Fits(g)'
        <3>1. Fits(g)
            BY DEF StockInv, Sound
        <3>2. holdings[g].quantity \in Int
            BY MaxGramsAssumption DEF TypeOK, IsTable, HoldingRow, Grams
        <3>. HIDE DEF P, Q, R, T
        <3>. QED
            BY <1>1, <1>2, <1>4, <1>6, <1>7, <2>1, <2>2, <3>1, <3>2 DEF Fits
    <2>4. Advertised(g)' /\ Requested(g)'
        BY <1>7 DEF StockInv, Sound, Advertised, Requested
    <2>. QED
        BY <2>3, <2>4 DEF Sound
<1>8. CASE /\ holdings[g].status = "committed" /\ holdings'[g].status = "available"
           /\ holdings'[g].quantity \in Nat
    <2>1. P = {} /\ R = {}
        BY <1>8, NothingPromised
    <2>2. Q = {} /\ T = {}
        BY <1>5, <2>1
    <2>3. Fits(g)'
        <3>. HIDE DEF P, Q, R, T
        <3>. QED
            BY <1>6, <1>8, <2>2, SumOfNone DEF Fits
    <2>4. Advertised(g)' /\ Requested(g)'
        BY <2>2 DEF Advertised, Requested
    <2>. QED
        BY <2>3, <2>4 DEF Sound
<1>. QED
    BY <1>7, <1>8

\* A new holding that nothing refers to is sound.
LEMMA FreshSound ==
    ASSUME TypeOK', NEW g \in DOMAIN holdings', Published(listings', g) = {}, RequestedTransfers(g)' = {}
    PROVE  Sound(g)'
<1>1. publishedQuantity(g)' = 0 /\ pendingTransferQuantity(g)' = 0
    BY SumOfNone DEF publishedQuantity, pendingTransferQuantity
<1>2. holdings'[g].quantity \in Nat
    BY MaxGramsAssumption DEF TypeOK, IsTable, HoldingRow, Grams
<1>. QED
    BY <1>1, <1>2 DEF Sound, Fits, Advertised, Requested

(***************************************************************************)
(* What every step that reconciles needs: reconcileHoldingListings leaves  *)
(* the other holdings' listings alone, and no listing of nothing active.   *)
(***************************************************************************)
LEMMA ReconcilePromises ==
    ASSUME NEW ls, IsTable(ls, ListingIds, ListingRow), NEW h, NEW budget \in Int,
           NEW after, after = ReconciledListings(ls, h, budget)
    PROVE  /\ DOMAIN after = DOMAIN ls
           /\ \A l \in DOMAIN ls : ls[l].holding # h => after[l] = ls[l]
           /\ \A l \in DOMAIN ls : after[l].active => ls[l].active /\ (ls[l].quantity > 0 => after[l].quantity > 0)
           /\ \A l \in DOMAIN ls : /\ after[l].holding = ls[l].holding
                                   /\ after[l].seller = ls[l].seller
                                   /\ after[l].expired = ls[l].expired
           /\ Published(after, h) \subseteq Published(ls, h)
<1>1. /\ IsTable(after, ListingIds, ListingRow)
      /\ DOMAIN after = DOMAIN ls
      /\ \A l \in DOMAIN ls : /\ after[l].seller = ls[l].seller
                              /\ after[l].holding = ls[l].holding
                              /\ after[l].expired = ls[l].expired
                              /\ after[l].active => ls[l].active
    BY ReconcileRows
<1>2. \A l \in DOMAIN ls : ls[l].holding # h => after[l] = ls[l]
    BY DEF ReconciledListings, Published
<1>3. ASSUME NEW l \in DOMAIN ls, after[l].active, ls[l].quantity > 0
      PROVE  after[l].quantity > 0
    <2>1. CASE l \in Published(ls, h)
        <3>. DEFINE g == Granted(ls, h, budget, l)
        <3>1. after[l] = [ls[l] EXCEPT !.quantity = g, !.active = g > 0]
            BY <2>1 DEF ReconciledListings
        <3>2. ls[l] \in ListingRow
            BY DEF IsTable
        <3>. HIDE DEF g
        <3>3. after[l].quantity = g /\ after[l].active = (g > 0)
            BY <3>1, <3>2 DEF ListingRow
        <3>. QED
            BY <1>3, <3>3
    <2>2. CASE l \notin Published(ls, h)
        BY <1>3, <2>2 DEF ReconciledListings
    <2>. QED
        BY <2>1, <2>2
<1>4. Published(after, h) \subseteq Published(ls, h)
    BY <1>1 DEF Published
<1>. QED
    BY <1>1, <1>2, <1>3, <1>4

\* reconcileHoldingListings leaves no undecided offer that a publication of h does not cover.
LEMMA ReconcileCovers ==
    ASSUME NEW os, IsTable(os, OfferIds, OfferRow), NEW after, IsTable(after, ListingIds, ListingRow), NEW h,
           NEW l \in Published(after, h),
           NEW o \in PendingOn(RejectOffers(os, UncoveredOffers(os, after, h)), l)
    PROVE  RejectOffers(os, UncoveredOffers(os, after, h))[o].quantity <= after[l].quantity
<1>. DEFINE S == UncoveredOffers(os, after, h)
            os2 == RejectOffers(os, S)
<1>1. /\ DOMAIN os2 = DOMAIN os
      /\ \A x \in DOMAIN os : /\ os2[x].listing = os[x].listing
                              /\ os2[x].quantity = os[x].quantity
                              /\ os2[x].status = IF x \in S THEN "rejected" ELSE os[x].status
    <2>. HIDE DEF S
    <2>. QED
        BY RejectRows
<1>2. o \in DOMAIN os /\ os2[o].listing = l /\ os2[o].status = "pending"
    BY <1>1 DEF PendingOn
<1>3. os[o].listing = l /\ o \notin S /\ os[o].status = "pending"
    <2>. HIDE DEF S, os2
    <2>. QED
        BY <1>1, <1>2
<1>4. ~(os[o].quantity > after[l].quantity)
    BY <1>2, <1>3 DEF UncoveredOffers, Published
<1>5. os[o].quantity \in Int /\ after[l].quantity \in Int
    BY <1>2, MaxGramsAssumption DEF IsTable, OfferRow, ListingRow, Published, Grams
<1>6. os2[o].quantity <= after[l].quantity
    <2>. HIDE DEF os2, S
    <2>. QED
        BY <1>1, <1>2, <1>4, <1>5
<1>. QED
    BY <1>6

\* ls are the listings with h's own edited: none moved, and none active for nothing.
EditOf(ls, h) ==
    /\ IsTable(ls, ListingIds, ListingRow)
    /\ DOMAIN ls = DOMAIN listings
    /\ \A l \in DOMAIN listings : /\ ls[l].holding = listings[l].holding
                                  /\ ls[l].seller = listings[l].seller
                                  /\ listings[l].holding # h => ls[l] = listings[l]
                                  /\ ls[l].active => ls[l].quantity > 0

\* Listings as they are, are an edit of any holding's.
LEMMA NoEdit == ASSUME TypeOK, PositiveQuantities, NEW h PROVE EditOf(listings, h)
BY DEF TypeOK, PositiveQuantities, EditOf

(***************************************************************************)
(* The steps that take stock or publications from one holding h and        *)
(* reconcile it: ls are its listings as edited.  The budget they reconcile *)
(* to, with what stays requested, must be in the holding they leave.       *)
(***************************************************************************)
LEMMA ReconcileSound ==
    ASSUME IInv, IInv', StockInv, NEW h \in DOMAIN holdings, NEW budget \in Int,
           NEW ls, EditOf(ls, h), Reconcile(ls, offers, h, budget),
           DOMAIN holdings \subseteq DOMAIN holdings',
           \A g \in DOMAIN holdings \ {h} : holdings'[g] = holdings[g],
           \A t \in DOMAIN transfers' : \/ transfers'[t].holding = h /\ transfers'[t].quantity > 0
                                        \/ t \in DOMAIN transfers /\ transfers'[t] = transfers[t],
           \A l \in Published(ls, h) : ls[l].seller = holdings'[h].holder,
           Requested(h)',
           Greatest(0, budget) + pendingTransferQuantity(h)'
               <= IF holdings'[h].status = "available" THEN holdings'[h].quantity ELSE 0
    PROVE  StockInv'
<1>. TypeOK /\ TypeOK' /\ ForeignKeys /\ ForeignKeys'
    BY DEF IInv
<1>. /\ IsTable(ls, ListingIds, ListingRow)
     /\ DOMAIN ls = DOMAIN listings
     /\ \A l \in DOMAIN listings : /\ ls[l].holding = listings[l].holding
                                   /\ ls[l].seller = listings[l].seller
                                   /\ listings[l].holding # h => ls[l] = listings[l]
                                   /\ ls[l].active => ls[l].quantity > 0
    BY DEF EditOf
<1>. DEFINE after == ReconciledListings(ls, h, budget)
            S == UncoveredOffers(offers, after, h)
<1>0. IsTable(listings', ListingIds, ListingRow) /\ IsTable(offers, OfferIds, OfferRow)
      /\ IsTable(offers', OfferIds, OfferRow)
    BY DEF TypeOK
<1>1. /\ listings' = after
      /\ offers' = RejectOffers(offers, S)
    BY DEF Reconcile
<1>2. /\ DOMAIN after = DOMAIN ls
      /\ \A l \in DOMAIN ls : ls[l].holding # h => after[l] = ls[l]
      /\ \A l \in DOMAIN ls : after[l].active => ls[l].active /\ (ls[l].quantity > 0 => after[l].quantity > 0)
      /\ \A l \in DOMAIN ls : /\ after[l].holding = ls[l].holding
                              /\ after[l].seller = ls[l].seller
                              /\ after[l].expired = ls[l].expired
      /\ Published(after, h) \subseteq Published(ls, h)
    BY ReconcilePromises
<1>3. SumQuantity(after, Published(after, h)) <= Greatest(0, budget)
    BY ReconcileFits
<1>4. \A l \in Published(after, h) : \A o \in PendingOn(offers', l) : offers'[o].quantity <= after[l].quantity
    BY <1>0, <1>1, ReconcileCovers
<1>5. /\ DOMAIN offers' = DOMAIN offers
      /\ \A o \in DOMAIN offers : /\ offers'[o].listing = offers[o].listing
                                  /\ offers'[o].quantity = offers[o].quantity
                                  /\ offers'[o].status = IF o \in S THEN "rejected" ELSE offers[o].status
    <2>. HIDE DEF S
    <2>. QED
        BY <1>0, <1>1, RejectRows
<1>. HIDE DEF after, S
<1>6. PositiveQuantities'
    <2>1. \A l \in DOMAIN listings' : listings'[l].active => listings'[l].quantity > 0
        BY <1>1, <1>2
    <2>2. \A o \in DOMAIN offers' : offers'[o].quantity > 0
        BY <1>5 DEF StockInv, PositiveQuantities
    <2>3. \A t \in DOMAIN transfers' : transfers'[t].status = "requested" => transfers'[t].quantity > 0
        BY DEF StockInv, PositiveQuantities
    <2>. QED
        BY <2>1, <2>2, <2>3 DEF PositiveQuantities
<1>7. Sound(h)'
    <2>1. Fits(h)'
        <3>1. publishedQuantity(h)' = SumQuantity(after, Published(after, h))
            BY <1>1 DEF publishedQuantity
        <3>2. SumQuantity(after, Published(after, h)) \in Nat /\ pendingTransferQuantity(h)' \in Nat
              /\ Greatest(0, budget) \in Int
            <4>1. SumQuantity(after, Published(after, h)) \in Nat
                BY <1>0, <1>1, PublicationRows
            <4>2. RequestedTransfers(h)' \in SUBSET DOMAIN transfers'
                BY DEF RequestedTransfers
            <4>3. IsFiniteSet(RequestedTransfers(h)')
                BY <4>2, FiniteTable, InventoryAssumption DEF TypeOK
            <4>4. SumQuantity(transfers', RequestedTransfers(h)') \in Nat
                BY <4>3, SumIsNat
            <4>. QED
                BY <4>1, <4>4 DEF pendingTransferQuantity, Greatest
        <3>3. (IF holdings'[h].status = "available" THEN holdings'[h].quantity ELSE 0) \in Int
            BY MaxGramsAssumption DEF TypeOK, IsTable, HoldingRow, Grams
        <3>. QED
            BY <1>3, <3>1, <3>2, <3>3 DEF Fits
    <2>2. Advertised(h)'
        <3>1. \A l \in Published(after, h) : after[l].seller = holdings'[h].holder
            BY <1>2 DEF Published
        <3>. QED
            BY <1>1, <1>4, <3>1 DEF Advertised
    <2>. QED
        BY <2>1, <2>2 DEF Sound
<1>8. ASSUME NEW g \in DOMAIN holdings \ {h}
      PROVE  Sound(g)'
    <2>1. ASSUME NEW l \in Published(listings', g)
          PROVE  l \in Published(listings, g) /\ listings'[l] = listings[l]
        BY <1>1, <1>2 DEF Published
    <2>2. ASSUME NEW l \in Published(listings', g), NEW o \in PendingOn(offers', l)
          PROVE  offers'[o].quantity <= listings'[l].quantity
        <3>1. o \in PendingOn(offers, l) /\ offers'[o].quantity = offers[o].quantity
            BY <1>5 DEF PendingOn
        <3>. QED
            BY <2>1, <3>1 DEF StockInv, Sound, Advertised
    <2>3. ASSUME NEW t \in RequestedTransfers(g)'
          PROVE  t \in RequestedTransfers(g) /\ transfers'[t] = transfers[t]
        BY DEF RequestedTransfers
    <2>. QED
        BY <2>1, <2>2, <2>3, UntouchedSound
<1>9. ASSUME NEW g \in DOMAIN holdings' \ DOMAIN holdings
      PROVE  Sound(g)'
    <2>1. Published(listings', g) = {}
        BY <1>1, <1>2 DEF Published, ForeignKeys
    <2>2. RequestedTransfers(g)' = {}
        BY DEF RequestedTransfers, ForeignKeys
    <2>. QED
        BY <2>1, <2>2, FreshSound
<1>. QED
    BY <1>6, <1>7, <1>8, <1>9 DEF StockInv

(***************************************************************************)
(* The steps that publish and request nothing: the rows of holdings stay   *)
(* or a contract's end frees one, publications come down, offers are       *)
(* decided, or made for no more than is advertised.                        *)
(***************************************************************************)
LEMMA QuietSound ==
    ASSUME IInv, IInv', StockInv,
           DOMAIN holdings \subseteq DOMAIN holdings',
           \A g \in DOMAIN holdings :
               \/ holdings'[g] = holdings[g]
               \/ holdings[g].status = "committed" /\ holdings'[g].status = "available",
           DOMAIN listings' = DOMAIN listings,
           \A l \in DOMAIN listings : /\ listings'[l].holding = listings[l].holding
                                      /\ listings'[l].seller = listings[l].seller
                                      /\ listings'[l].quantity = listings[l].quantity
                                      /\ listings'[l].active => listings[l].active
                                      /\ listings[l].expired => listings'[l].expired,
           \A o \in DOMAIN offers' :
               /\ offers'[o].quantity > 0
               /\ \/ /\ o \in DOMAIN offers
                     /\ offers'[o].listing = offers[o].listing
                     /\ offers'[o].quantity = offers[o].quantity
                     /\ offers'[o].status = "pending" => offers[o].status = "pending"
                  \/ offers'[o].quantity <= listings'[offers'[o].listing].quantity,
           \A t \in DOMAIN transfers' : \/ transfers'[t].status # "requested"
                                        \/ t \in DOMAIN transfers /\ transfers'[t] = transfers[t]
    PROVE  StockInv'
<1>. TypeOK /\ TypeOK' /\ ForeignKeys /\ ForeignKeys'
    BY DEF IInv
<1>1. PositiveQuantities'
    BY DEF StockInv, PositiveQuantities
<1>2. ASSUME NEW g \in DOMAIN holdings
      PROVE  Sound(g)'
    <2>1. ASSUME NEW l \in Published(listings', g)
          PROVE  /\ l \in Published(listings, g)
                 /\ listings'[l].seller = listings[l].seller
                 /\ listings'[l].quantity = listings[l].quantity
        BY DEF Published, TypeOK, IsTable, ListingRow
    <2>2. ASSUME NEW l \in Published(listings', g), NEW o \in PendingOn(offers', l)
          PROVE  offers'[o].quantity <= listings'[l].quantity
        BY <2>1 DEF StockInv, Sound, Advertised, PendingOn
    <2>3. ASSUME NEW t \in RequestedTransfers(g)'
          PROVE  t \in RequestedTransfers(g) /\ transfers'[t] = transfers[t]
        BY DEF RequestedTransfers
    <2>4. holdings'[g].quantity \in Nat
        BY MaxGramsAssumption DEF TypeOK, IsTable, HoldingRow, Grams
    <2>. QED
        BY <2>1, <2>2, <2>3, <2>4, UntouchedSound
<1>3. ASSUME NEW g \in DOMAIN holdings' \ DOMAIN holdings
      PROVE  Sound(g)'
    <2>1. Published(listings', g) = {}
        BY DEF Published, ForeignKeys
    <2>2. RequestedTransfers(g)' = {}
        BY DEF RequestedTransfers, ForeignKeys
    <2>. QED
        BY <2>1, <2>2, FreshSound
<1>. QED
    BY <1>1, <1>2, <1>3 DEF StockInv

(***************************************************************************)
(* The steps that publish one listing l on h, new or renewed: what is free *)
(* of h beside the other publications and the requests covers it, and no   *)
(* undecided offer is on it yet.                                           *)
(***************************************************************************)
LEMMA PublicationSound ==
    ASSUME IInv, IInv', StockInv, NEW l \in DOMAIN listings', NEW h \in DOMAIN holdings',
           holdings'[h].status = "available",
           listings'[l].holding = h, listings'[l].seller = holdings'[h].holder, listings'[l].quantity > 0,
           l \in DOMAIN listings => listings[l].holding = h,
           \A x \in DOMAIN listings' \ {l} : x \in DOMAIN listings /\ listings'[x] = listings[x],
           \A o \in DOMAIN offers' :
               /\ offers'[o].quantity > 0
               /\ offers'[o].status = "pending" =>
                     offers'[o].listing # l /\ o \in DOMAIN offers /\ offers'[o] = offers[o],
           transfers' = transfers,
           DOMAIN holdings \subseteq DOMAIN holdings', \A g \in DOMAIN holdings : holdings'[g] = holdings[g],
           listings'[l].quantity
               <= holdings'[h].quantity - publishedSiblings(h, l) - pendingTransferQuantity(h)
    PROVE  StockInv'
<1>. TypeOK /\ TypeOK' /\ ForeignKeys /\ ForeignKeys'
    BY DEF IInv
<1>1. PositiveQuantities'
    BY DEF StockInv, PositiveQuantities
<1>2. Sound(h)'
    <2>. DEFINE P == Published(listings, h)
                Q == Published(listings', h)
    <2>1. /\ Rows(listings, P) /\ Rows(listings', Q) /\ SumQuantity(listings', Q) \in Nat
          /\ pendingTransferQuantity(h) \in Nat /\ pendingTransferQuantity(h)' = pendingTransferQuantity(h)
        BY PublicationRows, RequestRows DEF TypeOK, pendingTransferQuantity, RequestedTransfers
    <2>2. listings'[l].quantity \in Grams /\ holdings'[h].quantity \in Grams
        BY DEF TypeOK, IsTable, ListingRow, HoldingRow
    <2>3. Q \ {l} \subseteq P \ {l} /\ \A x \in Q \ {l} : listings'[x] = listings[x]
        BY DEF Published
    <2>4. /\ publishedSiblings(h, l) = SumQuantity(listings, P \ {l})
          /\ publishedQuantity(h)' = SumQuantity(listings', Q)
        BY DEF publishedSiblings, publishedQuantity
    <2>5. Fits(h)'
        <3>. HIDE DEF P, Q
        <3>1. Rows(listings, P \ {l}) /\ Rows(listings', Q \ {l})
            BY <2>1, FS_RemoveElement DEF Rows
        <3>2. SumQuantity(listings, P \ {l}) \in Nat /\ SumQuantity(listings', Q \ {l}) \in Nat
            BY <3>1, SumIsNat DEF Rows
        <3>3. \A x \in Q \ {l} : listings'[x].quantity <= listings[x].quantity
            BY <2>3, <3>1, MaxGramsAssumption DEF Rows, Grams
        <3>4. SumQuantity(listings', Q \ {l}) <= SumQuantity(listings, P \ {l})
            BY <2>3, <3>1, <3>3, SumMonotone DEF Rows
        <3>5. SumQuantity(listings', Q) <= SumQuantity(listings', Q \ {l}) + listings'[l].quantity
            <4>1. listings'[l].quantity \in Nat
                BY <2>2, MaxGramsAssumption DEF Grams
            <4>2. CASE l \in Q
                <5>1. SumQuantity(listings', Q) = SumQuantity(listings', Q \ {l}) + listings'[l].quantity
                    BY <2>1, <4>2, SumApart
                <5>. QED
                    BY <2>1, <3>2, <4>1, <5>1
            <4>3. CASE l \notin Q
                <5>1. Q \ {l} = Q
                    BY <4>3
                <5>. QED
                    BY <3>2, <4>1, <5>1
            <4>. QED
                BY <4>2, <4>3
        <3>6. listings'[l].quantity \in Int /\ holdings'[h].quantity \in Int
            BY <2>2, MaxGramsAssumption DEF Grams
        <3>. QED
            BY <2>1, <2>4, <3>2, <3>4, <3>5, <3>6 DEF Fits
    <2>6. Advertised(h)'
        <3>1. ASSUME NEW x \in Q
              PROVE  /\ listings'[x].seller = holdings'[h].holder
                     /\ \A o \in PendingOn(offers', x) : offers'[o].quantity <= listings'[x].quantity
            <4>1. CASE x = l
                BY <4>1 DEF PendingOn
            <4>2. CASE x # l
                <5>1. x \in P /\ listings'[x] = listings[x] /\ h \in DOMAIN holdings
                    BY <2>3, <4>2 DEF Published, ForeignKeys
                <5>2. \A o \in PendingOn(offers', x) : o \in PendingOn(offers, x) /\ offers'[o] = offers[o]
                    BY DEF PendingOn
                <5>. QED
                    BY <5>1, <5>2 DEF StockInv, Sound, Advertised
            <4>. QED
                BY <4>1, <4>2
        <3>. QED
            BY <3>1 DEF Advertised
    <2>7. Requested(h)'
        BY DEF StockInv, Sound, Requested, RequestedTransfers, ForeignKeys
    <2>. QED
        BY <2>5, <2>6, <2>7 DEF Sound
<1>3. ASSUME NEW g \in DOMAIN holdings \ {h}
      PROVE  Sound(g)'
    <2>1. ASSUME NEW x \in Published(listings', g)
          PROVE  x \in Published(listings, g) /\ listings'[x] = listings[x]
        BY DEF Published
    <2>2. ASSUME NEW x \in Published(listings', g), NEW o \in PendingOn(offers', x)
          PROVE  offers'[o].quantity <= listings'[x].quantity
        BY <2>1 DEF StockInv, Sound, Advertised, PendingOn
    <2>3. ASSUME NEW t \in RequestedTransfers(g)'
          PROVE  t \in RequestedTransfers(g) /\ transfers'[t] = transfers[t]
        BY DEF RequestedTransfers
    <2>. QED
        BY <2>1, <2>2, <2>3, UntouchedSound
<1>4. ASSUME NEW g \in DOMAIN holdings' \ (DOMAIN holdings \cup {h})
      PROVE  Sound(g)'
    <2>1. Published(listings', g) = {}
        BY DEF Published, ForeignKeys
    <2>2. RequestedTransfers(g)' = {}
        BY DEF RequestedTransfers, ForeignKeys
    <2>. QED
        BY <2>1, <2>2, FreshSound
<1>. QED
    BY <1>1, <1>2, <1>3, <1>4 DEF StockInv

-----------------------------------------------------------------------------
(* One lemma per group of operations.                                      *)

\* Registration and allocation: a new holding, published whole or not at all.
LEMMA AllocateSound == IInv /\ IInv' /\ StockInv /\ AllocateStock => StockInv'
<1>. SUFFICES ASSUME IInv, IInv', StockInv, NEW b \in Batches, NEW q \in 1..MaxGrams, NEW h \in HoldingIds,
                     \/ \E org \in Orgs : registerBatch(b, org, q, h)
                     \/ createHolding(b, q, h)
                     \/ \E l \in ListingIds : publishBatchFromSource(b, q, h, l)
              PROVE  StockInv'
    BY DEF AllocateStock
<1>. TypeOK /\ TypeOK' /\ ForeignKeys
    BY DEF IInv
<1>1. \E org \in Orgs : holdings' = Insert(holdings, h, NewHolding(b, org, q, "available"))
    BY DEF registerBatch, createHolding, publishBatchFromSource, TypeOK, SourceRow
<1>2. h \notin DOMAIN holdings
    BY DEF registerBatch, createHolding, publishBatchFromSource
<1>3. /\ DOMAIN holdings' = DOMAIN holdings \cup {h}
      /\ \A g \in DOMAIN holdings : holdings'[g] = holdings[g]
      /\ holdings'[h].status = "available" /\ holdings'[h].quantity = q
    BY <1>1, <1>2 DEF Insert, NewHolding
<1>4. CASE (\E org \in Orgs : registerBatch(b, org, q, h)) \/ createHolding(b, q, h)
    <2>1. UNCHANGED <<listings, offers, transfers>>
        BY <1>4 DEF registerBatch, createHolding
    <2>2. \A o \in DOMAIN offers : offers[o].quantity > 0
        BY DEF StockInv, PositiveQuantities
    <2>. QED
        BY <1>3, <2>1, <2>2, QuietSound
<1>5. ASSUME NEW l \in ListingIds, publishBatchFromSource(b, q, h, l)
      PROVE  StockInv'
    <2>1. /\ l \notin DOMAIN listings /\ UNCHANGED <<offers, transfers>>
          /\ listings' = Insert(listings, l, NewListing(source[b].holder, h, q))
          /\ holdings' = Insert(holdings, h, NewHolding(b, source[b].holder, q, "available"))
        BY <1>5 DEF publishBatchFromSource
    <2>2. /\ l \in DOMAIN listings' /\ listings'[l].holding = h /\ listings'[l].quantity = q
          /\ listings'[l].seller = holdings'[h].holder
          /\ \A x \in DOMAIN listings' \ {l} : x \in DOMAIN listings /\ listings'[x] = listings[x]
        BY <2>1 DEF Insert, NewListing, NewHolding
    <2>3. Published(listings, h) = {} /\ RequestedTransfers(h) = {}
        BY <1>2 DEF Published, RequestedTransfers, ForeignKeys
    <2>4. publishedSiblings(h, l) = 0 /\ pendingTransferQuantity(h) = 0
        <3>1. Published(listings, h) \ {l} = {}
            BY <2>3
        <3>. QED
            BY <2>3, <3>1, SumOfNone DEF publishedSiblings, pendingTransferQuantity
    <2>5. \A o \in DOMAIN offers : offers[o].quantity > 0 /\ offers[o].listing # l
        BY <2>1 DEF StockInv, PositiveQuantities, ForeignKeys
    <2>6. q \in Int /\ q > 0
        BY MaxGramsAssumption
    <2>. QED
        BY <1>3, <2>1, <2>2, <2>4, <2>5, <2>6, PublicationSound
<1>. QED
    BY <1>4, <1>5

\* New publications: of the batch's best holding, or of a named one.
LEMMA PublishNewSound ==
    ASSUME IInv, IInv', StockInv, NEW l \in ListingIds, NEW q \in 1..MaxGrams,
           \/ \E b \in Batches : publishBatchFromHolding(b, q, l)
           \/ \E h \in HoldingIds : publishListing(h, q, l)
    PROVE  StockInv'
<1>. TypeOK /\ TypeOK' /\ ForeignKeys
    BY DEF IInv
<1>1. PICK h \in DOMAIN holdings : /\ holdings[h].status = "available"
                                   /\ q <= holdings[h].quantity - publishedQuantity(h) - pendingTransferQuantity(h)
                                   /\ listings' = Insert(listings, l, NewListing(holdings[h].holder, h, q))
    BY DEF publishBatchFromHolding, OwnAvailable, Unreserved, publishListing, Tradable
<1>2. l \notin DOMAIN listings /\ UNCHANGED <<holdings, offers, transfers>>
    BY DEF publishBatchFromHolding, publishListing
<1>3. /\ l \in DOMAIN listings' /\ listings'[l].holding = h /\ listings'[l].quantity = q
      /\ listings'[l].seller = holdings[h].holder
      /\ \A x \in DOMAIN listings' \ {l} : x \in DOMAIN listings /\ listings'[x] = listings[x]
    BY <1>1, <1>2 DEF Insert, NewListing
<1>4. publishedSiblings(h, l) = publishedQuantity(h)
    <2>1. Published(listings, h) \ {l} = Published(listings, h)
        BY <1>2 DEF Published
    <2>. QED
        BY <2>1 DEF publishedSiblings, publishedQuantity
<1>5. \A o \in DOMAIN offers : offers[o].quantity > 0 /\ offers[o].listing # l
    BY <1>2 DEF StockInv, PositiveQuantities, ForeignKeys
<1>6. q > 0
    BY MaxGramsAssumption
<1>. QED
    BY <1>1, <1>2, <1>3, <1>4, <1>5, <1>6, PublicationSound

\* Renewal: the siblings are counted again, and the pending offers made again.
LEMMA RenewSound ==
    ASSUME IInv, IInv', StockInv, NEW l \in ListingIds, renewListing(l)
    PROVE  StockInv'
<1>. TypeOK /\ TypeOK' /\ ForeignKeys
    BY DEF IInv
<1>. DEFINE h == listings[l].holding
<1>1. /\ l \in DOMAIN listings /\ holdings[h].holder = listings[l].seller /\ holdings[h].status = "available"
      /\ listings[l].active
      /\ listings[l].quantity <= holdings[h].quantity - publishedSiblings(h, l) - pendingTransferQuantity(h)
      /\ offers' = RejectOffers(offers, PendingOn(offers, l))
      /\ listings' = [listings EXCEPT ![l].expired = FALSE]
      /\ UNCHANGED <<holdings, transfers>>
    BY DEF renewListing, Editable
<1>2. h \in DOMAIN holdings /\ listings[l].quantity > 0
    BY <1>1 DEF ForeignKeys, StockInv, PositiveQuantities
<1>3. /\ DOMAIN listings' = DOMAIN listings /\ listings[l].holding = h
      /\ listings'[l].holding = h /\ listings'[l].quantity = listings[l].quantity
      /\ listings'[l].seller = listings[l].seller
      /\ \A x \in DOMAIN listings \ {l} : listings'[x] = listings[x]
    BY <1>1 DEF TypeOK, IsTable, ListingRow
<1>4. ASSUME NEW o \in DOMAIN offers'
      PROVE  /\ offers'[o].quantity > 0
             /\ offers'[o].status = "pending" =>
                   offers'[o].listing # l /\ o \in DOMAIN offers /\ offers'[o] = offers[o]
    <2>1. o \in DOMAIN offers /\ offers[o] \in OfferRow /\ offers[o].quantity > 0
        BY <1>1 DEF RejectOffers, TypeOK, IsTable, StockInv, PositiveQuantities
    <2>2. CASE o \in PendingOn(offers, l)
        <3>1. offers'[o] = [offers[o] EXCEPT !.status = "rejected"]
            BY <1>1, <2>1, <2>2 DEF RejectOffers
        <3>. QED
            BY <2>1, <3>1 DEF OfferRow
    <2>3. CASE o \notin PendingOn(offers, l)
        <3>1. offers'[o] = offers[o]
            BY <1>1, <2>1, <2>3 DEF RejectOffers
        <3>. QED
            BY <2>1, <2>3, <3>1 DEF PendingOn
    <2>. QED
        BY <2>2, <2>3
<1>. HIDE DEF h
<1>. QED
    BY <1>1, <1>2, <1>3, <1>4, PublicationSound

\* Edits and withdrawals reconcile the holding to all of it that is not requested.
LEMMA EditSound ==
    ASSUME IInv, IInv', StockInv, NEW l \in ListingIds,
           \/ \E q \in 1..MaxGrams, active \in BOOLEAN : editListing(l, q, active)
           \/ withdrawListing(l)
    PROVE  StockInv'
<1>. TypeOK /\ TypeOK' /\ ForeignKeys
    BY DEF IInv
<1>0. l \in DOMAIN listings /\ listings[l].holding \in DOMAIN holdings
    BY DEF editListing, withdrawListing, Editable, ForeignKeys
<1>3. PICK h \in DOMAIN holdings : h = listings[l].holding
    BY <1>0
<1>. DEFINE budget == holdings[h].quantity - pendingTransferQuantity(h)
<1>1. PICK ls : /\ Reconcile(ls, offers, h, budget)
                /\ \/ \E q \in 1..MaxGrams, active \in BOOLEAN :
                         ls = [listings EXCEPT ![l].quantity = q, ![l].active = active]
                   \/ ls = [listings EXCEPT ![l].active = FALSE]
    BY <1>3 DEF editListing, withdrawListing
<1>2. /\ l \in DOMAIN listings /\ holdings[h].holder = listings[l].seller /\ holdings[h].status = "available"
      /\ UNCHANGED <<holdings, transfers>>
    BY <1>3 DEF editListing, withdrawListing, Editable
<1>4. ls[l].active => ls[l].quantity > 0
    <2>1. CASE \E q \in 1..MaxGrams, active \in BOOLEAN :
                  ls = [listings EXCEPT ![l].quantity = q, ![l].active = active]
        <3>1. PICK q \in 1..MaxGrams, active \in BOOLEAN :
                  ls = [listings EXCEPT ![l].quantity = q, ![l].active = active]
            BY <2>1
        <3>2. ls[l].quantity = q
            BY <1>2, <3>1 DEF TypeOK, IsTable, ListingRow
        <3>. QED
            BY <3>2, MaxGramsAssumption
    <2>2. CASE ls = [listings EXCEPT ![l].active = FALSE]
        BY <1>2, <2>2 DEF TypeOK, IsTable, ListingRow
    <2>. QED
        BY <1>1, <2>1, <2>2
<1>5. /\ IsTable(ls, ListingIds, ListingRow)
      /\ DOMAIN ls = DOMAIN listings
      /\ \A x \in DOMAIN listings : /\ ls[x].holding = listings[x].holding
                                    /\ ls[x].seller = listings[x].seller
                                    /\ ls[x].expired = listings[x].expired
      /\ \A x \in DOMAIN listings \ {l} : ls[x] = listings[x]
    <2>1. \A q \in 1..MaxGrams : q \in Grams
        BY MaxGramsAssumption DEF Grams
    <2>2. CASE \E q \in 1..MaxGrams, active \in BOOLEAN :
                  ls = [listings EXCEPT ![l].quantity = q, ![l].active = active]
        BY <1>2, <2>1, <2>2 DEF TypeOK, IsTable, ListingRow
    <2>3. CASE ls = [listings EXCEPT ![l].active = FALSE]
        BY <1>2, <2>3 DEF TypeOK, IsTable, ListingRow
    <2>. QED
        BY <1>1, <2>2, <2>3
<1>6. /\ holdings[h].quantity \in Int /\ pendingTransferQuantity(h) \in Nat /\ publishedQuantity(h) \in Nat
      /\ pendingTransferQuantity(h)' = pendingTransferQuantity(h)
      /\ publishedQuantity(h) + pendingTransferQuantity(h) <= holdings[h].quantity
    <2>1. holdings[h].quantity \in Int
        BY <1>3, MaxGramsAssumption DEF TypeOK, IsTable, HoldingRow, Grams
    <2>2. pendingTransferQuantity(h)' = pendingTransferQuantity(h)
        BY <1>2 DEF pendingTransferQuantity, RequestedTransfers
    <2>3. pendingTransferQuantity(h) \in Nat /\ publishedQuantity(h) \in Nat
        BY RequestRows, PublicationRows DEF TypeOK, publishedQuantity
    <2>4. Fits(h)
        BY <1>3 DEF StockInv, Sound
    <2>. QED
        BY <1>2, <2>1, <2>2, <2>3, <2>4 DEF Fits
<1>7. /\ budget \in Int
      /\ Greatest(0, budget) + pendingTransferQuantity(h)' <= holdings[h].quantity
    <2>. QED
        BY <1>6 DEF Greatest
<1>8. ASSUME NEW x \in Published(ls, h)
      PROVE  ls[x].seller = holdings[h].holder
    <2>1. CASE x = l
        BY <1>2, <1>5, <2>1
    <2>2. CASE x # l
        BY <1>3, <1>5, <2>2 DEF Published, StockInv, Sound, Advertised
    <2>. QED
        BY <2>1, <2>2
<1>9. ASSUME NEW x \in DOMAIN listings
      PROVE  /\ listings[x].holding # h => ls[x] = listings[x]
             /\ ls[x].active => ls[x].quantity > 0
    <2>1. CASE x = l
        BY <1>3, <1>4, <2>1
    <2>2. CASE x # l
        BY <1>5, <2>2 DEF StockInv, PositiveQuantities
    <2>. QED
        BY <2>1, <2>2
<1>10. Requested(h)'
    <2>1. Requested(h)
        BY <1>3 DEF StockInv, Sound
    <2>. QED
        BY <1>2, <2>1 DEF Requested, RequestedTransfers
<1>. HIDE DEF budget
<1>11. /\ \A x \in Published(ls, h) : ls[x].seller = holdings'[h].holder
       /\ Greatest(0, budget) + pendingTransferQuantity(h)'
               <= IF holdings'[h].status = "available" THEN holdings'[h].quantity ELSE 0
    BY <1>2, <1>7, <1>8
<1>12. /\ DOMAIN holdings \subseteq DOMAIN holdings'
       /\ \A g \in DOMAIN holdings \ {h} : holdings'[g] = holdings[g]
       /\ \A t \in DOMAIN transfers' : \/ transfers'[t].holding = h /\ transfers'[t].quantity > 0
                                       \/ t \in DOMAIN transfers /\ transfers'[t] = transfers[t]
    BY <1>2
<1>13. /\ Reconcile(ls, offers, h, budget) /\ budget \in Int
       /\ EditOf(ls, h)
    BY <1>1, <1>5, <1>7, <1>9 DEF EditOf
<1>. QED
    BY <1>10, <1>11, <1>12, <1>13, ReconcileSound

\* Publication.
LEMMA PublishSound == IInv /\ IInv' /\ StockInv /\ PublishStock => StockInv'
<1>. SUFFICES ASSUME IInv, IInv', StockInv, NEW l \in ListingIds,
                     \/ \E b \in Batches, q \in 1..MaxGrams : publishBatchFromHolding(b, q, l)
                     \/ \E h \in HoldingIds, q \in 1..MaxGrams : publishListing(h, q, l)
                     \/ \E q \in 1..MaxGrams, active \in BOOLEAN : editListing(l, q, active)
                     \/ withdrawListing(l)
                     \/ renewListing(l)
                     \/ expireListing(l)
              PROVE  StockInv'
    BY DEF PublishStock
<1>1. CASE expireListing(l)
    <2>1. /\ l \in DOMAIN listings /\ UNCHANGED <<holdings, offers, transfers>>
          /\ listings' = [listings EXCEPT ![l].expired = TRUE]
        BY <1>1 DEF expireListing
    <2>2. /\ DOMAIN listings' = DOMAIN listings
          /\ \A x \in DOMAIN listings : /\ listings'[x].holding = listings[x].holding
                                        /\ listings'[x].seller = listings[x].seller
                                        /\ listings'[x].quantity = listings[x].quantity
                                        /\ listings'[x].active => listings[x].active
                                        /\ listings[x].expired => listings'[x].expired
        BY <2>1 DEF IInv, TypeOK, IsTable, ListingRow
    <2>3. \A o \in DOMAIN offers : offers[o].quantity > 0
        BY DEF StockInv, PositiveQuantities
    <2>. QED
        BY <2>1, <2>2, <2>3, QuietSound
<1>. QED
    BY <1>1, PublishNewSound, EditSound, RenewSound

\* A custody transfer is requested: the publications make room for it.
LEMMA TransferSound ==
    ASSUME IInv, IInv', StockInv, NEW h \in HoldingIds, NEW to \in Orgs, NEW q \in 1..MaxGrams,
           NEW t \in TransferIds, transferHolding(h, to, q, t)
    PROVE  StockInv'
<1>. TypeOK /\ TypeOK' /\ ForeignKeys
    BY DEF IInv
<1>. DEFINE row == [holding |-> h, from |-> holdings[h].holder, to |-> to, quantity |-> q, status |-> "requested"]
            budget == holdings[h].quantity - pendingTransferQuantity(h) - q
            R == RequestedTransfers(h)
<1>1. /\ h \in DOMAIN holdings /\ t \notin DOMAIN transfers /\ to # holdings[h].holder
      /\ holdings[h].status = "available"
      /\ q <= holdings[h].quantity - pendingTransferQuantity(h)
      /\ transfers' = Insert(transfers, t, row)
      /\ Reconcile(listings, offers, h, budget)
      /\ UNCHANGED holdings
    BY DEF transferHolding, Tradable
<1>2. /\ row.holding = h /\ row.from = holdings[h].holder /\ row.to = to /\ row.quantity = q
      /\ row.status = "requested"
    OBVIOUS
<1>. HIDE DEF row
<1>3. /\ DOMAIN transfers' = DOMAIN transfers \cup {t}
      /\ transfers'[t] = row
      /\ \A x \in DOMAIN transfers : transfers'[x] = transfers[x]
    BY <1>1 DEF Insert
<1>4. RequestedTransfers(h)' = R \cup {t} /\ t \notin R
    BY <1>1, <1>2, <1>3 DEF RequestedTransfers
<1>5. q \in Nat /\ q > 0 /\ q \in Grams /\ holdings[h].quantity \in Int /\ pendingTransferQuantity(h) \in Nat
    BY <1>1, MaxGramsAssumption, RequestRows DEF TypeOK, IsTable, HoldingRow, Grams
<1>6. pendingTransferQuantity(h)' = pendingTransferQuantity(h) + q
    <2>1. SumQuantity(transfers', R) = SumQuantity(transfers, R)
        <3>1. \A x \in R : transfers'[x] = transfers[x]
            BY <1>3 DEF RequestedTransfers
        <3>. QED
            BY <3>1, SumSame
    <2>2. IsFiniteSet(R) /\ IsFiniteSet({t}) /\ R \cap {t} = {}
        BY <1>4, RequestRows, FewRows DEF Rows
    <2>3. SumQuantity(transfers', {t}) = q
        BY <1>2, <1>3, <1>5, SumOfOne
    <2>4. SumQuantity(transfers', R \cup {t}) = SumQuantity(transfers', R) + SumQuantity(transfers', {t})
        BY <2>2, SumOfBoth
    <2>. HIDE DEF R
    <2>. QED
        BY <1>4, <2>1, <2>3, <2>4 DEF pendingTransferQuantity, R
<1>7. /\ budget \in Int
      /\ Greatest(0, budget) + pendingTransferQuantity(h)' <= holdings[h].quantity
    BY <1>1, <1>5, <1>6 DEF Greatest
<1>8. \A x \in DOMAIN transfers' : \/ transfers'[x].holding = h /\ transfers'[x].quantity > 0
                                   \/ x \in DOMAIN transfers /\ transfers'[x] = transfers[x]
    BY <1>2, <1>3, <1>5
<1>9. Requested(h)'
    <2>1. ASSUME NEW x \in RequestedTransfers(h)'
          PROVE  transfers'[x].from = holdings'[h].holder /\ transfers'[x].to # transfers'[x].from
        <3>1. CASE x = t
            BY <1>1, <1>2, <1>3, <3>1
        <3>2. CASE x # t
            BY <1>1, <1>3, <1>4, <3>2 DEF StockInv, Sound, Requested, RequestedTransfers
        <3>. QED
            BY <3>1, <3>2
    <2>. QED
        BY <2>1 DEF Requested
<1>10. /\ EditOf(listings, h)
       /\ \A x \in Published(listings, h) : listings[x].seller = holdings[h].holder
    BY <1>1, NoEdit DEF StockInv, Sound, Advertised
<1>. HIDE DEF budget, R
<1>. QED
    BY <1>1, <1>7, <1>8, <1>9, <1>10, ReconcileSound

\* The transfer is accepted: the publications make room for what is still requested.
LEMMA TakeSound ==
    ASSUME IInv, IInv', StockInv, NEW t \in TransferIds, NEW n \in HoldingIds, acceptTransfer(t, n)
    PROVE  StockInv'
<1>. TypeOK /\ TypeOK' /\ ForeignKeys
    BY DEF IInv
<1>0. /\ t \in DOMAIN transfers /\ transfers[t].holding \in DOMAIN holdings
      /\ transfers[t] \in TransferRow
    BY DEF acceptTransfer, ForeignKeys, TypeOK, IsTable
<1>2. PICK h \in DOMAIN holdings : h = transfers[t].holding
    BY <1>0
<1>. DEFINE q == transfers[t].quantity
            to == transfers[t].to
            R == RequestedTransfers(h)
            reserved == SumQuantity(transfers, R \ {t})
            budget == holdings[h].quantity - q - reserved
<1>1. /\ t \in DOMAIN transfers /\ n \notin DOMAIN holdings /\ transfers[t].status = "requested"
      /\ holdings[h].status = "available"
      /\ q > 0 /\ q <= holdings[h].quantity - reserved
      /\ holdings' = Insert(TakeFrom(h, q), n, NewHolding(holdings[h].batch, to, q, "available"))
      /\ transfers' = [transfers EXCEPT ![t].status = "accepted"]
      /\ Reconcile(listings, offers, h, budget)
    BY <1>2 DEF acceptTransfer, Tradable
<1>3. q \in Grams /\ q \in Nat /\ to \in Orgs /\ holdings[h].quantity \in Nat /\ reserved \in Nat
    <2>1. IsFiniteSet(R \ {t})
        BY RequestRows, FS_RemoveElement DEF Rows
    <2>2. reserved \in Nat
        BY <2>1, SumIsNat
    <2>. QED
        BY <1>0, <1>2, <2>2, MaxGramsAssumption DEF TransferRow, Grams, TypeOK, IsTable, HoldingRow
<1>4. /\ DOMAIN transfers' = DOMAIN transfers
      /\ transfers'[t].status = "accepted" /\ transfers'[t].holding = h /\ transfers'[t].quantity = q
      /\ \A x \in DOMAIN transfers \ {t} : transfers'[x] = transfers[x]
    BY <1>0, <1>1, <1>2 DEF TransferRow, TypeOK, IsTable
<1>5. RequestedTransfers(h)' = R \ {t}
    BY <1>4 DEF RequestedTransfers
<1>6. pendingTransferQuantity(h)' = reserved
    <2>1. \A x \in R \ {t} : transfers'[x] = transfers[x]
        BY <1>4 DEF RequestedTransfers
    <2>2. SumQuantity(transfers', R \ {t}) = reserved
        <3>. HIDE DEF R
        <3>. QED
            BY <2>1, SumSame
    <2>. QED
        BY <1>5, <2>2 DEF pendingTransferQuantity
<1>7. /\ DOMAIN holdings' = DOMAIN holdings \cup {n}
      /\ \A x \in DOMAIN holdings \ {h} : holdings'[x] = holdings[x]
      /\ holdings'[h].holder = holdings[h].holder
      /\ \/ q = holdings[h].quantity /\ holdings'[h].status = "transferred"
         \/ /\ q # holdings[h].quantity /\ holdings'[h].status = "available"
            /\ holdings'[h].quantity = holdings[h].quantity - q
    <2>1. n \in HoldingIds \ DOMAIN holdings
        BY <1>1
    <2>. HIDE DEF q, to, R
    <2>. QED
        BY <1>1, <1>2, <1>3, <2>1, TakenRows DEF SameStock
<1>8. \A x \in DOMAIN transfers' : \/ transfers'[x].holding = h /\ transfers'[x].quantity > 0
                                   \/ x \in DOMAIN transfers /\ transfers'[x] = transfers[x]
    BY <1>1, <1>4
<1>9. Requested(h)'
    <2>1. Requested(h)
        BY DEF StockInv, Sound
    <2>2. \A x \in R \ {t} : x \in DOMAIN transfers /\ x \in RequestedTransfers(h)
        BY DEF RequestedTransfers
    <2>. HIDE DEF R
    <2>. QED
        BY <1>4, <1>5, <1>7, <2>1, <2>2 DEF Requested
<1>10. /\ EditOf(listings, h)
       /\ \A x \in Published(listings, h) : listings[x].seller = holdings[h].holder
    BY <1>2, NoEdit DEF StockInv, Sound, Advertised
<1>. HIDE DEF q, to, R, reserved
<1>11. /\ budget \in Int
       /\ Greatest(0, budget) + pendingTransferQuantity(h)'
             <= IF holdings'[h].status = "available" THEN holdings'[h].quantity ELSE 0
    BY <1>1, <1>3, <1>6, <1>7 DEF Greatest
<1>. HIDE DEF budget
<1>. QED
    BY <1>1, <1>2, <1>7, <1>8, <1>9, <1>10, <1>11, ReconcileSound

\* A split takes every publication of the holding down; nothing is requested from it.
LEMMA SplitSound ==
    ASSUME IInv, IInv', StockInv, NEW h \in HoldingIds, NEW m \in HoldingIds, NEW n \in HoldingIds,
           NEW q \in 1..MaxGrams, splitHolding(h, q, m, n)
    PROVE  StockInv'
<1>. TypeOK /\ TypeOK' /\ ForeignKeys
    BY DEF IInv
<1>1. /\ h \in DOMAIN holdings /\ pendingTransferQuantity(h) = 0
      /\ Reconcile(listings, offers, h, 0) /\ UNCHANGED transfers
    BY DEF splitHolding
<1>2. /\ DOMAIN holdings' = DOMAIN holdings \cup {m, n}
      /\ \A x \in DOMAIN holdings \ {h} : holdings'[x] = holdings[x]
      /\ holdings'[h].holder = holdings[h].holder /\ holdings'[h].status = "transferred"
    BY SplitRows DEF SameStock
<1>3. Requested(h)'
    BY <1>1, <1>2 DEF StockInv, Sound, Requested, RequestedTransfers
<1>4. /\ EditOf(listings, h)
      /\ \A x \in Published(listings, h) : listings[x].seller = holdings[h].holder
    BY <1>1, NoEdit DEF StockInv, Sound, Advertised
<1>5. Greatest(0, 0) + pendingTransferQuantity(h)' <= 0
    BY <1>1 DEF Greatest, pendingTransferQuantity, RequestedTransfers
<1>. QED
    BY <1>1, <1>2, <1>3, <1>4, <1>5, ReconcileSound

\* Transfers and splits.
LEMMA MoveSound == IInv /\ IInv' /\ StockInv /\ MoveStock => StockInv'
BY TransferSound, TakeSound, SplitSound DEF MoveStock

\* The end of a contract frees stock that nobody could publish or request while it ran.
LEMMA CloseSound == IInv /\ IInv' /\ StockInv /\ CloseContracts => StockInv'
<1>. SUFFICES ASSUME IInv, IInv', StockInv, CloseContracts PROVE StockInv'
    OBVIOUS
<1>. TypeOK /\ TypeOK' /\ ForeignKeys
    BY DEF IInv
<1>1. PICK o \in OfferIds : (\E t \in TransferIds : completeTrade(o, t)) \/ approveCancellation(o)
    BY DEF CloseContracts
<1>2. /\ o \in DOMAIN contracts /\ contracts[o].holding \in DOMAIN holdings /\ contracts[o].buyer \in Orgs
      /\ holdings[contracts[o].holding].status = "committed"
      /\ UNCHANGED <<listings, offers>>
    BY <1>1 DEF completeTrade, approveCancellation, InventorySafe, SliceIntact, ForeignKeys, TypeOK, IsTable,
                ContractRow
<1>3. PICK h \in DOMAIN holdings : h = contracts[o].holding
    BY <1>2
<1>4. \/ holdings' = [holdings EXCEPT ![h].holder = contracts[o].buyer, ![h].status = "available"]
      \/ holdings' = [holdings EXCEPT ![h].status = "available"]
    BY <1>1, <1>3 DEF completeTrade, approveCancellation
<1>5. /\ DOMAIN holdings' = DOMAIN holdings
      /\ \A x \in DOMAIN holdings \ {h} : holdings'[x] = holdings[x]
      /\ holdings'[h].status = "available"
    BY <1>2, <1>4, ClosedRows
<1>6. \A t \in DOMAIN transfers' : \/ transfers'[t].status # "requested"
                                   \/ t \in DOMAIN transfers /\ transfers'[t] = transfers[t]
    <2>1. \/ transfers' = transfers
          \/ \E t \in TransferIds, row \in TransferRow :
                row.status = "accepted" /\ transfers' = Insert(transfers, t, row)
        <3>1. CASE approveCancellation(o)
            BY <3>1 DEF approveCancellation
        <3>2. ASSUME NEW t \in TransferIds, completeTrade(o, t)
              PROVE  \/ transfers' = transfers
                     \/ \E row \in TransferRow : row.status = "accepted" /\ transfers' = Insert(transfers, t, row)
            <4>. DEFINE c == contracts[o]
                        row == [holding |-> c.holding, from |-> c.seller, to |-> c.buyer,
                                quantity |-> c.quantity, status |-> "accepted"]
            <4>1. transfers' = transfers \/ transfers' = Insert(transfers, t, row)
                BY <3>2 DEF completeTrade
            <4>2. row \in TransferRow /\ row.status = "accepted"
                BY <1>2 DEF TypeOK, IsTable, ContractRow, TransferRow
            <4>. HIDE DEF row
            <4>. QED
                BY <4>1, <4>2
        <3>. QED
            BY <1>1, <3>1, <3>2
    <2>. QED
        BY <2>1 DEF Insert
<1>7. \A x \in DOMAIN offers : offers[x].quantity > 0
    BY DEF StockInv, PositiveQuantities
<1>. QED
    BY <1>2, <1>3, <1>5, <1>6, <1>7, QuietSound

\* A recall takes publications down; its resolution publishes none.
LEMMA RecallSound == IInv /\ IInv' /\ StockInv /\ RecallStock => StockInv'
<1>. SUFFICES ASSUME IInv, IInv', StockInv, NEW b \in Batches, activateRecall(b) \/ resolveRecall(b)
              PROVE  StockInv'
    BY DEF RecallStock
<1>1. UNCHANGED <<holdings, offers, transfers>> /\ \A o \in DOMAIN offers : offers[o].quantity > 0
    BY DEF activateRecall, resolveRecall, StockInv, PositiveQuantities
<1>2. /\ DOMAIN listings' = DOMAIN listings
      /\ \A l \in DOMAIN listings : /\ listings'[l].holding = listings[l].holding
                                    /\ listings'[l].seller = listings[l].seller
                                    /\ listings'[l].quantity = listings[l].quantity
                                    /\ listings'[l].active => listings[l].active
                                    /\ listings[l].expired => listings'[l].expired
    <2>1. CASE listings' = listings
        BY <2>1
    <2>2. CASE activateRecall(b)
        <3>1. DOMAIN listings' = DOMAIN listings
            BY <2>2 DEF activateRecall
        <3>2. ASSUME NEW l \in DOMAIN listings
              PROVE  /\ listings'[l].holding = listings[l].holding
                     /\ listings'[l].seller = listings[l].seller
                     /\ listings'[l].quantity = listings[l].quantity
                     /\ listings'[l].active => listings[l].active
                     /\ listings[l].expired => listings'[l].expired
            <4>. DEFINE on == listings[l].active /\ holdings[listings[l].holding].batch # b
            <4>1. listings'[l] = [listings[l] EXCEPT !.active = on]
                BY <2>2 DEF activateRecall
            <4>2. listings[l] \in ListingRow /\ (on => listings[l].active)
                BY DEF IInv, TypeOK, IsTable
            <4>. HIDE DEF on
            <4>. QED
                BY <4>1, <4>2 DEF ListingRow
        <3>. QED
            BY <3>1, <3>2
    <2>. QED
        BY <2>1, <2>2 DEF resolveRecall
<1>. QED
    BY <1>1, <1>2, QuietSound

\* Offers are made for no more than is advertised, and only ever decided.
LEMMA OfferSound ==
    ASSUME IInv, IInv', StockInv, NEW o \in OfferIds,
           \/ \E l \in ListingIds, buyer \in Orgs, q \in 1..MaxGrams : createTradeOffer(l, buyer, q, o)
           \/ rejectTradeOffer(o) \/ discoverWithdrawal(o) \/ withdrawTradeOffer(o) \/ lapseOffer(o)
    PROVE  StockInv'
<1>. TypeOK /\ TypeOK' /\ ForeignKeys
    BY DEF IInv
<1>1. UNCHANGED <<holdings, listings, transfers>>
    BY DEF createTradeOffer, rejectTradeOffer, discoverWithdrawal, withdrawTradeOffer, lapseOffer
<1>2. ASSUME NEW x \in DOMAIN offers'
      PROVE  /\ offers'[x].quantity > 0
             /\ \/ /\ x \in DOMAIN offers
                   /\ offers'[x].listing = offers[x].listing
                   /\ offers'[x].quantity = offers[x].quantity
                   /\ offers'[x].status = "pending" => offers[x].status = "pending"
                \/ offers'[x].quantity <= listings'[offers'[x].listing].quantity
    <2>1. CASE \E l \in ListingIds, buyer \in Orgs, q \in 1..MaxGrams : createTradeOffer(l, buyer, q, o)
        <3>1. PICK l \in ListingIds, buyer \in Orgs, q \in 1..MaxGrams : createTradeOffer(l, buyer, q, o)
            BY <2>1
        <3>. DEFINE row == [listing |-> l, buyer |-> buyer, quantity |-> q, lapsed |-> FALSE, status |-> "pending"]
        <3>2. offers' = Insert(offers, o, row) /\ q <= listings[l].quantity
            BY <3>1 DEF createTradeOffer
        <3>3. row.listing = l /\ row.quantity = q /\ q > 0
            BY MaxGramsAssumption
        <3>. HIDE DEF row
        <3>4. CASE x = o
            BY <1>1, <3>2, <3>3, <3>4 DEF Insert
        <3>5. CASE x # o
            BY <3>2, <3>5 DEF Insert, StockInv, PositiveQuantities
        <3>. QED
            BY <3>4, <3>5
    <2>2. CASE \/ offers' = offers
               \/ offers' = [offers EXCEPT ![o].status = "rejected"]
               \/ offers' = [offers EXCEPT ![o].status = "cancelled"]
               \/ offers' = [offers EXCEPT ![o].lapsed = TRUE]
        <3>1. x \in DOMAIN offers /\ offers[x] \in OfferRow /\ offers[x].quantity > 0
            BY <2>2 DEF TypeOK, IsTable, StockInv, PositiveQuantities
        <3>2. \/ offers'[x] = offers[x]
              \/ offers'[x] = [offers[x] EXCEPT !.status = "rejected"]
              \/ offers'[x] = [offers[x] EXCEPT !.status = "cancelled"]
              \/ offers'[x] = [offers[x] EXCEPT !.lapsed = TRUE]
            BY <2>2, <3>1 DEF TypeOK, IsTable
        <3>. QED
            BY <3>1, <3>2 DEF OfferRow
    <2>. QED
        BY <2>1, <2>2 DEF rejectTradeOffer, discoverWithdrawal, withdrawTradeOffer, lapseOffer
<1>. QED
    BY <1>1, <1>2, QuietSound

(***************************************************************************)
(* Acceptance.  The slice is nobody's to promise: nothing refers to it, or *)
(* it is the whole holding and then nothing was requested from it and its  *)
(* listings have no budget.  What stays of the holding covers its other    *)
(* listings, reconciled, and the remainder of the accepted one.            *)
(***************************************************************************)
LEMMA AcceptSound ==
    ASSUME IInv, IInv', StockInv, NEW o \in OfferIds, NEW c \in HoldingIds, NEW k \in ListingIds,
           acceptTradeOffer(o, c, k)
    PROVE  StockInv'
<1>. USE MaxGramsAssumption
<1>. TypeOK /\ TypeOK' /\ ForeignKeys /\ ForeignKeys'
    BY DEF IInv
<1>1. Acceptable(o) /\ o \in DOMAIN offers
    BY DEF acceptTradeOffer, Acceptable
<1>2. PICK l \in DOMAIN listings : l = offers[o].listing
    BY <1>1 DEF ForeignKeys
<1>3. PICK h \in DOMAIN holdings : h = listings[l].holding
    BY <1>2 DEF ForeignKeys
<1>4. PICK q \in Grams : q = offers[o].quantity
    BY <1>1 DEF TypeOK, IsTable, OfferRow
<1>. DEFINE remaining == RemainingListing(o)
            budget == holdings[h].quantity - q - pendingTransferQuantity(h) - remaining
            moved == [listings EXCEPT ![l].active = FALSE, ![l].holding = c, ![l].quantity = q]
            decided == [RejectOffers(offers, PendingOn(offers, l) \ {o}) EXCEPT ![o].status = "accepted"]
            after == ReconciledListings(moved, h, budget)
            new == NewListing(listings[l].seller, h, remaining)
<1>5. /\ CommitHolding(h, c, q)
      /\ \/ remaining > 0 /\ k \notin DOMAIN listings /\ listings' = Insert(after, k, new)
         \/ ~(remaining > 0) /\ listings' = after
      /\ offers' = RejectOffers(decided, UncoveredOffers(decided, after, h))
      /\ transfers' = transfers
    BY <1>2, <1>3, <1>4 DEF acceptTradeOffer
<1>6. /\ offers[o].status = "pending"
      /\ listings[l].seller = holdings[h].holder /\ holdings[h].status = "available"
      /\ q <= listings[l].quantity /\ q <= holdings[h].quantity - pendingTransferQuantity(h)
      /\ listings[l] \in ListingRow
    BY <1>1, <1>2, <1>3, <1>4 DEF Acceptable, Tradable, TypeOK, IsTable
<1>7. /\ q \in Nat /\ holdings[h].quantity \in Nat /\ listings[l].quantity \in Nat
      /\ pendingTransferQuantity(h) \in Nat /\ q <= holdings[h].quantity
    <2>1. /\ q \in Nat /\ holdings[h].quantity \in Nat /\ listings[l].quantity \in Nat
          /\ pendingTransferQuantity(h) \in Nat
        BY <1>4, <1>6, RequestRows DEF Grams, TypeOK, IsTable, HoldingRow, ListingRow
    <2>. QED
        BY <1>6, <2>1
<1>8. /\ remaining \in Nat /\ remaining <= listings[l].quantity
      /\ remaining <= holdings[h].quantity - q - pendingTransferQuantity(h)
    <2>1. remaining = Greatest(0, Least(listings[l].quantity - q,
                                        holdings[h].quantity - q - pendingTransferQuantity(h)))
        BY <1>2, <1>3, <1>4 DEF RemainingListing
    <2>. HIDE DEF remaining
    <2>. QED
        BY <1>6, <1>7, <2>1 DEF Greatest, Least
<1>9. budget \in Nat /\ remaining \in Grams
    <2>. HIDE DEF remaining
    <2>. QED
        BY <1>6, <1>7, <1>8 DEF ListingRow, Grams
<1>10. /\ IsTable(moved, ListingIds, ListingRow)
       /\ DOMAIN moved = DOMAIN listings
       /\ moved[l].seller = listings[l].seller /\ moved[l].holding = c /\ ~moved[l].active
       /\ \A x \in DOMAIN listings \ {l} : moved[x] = listings[x]
    <2>1. /\ DOMAIN moved = DOMAIN listings
          /\ \A x \in DOMAIN listings \ {l} : moved[x] = listings[x]
          /\ moved[l] = [listings[l] EXCEPT !.active = FALSE, !.holding = c, !.quantity = q]
          /\ moved = [x \in DOMAIN listings |-> moved[x]]
        BY DEF TypeOK, IsTable
    <2>. HIDE DEF moved
    <2>2. /\ moved[l] \in ListingRow /\ moved[l].seller = listings[l].seller
          /\ moved[l].holding = c /\ ~moved[l].active
        BY <1>4, <1>6, <2>1 DEF ListingRow
    <2>. QED
        BY <2>1, <2>2 DEF TypeOK, IsTable
<1>11. new.seller = listings[l].seller /\ new.holding = h /\ new.quantity = remaining
       /\ new.active /\ ~new.expired
    BY DEF NewListing
<1>12. /\ DOMAIN offers' = DOMAIN offers
       /\ \A x \in DOMAIN offers : /\ offers'[x].listing = offers[x].listing
                                   /\ offers'[x].quantity = offers[x].quantity
                                   /\ offers'[x].status = "pending" => offers[x].status = "pending"
    <2>1. /\ IsTable(offers', OfferIds, OfferRow)
          /\ DOMAIN offers' = DOMAIN offers
          /\ \A x \in DOMAIN offers : /\ offers'[x].listing = offers[x].listing
                                      /\ offers'[x].quantity = offers[x].quantity
                                      /\ offers[x].status # "pending" => offers'[x].status = offers[x].status
        <3>1. decided = [RejectOffers(offers, PendingOn(offers, offers[o].listing) \ {o})
                            EXCEPT ![o].status = "accepted"]
            BY <1>2
        <3>. HIDE DEF decided, after
        <3>. QED
            BY <1>1, <1>5, <1>6, <3>1, OffersDecided
    <2>. QED
        BY <2>1
<1>13. IsTable(decided, OfferIds, OfferRow)
    <2>. DEFINE first == RejectOffers(offers, PendingOn(offers, l) \ {o})
    <2>1. IsTable(first, OfferIds, OfferRow) /\ DOMAIN first = DOMAIN offers
        <3>1. IsTable(offers, OfferIds, OfferRow)
            BY DEF TypeOK
        <3>. QED
            BY <3>1, RejectRows
    <2>2. decided = [first EXCEPT ![o].status = "accepted"]
        OBVIOUS
    <2>. HIDE DEF first, decided
    <2>. QED
        BY <1>1, <2>1, <2>2 DEF IsTable, OfferRow
<1>. HIDE DEF remaining, moved, decided, new
<1>14. /\ IsTable(after, ListingIds, ListingRow)
       /\ DOMAIN after = DOMAIN moved
       /\ \A x \in DOMAIN moved : moved[x].holding # h => after[x] = moved[x]
       /\ \A x \in DOMAIN moved : after[x].active => moved[x].active
                                                     /\ (moved[x].quantity > 0 => after[x].quantity > 0)
       /\ \A x \in DOMAIN moved : /\ after[x].holding = moved[x].holding
                                  /\ after[x].seller = moved[x].seller
                                  /\ after[x].expired = moved[x].expired
       /\ SumQuantity(after, Published(after, h)) <= Greatest(0, budget)
    <2>. HIDE DEF budget
    <2>1. IsTable(after, ListingIds, ListingRow)
        BY <1>9, <1>10, ReconcileRows
    <2>. QED
        BY <1>9, <1>10, <2>1, ReconcilePromises, ReconcileFits
<1>15. \A x \in Published(after, h) : \A y \in PendingOn(offers', x) : offers'[y].quantity <= after[x].quantity
    <2>. HIDE DEF after
    <2>. QED
        BY <1>5, <1>13, <1>14, ReconcileCovers
<1>. HIDE DEF after, budget
<1>16. \/ /\ remaining > 0 /\ k \notin DOMAIN listings
          /\ DOMAIN listings' = DOMAIN listings \cup {k} /\ listings'[k] = new
          /\ \A x \in DOMAIN listings : listings'[x] = after[x]
       \/ /\ remaining = 0 /\ DOMAIN listings' = DOMAIN listings
          /\ \A x \in DOMAIN listings : listings'[x] = after[x]
    BY <1>5, <1>8, <1>10, <1>14 DEF Insert
<1>17. PositiveQuantities'
    <2>1. ASSUME NEW x \in DOMAIN listings', listings'[x].active
          PROVE  listings'[x].quantity > 0
        <3>1. CASE x \in DOMAIN listings
            BY <1>10, <1>14, <1>16, <2>1, <3>1 DEF StockInv, PositiveQuantities
        <3>2. CASE x \notin DOMAIN listings
            BY <1>11, <1>16, <3>2
        <3>. QED
            BY <3>1, <3>2
    <2>. QED
        BY <1>5, <1>12, <2>1 DEF StockInv, PositiveQuantities
<1>18. /\ DOMAIN holdings' = DOMAIN holdings \cup {c}
       /\ \A x \in DOMAIN holdings \ {h} : holdings'[x] = holdings[x]
       /\ c \in DOMAIN holdings => c = h
       /\ holdings'[h].holder = holdings[h].holder
       /\ \/ holdings'[h].status = "available" /\ holdings'[h].quantity = holdings[h].quantity - q
          \/ holdings'[h].status = "committed" /\ q = holdings[h].quantity
    <2>1. \/ /\ c \notin DOMAIN holdings
             /\ DOMAIN holdings' = DOMAIN holdings \cup {c}
             /\ \A x \in DOMAIN holdings \ {h} : holdings'[x] = holdings[x]
             /\ SameStock(h, h)
             /\ holdings'[h].status = holdings[h].status
             /\ holdings'[h].quantity = holdings[h].quantity - q
          \/ /\ q = holdings[h].quantity /\ c = h
             /\ DOMAIN holdings' = DOMAIN holdings
             /\ \A x \in DOMAIN holdings \ {h} : holdings'[x] = holdings[x]
             /\ SameStock(h, h)
             /\ holdings'[h].status = "committed"
        BY <1>5, <1>7, CommitRows
    <2>. QED
        BY <1>6, <2>1 DEF SameStock
<1>19. ASSUME NEW g, NEW x \in Published(listings', g)
       PROVE  \/ x = k /\ g = h /\ remaining > 0 /\ k \notin DOMAIN listings
              \/ /\ x \in DOMAIN listings /\ x # l
                 /\ x \in Published(listings, g)
                 /\ listings'[x] = after[x] /\ after[x].seller = listings[x].seller
                 /\ IF g = h THEN x \in Published(after, h) ELSE after[x] = listings[x]
    <2>1. CASE x \in DOMAIN listings
        BY <1>10, <1>14, <1>16, <2>1 DEF Published
    <2>2. CASE x \notin DOMAIN listings
        BY <1>11, <1>16, <2>2 DEF Published
    <2>. QED
        BY <2>1, <2>2
<1>20. ASSUME NEW g \in DOMAIN holdings \ {h}
       PROVE  Sound(g)'
    <2>1. ASSUME NEW x \in Published(listings', g)
          PROVE  x \in Published(listings, g) /\ listings'[x] = listings[x]
        BY <1>19
    <2>2. ASSUME NEW x \in Published(listings', g), NEW y \in PendingOn(offers', x)
          PROVE  offers'[y].quantity <= listings'[x].quantity
        <3>1. y \in PendingOn(offers, x) /\ offers'[y].quantity = offers[y].quantity
            BY <1>12 DEF PendingOn
        <3>. QED
            BY <2>1, <3>1 DEF StockInv, Sound, Advertised
    <2>3. ASSUME NEW t \in RequestedTransfers(g)'
          PROVE  t \in RequestedTransfers(g) /\ transfers'[t] = transfers[t]
        BY <1>5 DEF RequestedTransfers
    <2>4. holdings'[g] = holdings[g]
        BY <1>18
    <2>. QED
        BY <2>1, <2>2, <2>3, <2>4, UntouchedSound
<1>21. ASSUME NEW g \in DOMAIN holdings' \ DOMAIN holdings
       PROVE  Sound(g)'
    <2>1. Published(listings', g) = {}
        BY <1>19 DEF Published, ForeignKeys
    <2>2. RequestedTransfers(g)' = {}
        BY <1>5 DEF RequestedTransfers, ForeignKeys
    <2>. QED
        BY <2>1, <2>2, FreshSound
<1>22. Sound(h)'
    <2>. DEFINE A == Published(after, h)
                Q == Published(listings', h)
    <2>1. A \subseteq DOMAIN listings /\ SumQuantity(listings', A) = SumQuantity(after, A)
        <3>1. \A x \in A : x \in DOMAIN listings /\ listings'[x] = after[x]
            BY <1>10, <1>14, <1>16 DEF Published
        <3>. QED
            BY <3>1, SumSame
    <2>2. SumQuantity(after, A) \in Nat /\ IsFiniteSet(A)
        BY <1>14, PublicationRows DEF Rows
    <2>3. publishedQuantity(h)' = SumQuantity(after, A) + remaining
        <3>1. CASE remaining > 0 /\ k \notin DOMAIN listings
            <4>1. Q = A \cup {k} /\ A \cap {k} = {}
                <5>1. k \in Q
                    BY <1>11, <1>16, <3>1 DEF Published
                <5>2. A \subseteq Q
                    BY <1>10, <1>14, <1>16 DEF Published
                <5>3. Q \subseteq A \cup {k}
                    BY <1>19
                <5>. HIDE DEF A, Q
                <5>. QED
                    BY <2>1, <3>1, <5>1, <5>2, <5>3
            <4>2. listings'[k].quantity = remaining
                BY <1>11, <1>16, <3>1
            <4>3. SumQuantity(listings', {k}) = remaining
                BY <1>9, <4>2, SumOfOne
            <4>4. SumQuantity(listings', A \cup {k}) = SumQuantity(listings', A) + SumQuantity(listings', {k})
                <5>. HIDE DEF A, Q
                <5>. QED
                    BY <2>2, <4>1, FewRows, SumOfBoth
            <4>5. publishedQuantity(h)' = SumQuantity(listings', Q)
                BY DEF publishedQuantity
            <4>. HIDE DEF A, Q
            <4>. QED
                BY <2>1, <4>1, <4>3, <4>4, <4>5
        <3>2. CASE remaining = 0
            <4>1. A \subseteq Q
                BY <1>10, <1>14, <1>16 DEF Published
            <4>2. Q \subseteq A
                BY <1>19, <3>2
            <4>3. publishedQuantity(h)' = SumQuantity(listings', Q)
                BY DEF publishedQuantity
            <4>4. Q = A
                BY <4>1, <4>2
            <4>. HIDE DEF A, Q
            <4>. QED
                BY <2>1, <2>2, <3>2, <4>3, <4>4
        <3>. QED
            BY <1>16, <3>1, <3>2
    <2>4. pendingTransferQuantity(h)' = pendingTransferQuantity(h)
        BY <1>5 DEF pendingTransferQuantity, RequestedTransfers
    <2>5. Fits(h)'
        <3>1. Greatest(0, budget) = budget /\ budget = holdings[h].quantity - q - pendingTransferQuantity(h) - remaining
            BY <1>9 DEF Greatest, budget
        <3>2. SumQuantity(after, A) <= budget
            BY <1>14, <3>1
        <3>. HIDE DEF A, Q
        <3>3. publishedQuantity(h)' + pendingTransferQuantity(h)' <= holdings[h].quantity - q
            BY <1>7, <1>8, <1>9, <2>2, <2>3, <2>4, <3>1, <3>2
        <3>. QED
            BY <1>7, <1>18, <3>3 DEF Fits
    <2>6. Advertised(h)'
        <3>1. ASSUME NEW x \in Q
              PROVE  /\ listings'[x].seller = holdings'[h].holder
                     /\ \A y \in PendingOn(offers', x) : offers'[y].quantity <= listings'[x].quantity
            <4>1. CASE x = k /\ k \notin DOMAIN listings
                <5>1. listings'[x].seller = holdings'[h].holder
                    BY <1>6, <1>11, <1>16, <1>18, <4>1 DEF Published
                <5>2. PendingOn(offers', x) = {}
                    BY <1>12, <4>1 DEF PendingOn, ForeignKeys
                <5>. QED
                    BY <5>1, <5>2
            <4>2. CASE x \in Published(after, h) /\ x \in Published(listings, h) /\ listings'[x] = after[x]
                       /\ after[x].seller = listings[x].seller
                BY <1>15, <1>18, <4>2 DEF StockInv, Sound, Advertised
            <4>. QED
                BY <1>19, <4>1, <4>2
        <3>. QED
            BY <3>1 DEF Advertised
    <2>7. Requested(h)'
        BY <1>5, <1>18 DEF StockInv, Sound, Requested, RequestedTransfers
    <2>. QED
        BY <2>5, <2>6, <2>7 DEF Sound
<1>. QED
    BY <1>17, <1>20, <1>21, <1>22 DEF StockInv

-----------------------------------------------------------------------------
(* The theorems.                                                           *)

\* Every inventory transaction keeps promises within the stock they are made of.
LEMMA StepStock == IInv /\ IInv' /\ StockInv /\ [Next]_vars => StockInv'
<1>. SUFFICES ASSUME IInv, IInv', StockInv, [Next]_vars PROVE StockInv'
    OBVIOUS
<1>1. CASE AllocateStock
    BY <1>1, AllocateSound
<1>2. CASE PublishStock
    BY <1>2, PublishSound
<1>3. CASE DecideOffers
    BY <1>3, AcceptSound, OfferSound DEF DecideOffers
<1>4. CASE MoveStock
    BY <1>4, MoveSound
<1>5. CASE CloseContracts
    BY <1>5, CloseSound
<1>6. CASE RecallStock
    BY <1>6, RecallSound
<1>7. CASE UNCHANGED vars
    <2>1. UNCHANGED <<holdings, listings, offers, transfers>>
        BY <1>7 DEF vars
    <2>2. \A o \in DOMAIN offers : offers[o].quantity > 0
        BY DEF StockInv, PositiveQuantities
    <2>. QED
        BY <2>1, <2>2, QuietSound
<1>. QED
    BY <1>1, <1>2, <1>3, <1>4, <1>5, <1>6, <1>7 DEF Next

\* Nothing is promised before the first holding.
LEMMA InitStock == Init => StockInv
BY DEF Init, EmptyTable, StockInv, PositiveQuantities

\* In every reachable state each holding covers what is promised from it.
THEOREM SpecStockInv == Spec => []StockInv
BY InitStock, StepStock, SpecIInv, PTL DEF Spec

(***************************************************************************)
(* HOLDING_OVERRESERVED and INACTIVE_HOLDING_HAS_RESERVATION never arise:  *)
(* what is published from a holding plus what is promised to custody       *)
(* transfers fits in it, and a committed or transferred holding promises   *)
(* nothing, whatever reconcileHoldingListings had to cut on the way.       *)
(***************************************************************************)
THEOREM ReservationsAlwaysFit == Spec => []ReservationsFit
<1>1. StockInv => ReservationsFit
    BY DEF StockInv, Sound, Fits, ReservationsFit
<1>. QED
    BY <1>1, SpecStockInv, PTL

(***************************************************************************)
(* Whoever sees a publication can rely on it: its undecided offers are for *)
(* no more than it advertises, its stock is the seller's, and a requested  *)
(* transfer is of its holder's stock to someone else.                      *)
(***************************************************************************)
THEOREM PromisesAlwaysKept == Spec => []PromisesKept
<1>1. StockInv => PromisesKept
    BY DEF StockInv, Sound, Advertised, Requested, PromisesKept
<1>. QED
    BY <1>1, SpecStockInv, PTL

-----------------------------------------------------------------------------
(* Free stock, row by row.                                                 *)

\* The free stock of org, and what row x has of it.
Free(b, org) == SumQuantity(holdings, FreeHoldings(b, org))
Share(x, b, org) == IF x \in FreeHoldings(b, org) THEN holdings[x].quantity ELSE 0

\* Finitely many holdings are free.
LEMMA FreeRows ==
    ASSUME TypeOK, TypeOK', NEW b, NEW org
    PROVE  /\ Rows(holdings, FreeHoldings(b, org)) /\ Free(b, org) \in Nat
           /\ Rows(holdings', FreeHoldings(b, org)')
<1>1. FreeHoldings(b, org) \in SUBSET DOMAIN holdings
    BY DEF FreeHoldings
<1>2. Rows(holdings, FreeHoldings(b, org))
    BY <1>1, FiniteTable, InventoryAssumption DEF TypeOK, Rows, IsTable, HoldingRow
<1>3. FreeHoldings(b, org)' \in SUBSET DOMAIN holdings'
    BY DEF FreeHoldings
<1>4. Rows(holdings', FreeHoldings(b, org)')
    BY <1>3, FiniteTable, InventoryAssumption DEF TypeOK, Rows, IsTable, HoldingRow
<1>. QED
    BY <1>2, <1>4, SumIsNat DEF Rows, Free

\* SUM over the rows of A that are x or y.
LEMMA SumAmong ==
    ASSUME NEW table, NEW A, NEW x, NEW y, x # y, \A i \in A : table[i].quantity \in Grams
    PROVE  SumQuantity(table, A \cap {x, y})
             = (IF x \in A THEN table[x].quantity ELSE 0) + (IF y \in A THEN table[y].quantity ELSE 0)
<1>. DEFINE vx == IF x \in A THEN table[x].quantity ELSE 0
            vy == IF y \in A THEN table[y].quantity ELSE 0
<1>. SUFFICES SumQuantity(table, A \cap {x, y}) = vx + vy
    OBVIOUS
<1>1. vx \in Nat /\ vy \in Nat
    BY MaxGramsAssumption DEF Grams
<1>2. CASE x \in A /\ y \in A
    <2>1. A \cap {x, y} = {x, y} /\ vx = table[x].quantity /\ vy = table[y].quantity
        BY <1>2
    <2>. HIDE DEF vx, vy
    <2>. QED
        BY <1>2, <2>1, SumOfTwo
<1>3. CASE x \in A /\ y \notin A
    <2>1. A \cap {x, y} = {x} /\ vx = table[x].quantity /\ vy = 0
        BY <1>3
    <2>2. SumQuantity(table, {x}) = table[x].quantity
        BY <1>3, SumOfOne
    <2>3. SumQuantity(table, A \cap {x, y}) = SumQuantity(table, {x})
        BY <2>1, Zenon
    <2>. HIDE DEF vx, vy
    <2>. QED
        BY <1>1, <2>1, <2>2, <2>3
<1>4. CASE x \notin A /\ y \in A
    <2>1. A \cap {x, y} = {y} /\ vx = 0 /\ vy = table[y].quantity
        BY <1>4
    <2>2. SumQuantity(table, {y}) = table[y].quantity
        BY <1>4, SumOfOne
    <2>3. SumQuantity(table, A \cap {x, y}) = SumQuantity(table, {y})
        BY <2>1, Zenon
    <2>. HIDE DEF vx, vy
    <2>. QED
        BY <1>1, <2>1, <2>2, <2>3
<1>5. CASE x \notin A /\ y \notin A
    <2>1. A \cap {x, y} = {} /\ vx = 0 /\ vy = 0
        BY <1>5
    <2>2. SumQuantity(table, A \cap {x, y}) = SumQuantity(table, {})
        BY <2>1, Zenon
    <2>. HIDE DEF vx, vy
    <2>. QED
        BY <2>1, <2>2, SumOfNone
<1>. QED
    BY <1>2, <1>3, <1>4, <1>5

\* Only the rows of S change.
OnlyChanges(S) ==
    \A x \in DOMAIN holdings \cup DOMAIN holdings' :
        x \notin S => x \in DOMAIN holdings /\ x \in DOMAIN holdings' /\ holdings'[x] = holdings[x]

\* Rows that do not change keep their part of the sum.
LEMMA FreeApart ==
    ASSUME TypeOK, TypeOK', NEW S, IsFiniteSet(S), OnlyChanges(S), NEW b, NEW org
    PROVE  \E rest \in Nat :
              /\ Free(b, org) = rest + SumQuantity(holdings, FreeHoldings(b, org) \cap S)
              /\ Free(b, org)' = rest + SumQuantity(holdings', FreeHoldings(b, org)' \cap S)
<1>. DEFINE A == FreeHoldings(b, org)
            B == FreeHoldings(b, org)'
<1>1. Rows(holdings, A) /\ Rows(holdings', B)
    BY FreeRows
<1>2. A \ S = B \ S /\ \A x \in A \ S : holdings'[x] = holdings[x]
    BY DEF FreeHoldings, OnlyChanges
<1>3. SumQuantity(holdings', A \ S) = SumQuantity(holdings, A \ S)
    BY <1>2, SumSame
<1>. HIDE DEF A, B
<1>4. /\ IsFiniteSet(A \ S) /\ IsFiniteSet(A \cap S) /\ IsFiniteSet(B \ S) /\ IsFiniteSet(B \cap S)
      /\ A = (A \ S) \cup (A \cap S) /\ (A \ S) \cap (A \cap S) = {}
      /\ B = (B \ S) \cup (B \cap S) /\ (B \ S) \cap (B \cap S) = {}
    BY <1>1, FS_Subset DEF Rows
<1>5. /\ SumQuantity(holdings, A) = SumQuantity(holdings, A \ S) + SumQuantity(holdings, A \cap S)
      /\ SumQuantity(holdings', B) = SumQuantity(holdings', B \ S) + SumQuantity(holdings', B \cap S)
    BY <1>4, SumOfBoth
<1>6. SumQuantity(holdings, A \ S) \in Nat
    BY <1>4, SumIsNat
<1>. QED
    BY <1>2, <1>3, <1>5, <1>6 DEF Free, A, B

\* The free stock after a step that changes rows x and y only.
LEMMA FreeChange ==
    ASSUME TypeOK, TypeOK', NEW x, NEW y, x # y, OnlyChanges({x, y}), NEW b, NEW org
    PROVE  /\ Free(b, org) \in Nat /\ Share(x, b, org) \in Nat /\ Share(y, b, org) \in Nat
           /\ Share(x, b, org) <= Free(b, org)
           /\ Free(b, org)' = Free(b, org) - Share(x, b, org) - Share(y, b, org)
                                + Share(x, b, org)' + Share(y, b, org)'
<1>. USE MaxGramsAssumption
<1>1. PICK rest \in Nat :
              /\ Free(b, org) = rest + SumQuantity(holdings, FreeHoldings(b, org) \cap {x, y})
              /\ Free(b, org)' = rest + SumQuantity(holdings', FreeHoldings(b, org)' \cap {x, y})
    BY FreeApart, FewRows
<1>2. /\ \A i \in FreeHoldings(b, org) : holdings[i].quantity \in Grams
      /\ \A i \in FreeHoldings(b, org)' : holdings'[i].quantity \in Grams
    BY DEF FreeHoldings, TypeOK, IsTable, HoldingRow
<1>3. /\ SumQuantity(holdings, FreeHoldings(b, org) \cap {x, y}) = Share(x, b, org) + Share(y, b, org)
      /\ SumQuantity(holdings', FreeHoldings(b, org)' \cap {x, y}) = Share(x, b, org)' + Share(y, b, org)'
    <2>1. SumQuantity(holdings, FreeHoldings(b, org) \cap {x, y}) = Share(x, b, org) + Share(y, b, org)
        BY <1>2, SumAmong DEF Share
    <2>2. SumQuantity(holdings', FreeHoldings(b, org)' \cap {x, y}) = Share(x, b, org)' + Share(y, b, org)'
        BY <1>2, SumAmong DEF Share
    <2>. QED
        BY <2>1, <2>2
<1>4. Share(x, b, org) \in Nat /\ Share(y, b, org) \in Nat /\ Share(x, b, org)' \in Nat /\ Share(y, b, org)' \in Nat
    BY <1>2 DEF Share, Grams
<1>. QED
    BY <1>1, <1>3, <1>4

\* The free stock after a step that changes row x only.
LEMMA FreeChangeOne ==
    ASSUME TypeOK, TypeOK', NEW x, OnlyChanges({x}), NEW b, NEW org
    PROVE  /\ Free(b, org) \in Nat /\ Share(x, b, org) \in Nat /\ Share(x, b, org) <= Free(b, org)
           /\ Free(b, org)' = Free(b, org) - Share(x, b, org) + Share(x, b, org)'
<1>1. PICK y : x # y
    <2>1. {} # {{}}
        OBVIOUS
    <2>2. x # {} \/ x # {{}}
        BY <2>1
    <2>3. CASE x # {}
        BY <2>3, Zenon
    <2>4. CASE x # {{}}
        BY <2>4, Zenon
    <2>. QED
        BY <2>2, <2>3, <2>4
<1>2. OnlyChanges({x, y})
    BY DEF OnlyChanges
<1>3. Share(y, b, org)' = Share(y, b, org)
    BY <1>1 DEF OnlyChanges, Share, FreeHoldings
<1>4. Share(x, b, org)' \in Nat /\ Share(y, b, org)' \in Nat
    BY MaxGramsAssumption DEF Share, FreeHoldings, TypeOK, IsTable, HoldingRow, Grams
<1>5. /\ Free(b, org) \in Nat /\ Share(x, b, org) \in Nat /\ Share(y, b, org) \in Nat
      /\ Share(x, b, org) <= Free(b, org)
      /\ Free(b, org)' = Free(b, org) - Share(x, b, org) - Share(y, b, org)
                           + Share(x, b, org)' + Share(y, b, org)'
    BY <1>1, <1>2, FreeChange
<1>. QED
    BY <1>3, <1>4, <1>5

\* The open contracts' agreements stand while the contracts and the committed rows do.
LEMMA AgreedKept ==
    ASSUME IInv, contracts' = contracts,
           \A h \in DOMAIN holdings : holdings[h].status = "committed" => holdings'[h] = holdings[h]
    PROVE  Agreed' = Agreed
<1>1. OpenContracts' = OpenContracts
    BY DEF OpenContracts
<1>2. \A o \in OpenContracts : holdings'[contracts[o].holding] = holdings[contracts[o].holding]
    BY DEF OpenContracts, IInv, ForeignKeys, CommittedForOneContract, SliceIntact
<1>. QED
    BY <1>1, <1>2 DEF Agreed

\* What FreeStock is after free stock has come to org ...
LEMMA StockAdded ==
    ASSUME NEW b \in Batches, NEW org \in Orgs, NEW q,
           \A c \in Batches, r \in Orgs : c # b \/ r # org => Free(c, r)' = Free(c, r),
           Free(b, org)' = Free(b, org) + q
    PROVE  FreeStock' = [FreeStock EXCEPT ![b][org] = @ + q]
BY DEF FreeStock, Free

\* ... and after it has left.
LEMMA StockTaken ==
    ASSUME NEW b \in Batches, NEW org \in Orgs, NEW q,
           \A c \in Batches, r \in Orgs : c # b \/ r # org => Free(c, r)' = Free(c, r),
           Free(b, org)' = Free(b, org) - q
    PROVE  FreeStock' = [FreeStock EXCEPT ![b][org] = @ - q]
BY DEF FreeStock, Free

\* What FreeStock is after free stock has gone from one organization to another.
LEMMA StockMoves ==
    ASSUME NEW b \in Batches, NEW from \in Orgs, NEW to \in Orgs, from # to, NEW q,
           \A c \in Batches, r \in Orgs : c # b \/ r \notin {from, to} => Free(c, r)' = Free(c, r),
           Free(b, from)' = Free(b, from) - q, Free(b, to)' = Free(b, to) + q
    PROVE  FreeStock' = [FreeStock EXCEPT ![b][from] = @ - q, ![b][to] = @ + q]
BY DEF FreeStock, Free

-----------------------------------------------------------------------------
(* Each transaction is a step of the ledger.                               *)

\* A transaction that leaves batches, holdings and contracts alone moves no stock.
LEMMA NothingMoves ==
    ASSUME UNCHANGED <<source, holdings, contracts>>
    PROVE  UNCHANGED Ledger!ledger
BY DEF Ledger!ledger, FreeStock, FreeHoldings, Agreed, OpenContracts

\* Registration and allocation give the batch holder free stock.
LEMMA AllocateLedger == IInv /\ IInv' /\ AllocateStock => Ledger!LedgerNext
<1>. SUFFICES ASSUME IInv, IInv', NEW b \in Batches, NEW q \in 1..MaxGrams, NEW h \in HoldingIds,
                     \/ \E org \in Orgs : registerBatch(b, org, q, h)
                     \/ createHolding(b, q, h)
                     \/ \E l \in ListingIds : publishBatchFromSource(b, q, h, l)
              PROVE  Ledger!LedgerNext
    BY DEF AllocateStock
<1>. TypeOK /\ TypeOK'
    BY DEF IInv
<1>1. PICK org \in Orgs :
         /\ holdings' = Insert(holdings, h, NewHolding(b, org, q, "available"))
         /\ h \notin DOMAIN holdings /\ contracts' = contracts
         /\ \/ registerBatch(b, org, q, h)
            \/ source' = source /\ source[b].quantity > 0
    BY DEF registerBatch, createHolding, publishBatchFromSource, TypeOK, SourceRow
<1>2. /\ DOMAIN holdings' = DOMAIN holdings \cup {h}
      /\ \A x \in DOMAIN holdings : holdings'[x] = holdings[x] /\ x # h
      /\ holdings'[h].batch = b /\ holdings'[h].holder = org
      /\ holdings'[h].quantity = q /\ holdings'[h].status = "available"
    BY <1>1 DEF Insert, NewHolding
<1>3. OnlyChanges({h})
    BY <1>2 DEF OnlyChanges
<1>4. ASSUME NEW c \in Batches, NEW r \in Orgs
      PROVE  Free(c, r)' = IF c = b /\ r = org THEN Free(c, r) + q ELSE Free(c, r)
    <2>1. /\ Free(c, r) \in Nat
          /\ Free(c, r)' = Free(c, r) - Share(h, c, r) + Share(h, c, r)'
        BY <1>3, FreeChangeOne
    <2>2. Share(h, c, r) = 0 /\ Share(h, c, r)' = IF c = b /\ r = org THEN q ELSE 0
        BY <1>1, <1>2 DEF Share, FreeHoldings
    <2>. QED
        BY <2>1, <2>2
<1>5. FreeStock' = [FreeStock EXCEPT ![b][org] = @ + q]
    BY <1>4, StockAdded
<1>6. Agreed' = Agreed
    BY <1>1, <1>2, AgreedKept
<1>7. CASE registerBatch(b, org, q, h)
    <2>1. /\ source[b].quantity = 0
          /\ source' = [source EXCEPT ![b] = [holder |-> org, quantity |-> q]]
        BY <1>7 DEF registerBatch
    <2>2. [x \in Batches |-> source'[x].quantity] = [[x \in Batches |-> source[x].quantity] EXCEPT ![b] = q]
        BY <2>1 DEF TypeOK
    <2>3. Ledger!Register(b, org, q)
        BY <1>5, <1>6, <2>1, <2>2 DEF Ledger!Register, Ledger!Add
    <2>. QED
        BY <2>3 DEF Ledger!LedgerNext
<1>8. CASE source' = source /\ source[b].quantity > 0
    <2>1. Ledger!Allocate(b, org, q)
        BY <1>5, <1>6, <1>8 DEF Ledger!Allocate, Ledger!Add
    <2>. QED
        BY <2>1 DEF Ledger!LedgerNext
<1>. QED
    BY <1>1, <1>7, <1>8

\* The agreements when one more contract is open, and the others stand ...
LEMMA AgreedMore ==
    ASSUME IInv, NEW o, o \notin DOMAIN contracts, NEW contract, contract.status = "open",
           contracts' = Insert(contracts, o, contract),
           \A h \in DOMAIN holdings : holdings[h].status = "committed" => holdings'[h] = holdings[h],
           NEW agreement,
           agreement = [batch |-> holdings'[contract.holding].batch,
                        seller |-> holdings'[contract.holding].holder,
                        buyer |-> contract.buyer,
                        quantity |-> holdings'[contract.holding].quantity]
    PROVE  Agreed' = [x \in DOMAIN Agreed \cup {o} |-> IF x = o THEN agreement ELSE Agreed[x]]
<1>1. /\ contracts'[o] = contract /\ DOMAIN contracts' = DOMAIN contracts \cup {o}
      /\ \A x \in DOMAIN contracts : contracts'[x] = contracts[x] /\ x # o
    BY DEF Insert
<1>2. OpenContracts' = OpenContracts \cup {o} /\ o \notin OpenContracts
    BY <1>1 DEF OpenContracts
<1>3. \A x \in OpenContracts : /\ contracts'[x] = contracts[x] /\ x # o
                               /\ holdings'[contracts[x].holding] = holdings[contracts[x].holding]
    BY <1>1 DEF OpenContracts, IInv, ForeignKeys, CommittedForOneContract, SliceIntact
<1>. QED
    BY <1>1, <1>2, <1>3 DEF Agreed

\* ... and when one is closed, and the others stand.
LEMMA AgreedLess ==
    ASSUME IInv, NEW o \in OpenContracts,
           \A x \in DOMAIN contracts \ {o} : contracts'[x] = contracts[x],
           DOMAIN contracts' = DOMAIN contracts, contracts'[o].status # "open",
           \A h \in DOMAIN holdings \ {contracts[o].holding} : holdings'[h] = holdings[h]
    PROVE  Agreed' = [x \in DOMAIN Agreed \ {o} |-> Agreed[x]]
<1>1. OpenContracts' = OpenContracts \ {o}
    BY DEF OpenContracts
<1>2. \A x \in OpenContracts \ {o} :
          /\ contracts'[x] = contracts[x]
          /\ holdings'[contracts[x].holding] = holdings[contracts[x].holding]
    BY DEF OpenContracts, IInv, ForeignKeys, CommittedForOneContract
<1>. QED
    BY <1>1, <1>2 DEF Agreed

\* Committing a slice of a holding takes exactly its quantity out of the holder's free stock.
LEMMA CommitFree ==
    ASSUME TypeOK, TypeOK', NEW h \in DOMAIN holdings, holdings[h].status = "available",
           NEW c, NEW q \in Grams, q <= holdings[h].quantity, CommitHolding(h, c, q),
           NEW b, b = holdings[h].batch, NEW seller, seller = holdings[h].holder
    PROVE  /\ \A x \in DOMAIN holdings : holdings[x].status = "committed" => holdings'[x] = holdings[x]
           /\ holdings'[c].batch = b /\ holdings'[c].holder = seller /\ holdings'[c].quantity = q
           /\ \A d \in Batches, r \in Orgs :
                 /\ Free(d, r)' = IF d = b /\ r = seller THEN Free(d, r) - q ELSE Free(d, r)
                 /\ d = b /\ r = seller => q <= Free(d, r)
<1>1. q \in Int /\ holdings[h].quantity \in Int
    BY MaxGramsAssumption DEF TypeOK, IsTable, HoldingRow, Grams
<1>0. \/ /\ q < holdings[h].quantity /\ c \notin DOMAIN holdings
         /\ DOMAIN holdings' = DOMAIN holdings \cup {c}
         /\ \A x \in DOMAIN holdings \ {h} : holdings'[x] = holdings[x]
         /\ SameStock(h, h) /\ SameStock(c, h)
         /\ holdings'[h].status = holdings[h].status
         /\ holdings'[h].quantity = holdings[h].quantity - q
         /\ holdings'[c].status = "committed"
         /\ holdings'[c].quantity = q
      \/ /\ q = holdings[h].quantity /\ c = h
         /\ DOMAIN holdings' = DOMAIN holdings
         /\ \A x \in DOMAIN holdings \ {h} : holdings'[x] = holdings[x]
         /\ SameStock(h, h)
         /\ holdings'[h].status = "committed"
         /\ holdings'[h].quantity = q
    BY CommitRows
<1>2. CASE q < holdings[h].quantity
    <2>1. /\ c \notin DOMAIN holdings
          /\ DOMAIN holdings' = DOMAIN holdings \cup {c}
          /\ \A x \in DOMAIN holdings \ {h} : holdings'[x] = holdings[x]
          /\ SameStock(h, h) /\ SameStock(c, h)
          /\ holdings'[h].status = holdings[h].status
          /\ holdings'[h].quantity = holdings[h].quantity - q
          /\ holdings'[c].status = "committed"
          /\ holdings'[c].quantity = q
        BY <1>0, <1>1, <1>2
    <2>2. OnlyChanges({h, c}) /\ h # c
        BY <2>1 DEF OnlyChanges
    <2>3. ASSUME NEW d \in Batches, NEW r \in Orgs
          PROVE  /\ Free(d, r)' = IF d = b /\ r = seller THEN Free(d, r) - q ELSE Free(d, r)
                 /\ d = b /\ r = seller => q <= Free(d, r)
        <3>1. /\ Free(d, r) \in Nat /\ Share(h, d, r) <= Free(d, r)
              /\ Free(d, r)' = Free(d, r) - Share(h, d, r) - Share(c, d, r)
                                 + Share(h, d, r)' + Share(c, d, r)'
            BY <2>2, FreeChange
        <3>2. Share(c, d, r) = 0 /\ Share(c, d, r)' = 0
            BY <2>1 DEF Share, FreeHoldings
        <3>3. /\ Share(h, d, r) = IF d = b /\ r = seller THEN holdings[h].quantity ELSE 0
              /\ Share(h, d, r)' = IF d = b /\ r = seller THEN holdings[h].quantity - q ELSE 0
            BY <2>1 DEF Share, FreeHoldings, SameStock
        <3>. QED
            BY <1>1, <3>1, <3>2, <3>3
    <2>. QED
        BY <2>1, <2>3 DEF SameStock
<1>3. CASE ~(q < holdings[h].quantity)
    <2>1. /\ c = h /\ q = holdings[h].quantity
          /\ DOMAIN holdings' = DOMAIN holdings
          /\ \A x \in DOMAIN holdings \ {h} : holdings'[x] = holdings[x]
          /\ SameStock(h, h)
          /\ holdings'[h].status = "committed" /\ holdings'[h].quantity = q
        BY <1>0, <1>1, <1>3
    <2>2. OnlyChanges({h})
        BY <2>1 DEF OnlyChanges
    <2>3. ASSUME NEW d \in Batches, NEW r \in Orgs
          PROVE  /\ Free(d, r)' = IF d = b /\ r = seller THEN Free(d, r) - q ELSE Free(d, r)
                 /\ d = b /\ r = seller => q <= Free(d, r)
        <3>1. /\ Free(d, r) \in Nat /\ Share(h, d, r) <= Free(d, r)
              /\ Free(d, r)' = Free(d, r) - Share(h, d, r) + Share(h, d, r)'
            BY <2>2, FreeChangeOne
        <3>2. /\ Share(h, d, r) = IF d = b /\ r = seller THEN q ELSE 0
              /\ Share(h, d, r)' = 0
            BY <2>1 DEF Share, FreeHoldings
        <3>. QED
            BY <1>1, <3>1, <3>2
    <2>. QED
        BY <2>1, <2>3 DEF SameStock
<1>. QED
    BY <1>2, <1>3

\* Acceptance takes exactly the offered quantity out of the seller's free stock.
LEMMA AcceptLedger ==
    ASSUME IInv, IInv', StockInv, NEW o \in OfferIds, NEW c \in HoldingIds, NEW k \in ListingIds,
           acceptTradeOffer(o, c, k)
    PROVE  Ledger!LedgerNext
<1>. TypeOK /\ TypeOK' /\ ForeignKeys
    BY DEF IInv
<1>1. Acceptable(o) /\ o \in DOMAIN offers /\ o \notin DOMAIN contracts
    BY DEF acceptTradeOffer, Acceptable
<1>2. PICK l \in DOMAIN listings : l = offers[o].listing
    BY <1>1 DEF ForeignKeys
<1>3. PICK h \in DOMAIN holdings : h = listings[l].holding
    BY <1>2 DEF ForeignKeys
<1>4. PICK q \in Grams, buyer \in Orgs : q = offers[o].quantity /\ buyer = offers[o].buyer
    BY <1>1 DEF TypeOK, IsTable, OfferRow
<1>5. PICK b \in Batches, seller \in Orgs : b = holdings[h].batch /\ seller = holdings[h].holder
    BY DEF TypeOK, IsTable, HoldingRow
<1>6. PICK contract : contract = [listing |-> l, holding |-> c, seller |-> listings[l].seller,
                                  buyer |-> buyer, quantity |-> q, status |-> "open"]
    OBVIOUS
<1>7. /\ holdings[h].status = "available" /\ buyer # seller
      /\ q <= holdings[h].quantity - pendingTransferQuantity(h)
    BY <1>1, <1>2, <1>3, <1>4, <1>5 DEF Acceptable, Tradable
<1>8. CommitHolding(h, c, q) /\ source' = source /\ contracts' = Insert(contracts, o, contract)
    BY <1>2, <1>3, <1>4, <1>6 DEF acceptTradeOffer
<1>9. q > 0
    BY <1>1, <1>4 DEF StockInv, PositiveQuantities
<1>10. q <= holdings[h].quantity
    <2>1. pendingTransferQuantity(h) \in Nat /\ q \in Int /\ holdings[h].quantity \in Int
        BY RequestRows, MaxGramsAssumption DEF TypeOK, IsTable, HoldingRow, Grams
    <2>. QED
        BY <1>7, <2>1
<1>11. /\ \A x \in DOMAIN holdings : holdings[x].status = "committed" => holdings'[x] = holdings[x]
       /\ holdings'[c].batch = b /\ holdings'[c].holder = seller /\ holdings'[c].quantity = q
       /\ \A d \in Batches, r \in Orgs :
             /\ Free(d, r)' = IF d = b /\ r = seller THEN Free(d, r) - q ELSE Free(d, r)
             /\ d = b /\ r = seller => q <= Free(d, r)
    BY <1>5, <1>7, <1>8, <1>10, CommitFree
<1>12. FreeStock' = [FreeStock EXCEPT ![b][seller] = @ - q]
    BY <1>11, StockTaken
<1>13. q <= FreeStock[b][seller]
    BY <1>11 DEF FreeStock, Free
<1>14. contract.status = "open" /\ contract.holding = c /\ contract.buyer = buyer
    BY <1>6
<1>15. Agreed' = [x \in DOMAIN Agreed \cup {o} |->
                     IF x = o THEN [batch |-> b, seller |-> seller, buyer |-> buyer, quantity |-> q]
                     ELSE Agreed[x]]
    <2>1. PICK agreement :
             agreement = [batch |-> b, seller |-> seller, buyer |-> buyer, quantity |-> q]
        OBVIOUS
    <2>2. agreement = [batch |-> holdings'[contract.holding].batch,
                       seller |-> holdings'[contract.holding].holder,
                       buyer |-> contract.buyer,
                       quantity |-> holdings'[contract.holding].quantity]
        BY <1>11, <1>14, <2>1
    <2>3. Agreed' = [x \in DOMAIN Agreed \cup {o} |-> IF x = o THEN agreement ELSE Agreed[x]]
        BY <1>1, <1>8, <1>11, <1>14, <2>2, AgreedMore
    <2>. QED
        BY <2>1, <2>3
<1>16. o \notin DOMAIN Agreed
    BY <1>1 DEF Agreed, OpenContracts
<1>17. Ledger!Agree(o, b, seller, buyer, q)
    BY <1>7, <1>8, <1>12, <1>13, <1>15, <1>16 DEF Ledger!Agree
<1>18. q \in 1..MaxGrams
    BY <1>9, MaxGramsAssumption DEF Grams
<1>. QED
    BY <1>17, <1>18 DEF Ledger!LedgerNext

\* A custody transfer moves its quantity from the holder's free stock to the recipient's.
LEMMA TransferLedger ==
    ASSUME IInv, IInv', StockInv, NEW t \in TransferIds, NEW n \in HoldingIds, acceptTransfer(t, n)
    PROVE  Ledger!LedgerNext
<1>. TypeOK /\ TypeOK' /\ ForeignKeys
    BY DEF IInv
<1>1. /\ t \in DOMAIN transfers /\ transfers[t].status = "requested" /\ n \notin DOMAIN holdings
      /\ transfers[t] \in TransferRow
    BY DEF acceptTransfer, TypeOK, IsTable
<1>2. PICK h \in DOMAIN holdings : h = transfers[t].holding
    BY <1>1 DEF ForeignKeys
<1>3. PICK q \in Grams, to \in Orgs : q = transfers[t].quantity /\ to = transfers[t].to
    BY <1>1 DEF TransferRow
<1>4. PICK b \in Batches, from \in Orgs : b = holdings[h].batch /\ from = holdings[h].holder
    BY DEF TypeOK, IsTable, HoldingRow
<1>5. /\ holdings[h].status = "available" /\ from # to /\ q > 0
      /\ holdings' = Insert(TakeFrom(h, q), n, NewHolding(holdings[h].batch, to, q, "available"))
      /\ source' = source /\ contracts' = contracts
    BY <1>2, <1>3, <1>4 DEF acceptTransfer, Tradable
<1>6. PICK reserved : /\ reserved = SumQuantity(transfers, RequestedTransfers(h) \ {t})
                      /\ q <= holdings[h].quantity - reserved
    BY <1>2, <1>3 DEF acceptTransfer
<1>7. q \in Int /\ holdings[h].quantity \in Int /\ q <= holdings[h].quantity
    <2>1. IsFiniteSet(RequestedTransfers(h) \ {t})
        BY RequestRows, FS_RemoveElement DEF Rows
    <2>2. reserved \in Nat
        BY <1>6, <2>1, SumIsNat
    <2>3. q \in Int /\ holdings[h].quantity \in Int
        BY MaxGramsAssumption DEF TypeOK, IsTable, HoldingRow, Grams
    <2>. QED
        BY <1>6, <2>2, <2>3
<1>8. /\ DOMAIN holdings' = DOMAIN holdings \cup {n}
      /\ \A x \in DOMAIN holdings \ {h} : holdings'[x] = holdings[x]
      /\ holdings'[n].batch = b /\ holdings'[n].holder = to
      /\ holdings'[n].quantity = q /\ holdings'[n].status = "available"
      /\ holdings'[h].batch = b /\ holdings'[h].holder = from
      /\ \/ q = holdings[h].quantity /\ holdings'[h].status = "transferred"
         \/ holdings'[h].status = "available" /\ holdings'[h].quantity = holdings[h].quantity - q
    BY <1>1, <1>4, <1>5, TakenRows DEF SameStock
<1>9. OnlyChanges({h, n}) /\ h # n
    BY <1>1, <1>8 DEF OnlyChanges
<1>10. ASSUME NEW c \in Batches, NEW r \in Orgs
       PROVE  /\ Free(c, r)' = IF c = b /\ r = from THEN Free(c, r) - q
                               ELSE IF c = b /\ r = to THEN Free(c, r) + q ELSE Free(c, r)
              /\ c = b /\ r = from => q <= Free(c, r)
    <2>1. /\ Free(c, r) \in Nat /\ Share(h, c, r) <= Free(c, r)
          /\ Free(c, r)' = Free(c, r) - Share(h, c, r) - Share(n, c, r)
                             + Share(h, c, r)' + Share(n, c, r)'
        BY <1>9, FreeChange
    <2>2. /\ Share(n, c, r) = 0
          /\ Share(n, c, r)' = IF c = b /\ r = to THEN q ELSE 0
        BY <1>1, <1>8 DEF Share, FreeHoldings
    <2>3. /\ Share(h, c, r) = IF c = b /\ r = from THEN holdings[h].quantity ELSE 0
          /\ Share(h, c, r)' = IF c = b /\ r = from THEN holdings[h].quantity - q ELSE 0
        BY <1>4, <1>5, <1>7, <1>8 DEF Share, FreeHoldings
    <2>. QED
        BY <1>5, <1>7, <2>1, <2>2, <2>3
<1>11. FreeStock' = [FreeStock EXCEPT ![b][from] = @ - q, ![b][to] = @ + q]
    BY <1>5, <1>10, StockMoves
<1>12. q <= FreeStock[b][from]
    BY <1>10 DEF FreeStock, Free
<1>13. Agreed' = Agreed
    BY <1>5, <1>8, AgreedKept
<1>14. Ledger!Move(b, from, to, q)
    BY <1>5, <1>11, <1>12, <1>13 DEF Ledger!Move
<1>15. q \in 1..MaxGrams
    BY <1>5, MaxGramsAssumption DEF Grams
<1>. QED
    BY <1>14, <1>15 DEF Ledger!LedgerNext

\* A split moves nothing: the parts are the holder's and add up to what was split.
LEMMA SplitLedger ==
    ASSUME IInv, IInv', NEW h \in HoldingIds, NEW m \in HoldingIds, NEW n \in HoldingIds,
           NEW q \in 1..MaxGrams, splitHolding(h, q, m, n)
    PROVE  UNCHANGED Ledger!ledger
<1>. TypeOK /\ TypeOK'
    BY DEF IInv
<1>1. /\ h \in DOMAIN holdings /\ m \notin DOMAIN holdings /\ n \notin DOMAIN holdings /\ m # n
      /\ DOMAIN holdings' = DOMAIN holdings \cup {m, n}
      /\ \A x \in DOMAIN holdings \ {h} : holdings'[x] = holdings[x]
      /\ SameStock(h, h) /\ SameStock(m, h) /\ SameStock(n, h)
      /\ holdings'[h].status = "transferred"
      /\ holdings'[m].status = "available" /\ holdings'[m].quantity = q
      /\ holdings'[n].status = "available" /\ holdings'[n].quantity = holdings[h].quantity - q
    BY SplitRows
<1>2. holdings[h].status = "available" /\ source' = source /\ contracts' = contracts
    BY DEF splitHolding, Tradable
<1>3. OnlyChanges({h, m, n}) /\ IsFiniteSet({h, m, n})
    BY <1>1, FewRows DEF OnlyChanges
<1>4. ASSUME NEW c \in Batches, NEW r \in Orgs PROVE Free(c, r)' = Free(c, r)
    <2>1. PICK rest \in Nat :
             /\ Free(c, r) = rest + SumQuantity(holdings, FreeHoldings(c, r) \cap {h, m, n})
             /\ Free(c, r)' = rest + SumQuantity(holdings', FreeHoldings(c, r)' \cap {h, m, n})
        BY <1>3, FreeApart
    <2>2. CASE c = holdings[h].batch /\ r = holdings[h].holder
        <3>1. FreeHoldings(c, r) \cap {h, m, n} = {h} /\ FreeHoldings(c, r)' \cap {h, m, n} = {m, n}
            BY <1>1, <1>2, <2>2 DEF FreeHoldings, SameStock
        <3>2. SumQuantity(holdings, {h}) = holdings[h].quantity
            BY <1>1, SumOfOne DEF TypeOK, IsTable, HoldingRow
        <3>3. holdings'[m].quantity \in Grams /\ holdings'[n].quantity \in Grams
            BY <1>1 DEF TypeOK, IsTable, HoldingRow
        <3>4. SumQuantity(holdings', {m, n}) = holdings'[m].quantity + holdings'[n].quantity
            BY <1>1, <3>3, SumOfTwo
        <3>5. holdings[h].quantity \in Int
            BY <1>1, MaxGramsAssumption DEF TypeOK, IsTable, HoldingRow, Grams
        <3>6. SumQuantity(holdings', {m, n}) = holdings[h].quantity
            BY <1>1, <3>4, <3>5
        <3>7. Free(c, r) = rest + holdings[h].quantity /\ Free(c, r)' = rest + holdings[h].quantity
            BY <2>1, <3>1, <3>2, <3>6, Zenon
        <3>. QED
            BY <3>7
    <2>3. CASE ~(c = holdings[h].batch /\ r = holdings[h].holder)
        <3>1. FreeHoldings(c, r) \cap {h, m, n} = {} /\ FreeHoldings(c, r)' \cap {h, m, n} = {}
            BY <1>1, <2>3 DEF FreeHoldings, SameStock
        <3>2. Free(c, r) = rest + 0 /\ Free(c, r)' = rest + 0
            BY <2>1, <3>1, SumOfNone, Zenon
        <3>. QED
            BY <3>2
    <2>. QED
        BY <2>2, <2>3
<1>5. FreeStock' = FreeStock
    BY <1>4 DEF FreeStock, Free
<1>6. Agreed' = Agreed
    BY <1>1, <1>2, AgreedKept
<1>. QED
    BY <1>2, <1>5, <1>6 DEF Ledger!ledger

\* Closing a contract gives the whole committed slice, and nothing else, to its new owner.
LEMMA SliceFreed ==
    ASSUME IInv, IInv', NEW o \in DOMAIN contracts, SliceIntact(o),
           NEW h \in DOMAIN holdings, h = contracts[o].holding, NEW owner \in Orgs,
           DOMAIN holdings' = DOMAIN holdings,
           \A x \in DOMAIN holdings \ {h} : holdings'[x] = holdings[x],
           holdings'[h].batch = holdings[h].batch, holdings'[h].quantity = holdings[h].quantity,
           holdings'[h].status = "available", holdings'[h].holder = owner,
           NEW end, end # "open", contracts' = [contracts EXCEPT ![o].status = end]
    PROVE  /\ o \in DOMAIN Agreed
           /\ FreeStock' = [FreeStock EXCEPT ![Agreed[o].batch][owner] = @ + Agreed[o].quantity]
           /\ Agreed' = [x \in DOMAIN Agreed \ {o} |-> Agreed[x]]
<1>. TypeOK /\ TypeOK'
    BY DEF IInv
<1>1. PICK b \in Batches, q \in Grams : b = holdings[h].batch /\ q = holdings[h].quantity
    BY DEF TypeOK, IsTable, HoldingRow
<1>2. o \in OpenContracts /\ holdings[h].status = "committed"
    BY DEF OpenContracts, SliceIntact
<1>3. o \in DOMAIN Agreed /\ Agreed[o].batch = b /\ Agreed[o].quantity = q
    BY <1>1, <1>2 DEF Agreed
<1>4. ASSUME NEW c \in Batches, NEW r \in Orgs
      PROVE  Free(c, r)' = IF c = b /\ r = owner THEN Free(c, r) + q ELSE Free(c, r)
    <2>1. OnlyChanges({h})
        BY DEF OnlyChanges
    <2>2. /\ Free(c, r) \in Nat
          /\ Free(c, r)' = Free(c, r) - Share(h, c, r) + Share(h, c, r)'
        BY <2>1, FreeChangeOne
    <2>3. Share(h, c, r) = 0 /\ Share(h, c, r)' = IF c = b /\ r = owner THEN q ELSE 0
        BY <1>1, <1>2 DEF Share, FreeHoldings
    <2>. QED
        BY <2>2, <2>3
<1>5. FreeStock' = [FreeStock EXCEPT ![b][owner] = @ + q]
    BY <1>4, StockAdded
<1>6. /\ DOMAIN contracts' = DOMAIN contracts /\ contracts'[o].status = end
      /\ \A x \in DOMAIN contracts \ {o} : contracts'[x] = contracts[x]
    <2>1. contracts[o] \in ContractRow /\ contracts'[o] = [contracts[o] EXCEPT !.status = end]
        BY DEF TypeOK, IsTable
    <2>2. contracts'[o].status = end
        BY <2>1 DEF ContractRow
    <2>. QED
        BY <2>2 DEF TypeOK, IsTable
<1>7. Agreed' = [x \in DOMAIN Agreed \ {o} |-> Agreed[x]]
    BY <1>2, <1>6, AgreedLess
<1>. QED
    BY <1>3, <1>5, <1>7

\* Settlement gives the buyer exactly the agreed quantity.
LEMMA SettleLedger ==
    ASSUME IInv, IInv', NEW o \in OfferIds, NEW t \in TransferIds, completeTrade(o, t)
    PROVE  Ledger!LedgerNext
<1>. TypeOK /\ TypeOK' /\ ForeignKeys
    BY DEF IInv
<1>1. o \in DOMAIN contracts /\ SliceIntact(o) /\ source' = source
    BY DEF completeTrade
<1>2. PICK h \in DOMAIN holdings, buyer \in Orgs : h = contracts[o].holding /\ buyer = contracts[o].buyer
    BY <1>1 DEF ForeignKeys, TypeOK, IsTable, ContractRow
<1>3. /\ holdings' = [holdings EXCEPT ![h].holder = buyer, ![h].status = "available"]
      /\ contracts' = [contracts EXCEPT ![o].status = "settled"]
    BY <1>2 DEF completeTrade
<1>4. /\ DOMAIN holdings' = DOMAIN holdings
      /\ \A x \in DOMAIN holdings \ {h} : holdings'[x] = holdings[x]
      /\ holdings'[h].batch = holdings[h].batch /\ holdings'[h].quantity = holdings[h].quantity
      /\ holdings'[h].status = "available"
    BY <1>3, ClosedRows
<1>5. holdings'[h].holder = buyer
    <2>1. holdings[h] \in HoldingRow
        BY DEF TypeOK, IsTable
    <2>2. holdings'[h] = [holdings[h] EXCEPT !.holder = buyer, !.status = "available"]
        BY <1>3 DEF TypeOK, IsTable
    <2>. QED
        BY <2>1, <2>2 DEF HoldingRow
<1>6. /\ o \in DOMAIN Agreed
      /\ FreeStock' = [FreeStock EXCEPT ![Agreed[o].batch][buyer] = @ + Agreed[o].quantity]
      /\ Agreed' = [x \in DOMAIN Agreed \ {o} |-> Agreed[x]]
    <2>1. PICK end : end = "settled" /\ end # "open"
        OBVIOUS
    <2>2. contracts' = [contracts EXCEPT ![o].status = end]
        BY <1>3, <2>1
    <2>. QED
        BY <1>1, <1>2, <1>4, <1>5, <2>1, <2>2, SliceFreed
<1>7. Agreed[o].buyer = buyer
    BY <1>2, <1>6 DEF Agreed
<1>8. Ledger!Deliver(o)
    BY <1>1, <1>6, <1>7 DEF Ledger!Deliver, Ledger!Add, Ledger!Close
<1>. QED
    BY <1>8 DEF Ledger!LedgerNext

\* Cancellation gives the seller back exactly what it had set aside.
LEMMA CancelLedger ==
    ASSUME IInv, IInv', NEW o \in OfferIds, approveCancellation(o)
    PROVE  Ledger!LedgerNext
<1>. TypeOK /\ TypeOK' /\ ForeignKeys
    BY DEF IInv
<1>1. o \in DOMAIN contracts /\ SliceIntact(o) /\ source' = source
    BY DEF approveCancellation, InventorySafe
<1>2. PICK h \in DOMAIN holdings : h = contracts[o].holding
    BY <1>1 DEF ForeignKeys
<1>3. PICK seller \in Orgs : seller = holdings[h].holder
    BY DEF TypeOK, IsTable, HoldingRow
<1>4. /\ holdings' = [holdings EXCEPT ![h].status = "available"]
      /\ contracts' = [contracts EXCEPT ![o].status = "cancelled"]
    BY <1>2 DEF approveCancellation
<1>5. /\ DOMAIN holdings' = DOMAIN holdings
      /\ \A x \in DOMAIN holdings \ {h} : holdings'[x] = holdings[x]
      /\ holdings'[h].batch = holdings[h].batch /\ holdings'[h].quantity = holdings[h].quantity
      /\ holdings'[h].status = "available"
    BY <1>3, <1>4, ClosedRows
<1>6. holdings'[h].holder = seller
    <2>1. holdings[h] \in HoldingRow
        BY DEF TypeOK, IsTable
    <2>2. holdings'[h] = [holdings[h] EXCEPT !.status = "available"]
        BY <1>4 DEF TypeOK, IsTable
    <2>. QED
        BY <1>3, <2>1, <2>2 DEF HoldingRow
<1>7. /\ o \in DOMAIN Agreed
      /\ FreeStock' = [FreeStock EXCEPT ![Agreed[o].batch][seller] = @ + Agreed[o].quantity]
      /\ Agreed' = [x \in DOMAIN Agreed \ {o} |-> Agreed[x]]
    <2>1. PICK end : end = "cancelled" /\ end # "open"
        OBVIOUS
    <2>2. contracts' = [contracts EXCEPT ![o].status = end]
        BY <1>4, <2>1
    <2>. QED
        BY <1>1, <1>2, <1>3, <1>5, <1>6, <2>1, <2>2, SliceFreed
<1>8. Agreed[o].seller = seller
    BY <1>2, <1>3, <1>7 DEF Agreed
<1>9. Ledger!Release(o)
    BY <1>1, <1>7, <1>8 DEF Ledger!Release, Ledger!Add, Ledger!Close
<1>. QED
    BY <1>9 DEF Ledger!LedgerNext

-----------------------------------------------------------------------------
\* Every transaction of the inventory is a step of the ledger, or moves nothing.
LEMMA StepLedger == IInv /\ IInv' /\ StockInv /\ [Next]_vars => [Ledger!LedgerNext]_(Ledger!ledger)
<1>. SUFFICES ASSUME IInv, IInv', StockInv, [Next]_vars
              PROVE  Ledger!LedgerNext \/ UNCHANGED Ledger!ledger
    OBVIOUS
<1>1. CASE AllocateStock
    BY <1>1, AllocateLedger
<1>2. CASE PublishStock
    <2>1. UNCHANGED <<source, holdings, contracts>>
        BY <1>2 DEF PublishStock, publishBatchFromHolding, publishListing, editListing, withdrawListing,
                    renewListing, expireListing
    <2>. QED
        BY <2>1, NothingMoves
<1>3. CASE DecideOffers
    <2>1. PICK o \in OfferIds :
             \/ \E c \in HoldingIds, k \in ListingIds : acceptTradeOffer(o, c, k)
             \/ UNCHANGED <<source, holdings, contracts>>
        BY <1>3 DEF DecideOffers, createTradeOffer, rejectTradeOffer, discoverWithdrawal,
                    withdrawTradeOffer, lapseOffer
    <2>. QED
        BY <2>1, AcceptLedger, NothingMoves
<1>4. CASE MoveStock
    <2>1. CASE \E h \in HoldingIds, to \in Orgs, q \in 1..MaxGrams, t \in TransferIds :
                  transferHolding(h, to, q, t)
        <3>1. UNCHANGED <<source, holdings, contracts>>
            BY <2>1 DEF transferHolding
        <3>. QED
            BY <3>1, NothingMoves
    <2>2. CASE \E t \in TransferIds, n \in HoldingIds : acceptTransfer(t, n)
        BY <2>2, TransferLedger
    <2>3. CASE \E h, m, n \in HoldingIds, q \in 1..MaxGrams : splitHolding(h, q, m, n)
        BY <2>3, SplitLedger
    <2>. QED
        BY <1>4, <2>1, <2>2, <2>3 DEF MoveStock
<1>5. CASE CloseContracts
    BY <1>5, SettleLedger, CancelLedger DEF CloseContracts
<1>6. CASE RecallStock
    <2>1. UNCHANGED <<source, holdings, contracts>>
        BY <1>6 DEF RecallStock, activateRecall, resolveRecall
    <2>. QED
        BY <2>1, NothingMoves
<1>7. CASE UNCHANGED vars
    BY <1>7, NothingMoves DEF vars
<1>. QED
    BY <1>1, <1>2, <1>3, <1>4, <1>5, <1>6, <1>7 DEF Next

\* Before any holding is created nobody has free stock and nothing is agreed.
LEMMA InitLedger == Init => Ledger!LedgerInit
<1>. SUFFICES ASSUME Init PROVE Ledger!LedgerInit
    OBVIOUS
<1>1. [b \in Batches |-> source[b].quantity] \in [Batches -> 0..MaxGrams]
    BY DEF Init, SourceRow, Grams
<1>2. \A b, org : FreeHoldings(b, org) = {}
    BY DEF Init, EmptyTable, FreeHoldings
<1>3. FreeStock = [b \in Batches |-> [org \in Orgs |-> 0]]
    <2>1. \A b, org : SumQuantity(holdings, FreeHoldings(b, org)) = 0
        BY <1>2, SumOfNone, Zenon
    <2>. QED
        BY <2>1 DEF FreeStock
<1>4. Agreed = [c \in {} |-> c]
    <2>1. OpenContracts = {}
        BY DEF Init, EmptyTable, OpenContracts
    <2>. QED
        BY <2>1 DEF Agreed
<1>. QED
    BY <1>1, <1>3, <1>4 DEF Ledger!LedgerInit

(***************************************************************************)
(* The stock tables keep the ledger's promise: whatever transactions run,  *)
(* in whatever order, the free stock of every organization changes only by *)
(* registration, allocation, transfer, agreement, delivery or release, and *)
(* by exactly the quantity these are about.                                *)
(***************************************************************************)
THEOREM StockIsConserved == Spec => ImplementsLedger
<1>1. Init => Ledger!LedgerInit
    BY InitLedger
<1>2. IInv /\ IInv' /\ StockInv /\ [Next]_vars => [Ledger!LedgerNext]_(Ledger!ledger)
    BY StepLedger
<1>. QED
    BY <1>1, <1>2, SpecIInv, SpecStockInv, PTL DEF Spec, ImplementsLedger, Ledger!LedgerSpec

=============================================================================
