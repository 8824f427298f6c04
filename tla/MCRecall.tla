------------------------------ MODULE MCRecall ------------------------------
(***************************************************************************)
(* Small instances of Recall for TLC: a farmer's batch, a processor's      *)
(* batch blended from it and another, and a packaged lot of no batch.      *)
(***************************************************************************)
EXTENDS Recall, TLC

CONSTANTS farmer, mill, buyer, h1, h2, b1, b2, l1, l2, l3

MCLotBatch == l1 :> b1 @@ l2 :> b2 @@ l3 :> "none"
MCLotOwner == l1 :> farmer @@ l2 :> mill @@ l3 :> mill

Edge(a, b, kg) == [from |-> a, to |-> b, kg |-> kg]
Qty(a, b, c)   == l1 :> a @@ l2 :> b @@ l3 :> c

Chain   == [qty |-> Qty(2, 2, 2), edges |-> {Edge(l1, l2, 1), Edge(l2, l3, 2)}]
Diamond == [qty |-> Qty(3, 2, 3),
            edges |-> {Edge(l1, l2, 1), Edge(l1, l3, 2), Edge(l2, l3, 1)}]

\* A gram of a kilogram: two milligrams reach l2, and one goes on to l3 by either route.
Bulk    == [qty |-> Qty(1000, 2, 2),
            edges |-> {Edge(l1, l2, 1), Edge(l1, l3, 1), Edge(l2, l3, 1)}]
MCGenealogies == {Chain, Diamond, Bulk}

MCSeedChoices == {{[lot |-> l1, grams |-> 1]}, {[lot |-> l2, grams |-> 2]}}

All(kind) == [k \in Kinds |-> IF k = kind THEN 1 ELSE 0]
MCOutcomes == {All("quarantined"), All("returned"), All("released")}

Row(status, batch, holder) ==
    [status |-> status, batch |-> batch, holder |-> holder, grams |-> 1, buyer |-> "none",
     parties |-> {}]
MCStock == h1 :> Row("available", b1, farmer) @@ h2 :> Row("absent", b1, farmer)

Either == Permutations(Recalls)
=============================================================================
