------------------------------- MODULE Tables -------------------------------
(***************************************************************************)
(* The PostgreSQL tables the trade modules read and write.  A table is a   *)
(* function from the primary keys of the rows it holds to the rows; every  *)
(* row of the stock tables has a quantity_kg column, NUMERIC(12,3), which  *)
(* the code handles as whole grams (Math.round(kg * 1000)).                *)
(***************************************************************************)
EXTENDS Integers, FiniteSets

CONSTANT
    MaxGrams    \* the largest quantity a NUMERIC(12,3) column can hold

ASSUME MaxGramsAssumption == MaxGrams \in Nat \ {0}

\* A table whose keys come from Ids and whose rows come from Row.
IsTable(table, Ids, Row) ==
    /\ DOMAIN table \subseteq Ids
    /\ table \in [DOMAIN table -> Row]

\* The table with no rows.
EmptyTable == [id \in {} |-> id]

\* INSERT INTO table ... RETURNING id
Insert(table, id, row) ==
    [x \in DOMAIN table \cup {id} |-> IF x = id THEN row ELSE table[x]]

(***************************************************************************)
(* SELECT COALESCE(SUM(quantity_kg),0) FROM table WHERE id IN ids.  The    *)
(* total is the number of grams there are: one pair <<id, g>> for every    *)
(* gram g of every row id.                                                 *)
(***************************************************************************)
GramsOf(table, ids) ==
    {x \in ids \X (1..MaxGrams) : x[2] <= table[x[1]].quantity}

SumQuantity(table, ids) == Cardinality(GramsOf(table, ids))

\* The smaller and the larger of two numbers (Math.min, Math.max).
Least(a, b) == IF a <= b THEN a ELSE b
Greatest(a, b) == IF a <= b THEN b ELSE a
=============================================================================
