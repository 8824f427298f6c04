------------------------------ MODULE LotTrace ------------------------------
(***************************************************************************)
(* The traces of a recall (services/recallTrace.ts): how much of each lot  *)
(* is equivalent to the suspect material, following the declared           *)
(* allocations from lot to lot, and how much of each lot went into a given *)
(* one.  Quantities are whole grams, and what the code computes in         *)
(* floating point is computed in fractions <<n, d>>.  A graph is a record  *)
(* of the lots' quantities and the genealogy edges.                        *)
(***************************************************************************)
EXTENDS Integers, Sequences, FiniteSetsExt, Relation

CONSTANTS
    Lots,           \* material_lots
    WorkLimit,      \* TRACE_LIMITS.work, in entries of the trace's queue
    DepthLimit      \* TRACE_LIMITS.depth

ASSUME TraceAssumption == WorkLimit \in Nat /\ DepthLimit \in Nat

\* Fractions of a gram.
Grams(n)    == <<n, 1>>
AtMost(a, b) == a[1] * b[2] <= b[1] * a[2]
Plus(a, b)  == <<a[1] * b[2] + b[1] * a[2], a[2] * b[2]>>
Minus(a, b) == <<a[1] * b[2] - b[1] * a[2], a[2] * b[2]>>
Least(a, b) == IF AtMost(a, b) THEN a ELSE b
Zero        == Grams(0)

Outgoing(g, l) == {e \in g.edges : e.from = l}
Incoming(g, l) == {e \in g.edges : e.to = l}

(***************************************************************************)
(* loadTraceGraph (services/traceGraphRepository.ts): round by round the   *)
(* edges that touch a known lot, on either side, until nothing is new.  A  *)
(* lot farther away than the depth limit makes the trace incomplete.       *)
(***************************************************************************)
KnownLots(g, roots) ==
    LET known[n \in 0..DepthLimit] ==
            IF n = 0 THEN roots
            ELSE known[n - 1] \cup UNION {{e.from, e.to} : e \in
                     {x \in g.edges : {x.from, x.to} \cap known[n - 1] # {}}}
    IN  known[DepthLimit]

loadTraceGraph(g, roots) ==
    LET ids == KnownLots(g, roots)
    IN  [qty |-> g.qty, edges |-> {e \in g.edges : {e.from, e.to} \cap ids # {}}]

GraphComplete(g, roots) ==
    LET ids == KnownLots(g, roots)
    IN  \A e \in g.edges : {e.from, e.to} \cap ids # {} => {e.from, e.to} \subseteq ids

totalInputs(g, l) == MapThenSumSet(LAMBDA e : e.kg, Incoming(g, l))

\* assertAcyclic; the code counts visited lots, a cycle leaves some unvisited.
Follows(g) == [a, b \in Lots |-> \E e \in g.edges : e.from = a /\ e.to = b]
Acyclic(g) == \A l \in Lots : ~TransitiveClosure(Follows(g), Lots)[l, l]

NegligibleBelowGram(added) ==
    AtMost(added, Grams(1))

\* added <= 0.000001 kg
Negligible(added) == AtMost(<<added[1] * 1000, added[2]>>, Grams(1))

\* What the suspect part of a lot contributes to one that was made from it.
Contribution(g, item, e) ==
    LET share    == Least(Grams(1), <<item.delta[1], item.delta[2] * g.qty[e.from]>>)
    IN  <<g.qty[e.to] * e.kg * share[1], totalInputs(g, e.to) * share[2]>>

Contribute(g, item, e, s) ==
    LET added == Least(Contribution(g, item, e), Minus(Grams(g.qty[e.to]), s.equivalent[e.to]))
    IN  IF Negligible(added) THEN s
        ELSE [equivalent |-> [s.equivalent EXCEPT ![e.to] = Plus(@, added)],
              queue |-> Append(s.queue, [lot |-> e.to, delta |-> added,
                                         depth |-> item.depth + 1])]

\* Several seeds of one lot add up to at most the lot.
Seed(g, seed, s) ==
    LET added == Least(Grams(seed.grams), Minus(Grams(g.qty[seed.lot]), s.equivalent[seed.lot]))
    IN  IF AtMost(added, Zero) THEN s
        ELSE [equivalent |-> [s.equivalent EXCEPT ![seed.lot] = Plus(@, added)],
              queue |-> Append(s.queue, [lot |-> seed.lot, delta |-> added, depth |-> 0])]

(***************************************************************************)
(* calculateTraceForward: the queue is worked off entry by entry, every    *)
(* entry spreading what was added to its lot over the lots made from it.   *)
(***************************************************************************)
calculateTraceForward(g, seeds) ==
    LET start == FoldSet(LAMBDA seed, s : Seed(g, seed, s),
                         [equivalent |-> [l \in Lots |-> Zero], queue |-> << >>], seeds)
        trace[n \in 0..WorkLimit] ==
            IF n = 0 THEN start
            ELSE LET s == trace[n - 1]
                 IN  IF n > Len(s.queue) THEN s
                     ELSE FoldSet(LAMBDA e, t : Contribute(g, s.queue[n], e, t), s,
                                  Outgoing(g, s.queue[n].lot))
    IN  trace[WorkLimit]

\* validateSeed, with its tolerance of a gram.
ValidSeeds(g, seeds) ==
    seeds # {} /\ \A seed \in seeds : seed.grams > 0 /\ seed.grams <= g.qty[seed.lot] + 1

\* TraceIncompleteError otherwise: no partial scope is ever used.
TraceComplete(g, seeds) ==
    LET s == calculateTraceForward(g, seeds)
    IN  /\ Acyclic(g)
        /\ Len(s.queue) <= WorkLimit
        /\ \A n \in DOMAIN s.queue : s.queue[n].depth <= DepthLimit

impactedLots(g, seeds) ==
    {l \in Lots : ~AtMost(calculateTraceForward(g, seeds).equivalent[l], Zero)}

(***************************************************************************)
(* calculateTraceBack: the same queue over the inputs of each lot.         *)
(***************************************************************************)
Require(g, item, e, s) ==
    LET share == Least(Grams(1), <<item.delta[1], item.delta[2] * g.qty[e.to]>>)
        added == Least(<<e.kg * share[1], share[2]>>,
                       Minus(Grams(g.qty[e.from]), s.equivalent[e.from]))
    IN  IF Negligible(added) THEN s
        ELSE [equivalent |-> [s.equivalent EXCEPT ![e.from] = Plus(@, added)],
              queue |-> Append(s.queue, [lot |-> e.from, delta |-> added,
                                         depth |-> item.depth + 1])]

calculateTraceBack(g, lot) ==
    LET start == [equivalent |-> [l \in Lots |-> IF l = lot THEN Grams(g.qty[l]) ELSE Zero],
                  queue |-> <<[lot |-> lot, delta |-> Grams(g.qty[lot]), depth |-> 0]>>]
        trace[n \in 0..WorkLimit] ==
            IF n = 0 THEN start
            ELSE LET s == trace[n - 1]
                 IN  IF n > Len(s.queue) THEN s
                     ELSE FoldSet(LAMBDA e, t : Require(g, s.queue[n], e, t), s,
                                  Incoming(g, s.queue[n].lot))
    IN  trace[WorkLimit]

tracedLots(g, lot) ==
    {l \in Lots : ~AtMost(calculateTraceBack(g, lot).equivalent[l], Zero)}

-----------------------------------------------------------------------------
(***************************************************************************)
(* Reference definition of the two traces, without a queue: by the routes  *)
(* that lead from lot to lot, each with what is handed on along it alone.  *)
(***************************************************************************)
Routes(g) ==
    {p \in UNION {[1..n -> g.edges] : n \in 1..Cardinality(Lots) - 1} :
        \A i \in 1..Len(p) - 1 : p[i].to = p[i + 1].from}

Product(f, indices) == FoldFunctionOnSet(LAMBDA a, b : a * b, 1, f, indices)

OverMilligram(amount) == amount[1] * 1000 > amount[2]

\* The suspect part of the i-th lot of a route, of which every lot's inputs are a share.
HandedOn(g, seed, p, i) ==
    LET kg     == Product([j \in DOMAIN p |-> p[j].kg], 1..i)
        inputs == Product([j \in DOMAIN p |-> totalInputs(g, p[j].to)], 1..i)
        start  == IF seed.grams <= g.qty[seed.lot] THEN seed.grams ELSE g.qty[seed.lot]
    IN  <<g.qty[p[i].to] * start * kg, g.qty[seed.lot] * inputs>>

\* The lots that more than a milligram reaches, by a route with no less on the way.
ReachedFrom(g, seeds) ==
    {seed.lot : seed \in seeds} \cup
    {p[Len(p)].to : p \in {x \in Routes(g) : \E seed \in seeds :
        x[1].from = seed.lot /\ \A i \in DOMAIN x : OverMilligram(HandedOn(g, seed, x, i))}}

\* What the last lot of a route has of the lot before its i-th edge.
DrawnOn(g, p, i) ==
    <<Product([j \in DOMAIN p |-> p[j].kg], i..Len(p)),
      Product([j \in DOMAIN p |-> g.qty[p[j].from]], i + 1..Len(p))>>

DrawnFrom(g, lot) ==
    {lot} \cup {p[1].from : p \in {x \in Routes(g) :
        x[Len(x)].to = lot /\ \A i \in DOMAIN x : OverMilligram(DrawnOn(g, x, i))}}
=============================================================================
