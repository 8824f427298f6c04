---------------------------- MODULE RecallProofs ----------------------------
(***************************************************************************)
(* Theorems about Recall for every number of recalls, organizations and    *)
(* holdings, every genealogy and every outcome a holder may record.        *)
(***************************************************************************)
EXTENDS Recall, TLAPS

-----------------------------------------------------------------------------
(* The inductive invariant.                                                *)

\* The rows the properties depend on, the ones TypeOK leaves out included.
RowsOK ==
    /\ TypeOK
    /\ stock \in [Holdings -> StockRow]
    /\ evidence \in [Recalls -> [row : {"none", "clean", "superseded"}, stored : BOOLEAN]]
    /\ DOMAIN recovery = Recalls /\ \A r \in Recalls : DOMAIN recovery[r] = Holdings

\* Whoever stock is committed to is one of the parties a recall asks.
BuyerIsParty ==
    \A h \in Holdings : stock[h].status = "committed" => stock[h].buyer \in stock[h].parties

\* Nothing is recorded before a recall is active; what is recorded as returned or destroyed
\* stays held, during the recall and after it, and is not transferred away.
DisposalHeld ==
    \A r \in Recalls, h \in Holdings :
        /\ notice[r].status = "none" => recovery[r][h] = NoRecord
        /\ Disposed(recovery[r][h]) => h \in held[r] /\ stock[h].status # "transferred"

\* While a recall is active, whoever has stock of its batches or a contract about it is
\* asked: what moves during the recall moves between parties that were asked.
EveryoneAsked ==
    \A r \in Recalls, h \in Holdings :
        notice[r].status = "active" /\ stock[h].status # "absent" /\ stock[h].batch \in notice[r].batches
            => \A o \in {stock[h].holder} \cup stock[h].parties : participants[r][o] # "none"

\* Valid evidence is stored: its row is superseded before its bytes are deleted.
CleanIsStored == \A r \in Recalls : evidence[r].row = "clean" => evidence[r].stored

RecallInv ==
    /\ RowsOK /\ BuyerIsParty /\ DisposalHeld /\ EveryoneAsked /\ CleanIsStored
    /\ SafetyReconciles

-----------------------------------------------------------------------------
(* Every step keeps it.                                                    *)

\* No recall at all, on any stock.
LEMMA InitHolds == Init => RecallInv
<1>. SUFFICES ASSUME Init PROVE RecallInv
    OBVIOUS
<1>1. TypeOK
    BY RecallAssumption DEF Init, TypeOK, NoNotice, StockRow
<1>2. RowsOK
    BY <1>1, RecallAssumption DEF Init, RowsOK
<1>3. BuyerIsParty
    BY RecallAssumption DEF Init, BuyerIsParty
<1>4. DisposalHeld /\ EveryoneAsked /\ CleanIsStored /\ SafetyReconciles
    BY DEF Init, DisposalHeld, EveryoneAsked, CleanIsStored, SafetyReconciles, NoNotice, Disposed
<1>. QED
    BY <1>2, <1>3, <1>4 DEF RecallInv

\* What a trace finds are lots, and their batches are batches.
LEMMA ScopeRows ==
    ASSUME NEW graph, NEW seeds
    PROVE  /\ impactedLots(graph, seeds) \subseteq Lots
           /\ affectedBatchIds(impactedLots(graph, seeds)) \subseteq Batches
<1>1. impactedLots(graph, seeds) \subseteq Lots
    BY DEF impactedLots
<1>. QED
    BY <1>1, RecallAssumption DEF affectedBatchIds

\* Activation holds all stock of the affected batches and asks everybody it touches.
LEMMA ActivateKeeps ==
    ASSUME RecallInv, NEW r \in Recalls, NEW org \in Orgs, NEW seeds \in SeedChoices,
           activateRecall(r, org, seeds)
    PROVE  RecallInv'
<1>. USE DEF RecallInv
<1>1. PICK lots, batches, roots :
         /\ lots \subseteq Lots /\ batches \subseteq Batches /\ roots \subseteq Lots
         /\ notice[r].status = "none"
         /\ notice' = [notice EXCEPT ![r] = [status |-> "active", issuer |-> org, suspects |-> roots,
                                             lots |-> lots, batches |-> batches]]
         /\ heldLots' = [heldLots EXCEPT ![r] = lots]
         /\ held' = [held EXCEPT ![r] =
                       {h \in Holdings : stock[h].status # "absent" /\ stock[h].batch \in batches}]
         /\ participants' = [participants EXCEPT ![r] =
                               [o \in Orgs |-> IF o = org THEN "acknowledged"
                                               ELSE IF o \in Affected(batches, lots) THEN "pending"
                                               ELSE "none"]]
    <2>. DEFINE roots == {seed.lot : seed \in seeds}
                graph == loadTraceGraph(genealogy, roots)
                lots == impactedLots(graph, seeds)
                batches == affectedBatchIds(lots)
    <2>1. roots \subseteq Lots
        BY RecallAssumption
    <2>2. lots \subseteq Lots /\ batches \subseteq Batches
        BY ScopeRows
    <2>3. /\ notice[r].status = "none"
          /\ notice' = [notice EXCEPT ![r] = [status |-> "active", issuer |-> org, suspects |-> roots,
                                              lots |-> lots, batches |-> batches]]
          /\ heldLots' = [heldLots EXCEPT ![r] = lots]
          /\ held' = [held EXCEPT ![r] =
                        {h \in Holdings : stock[h].status # "absent" /\ stock[h].batch \in batches}]
          /\ participants' = [participants EXCEPT ![r] =
                                [o \in Orgs |-> IF o = org THEN "acknowledged"
                                                ELSE IF o \in Affected(batches, lots) THEN "pending"
                                                ELSE "none"]]
        BY DEF activateRecall
    <2>. HIDE DEF roots, graph, lots, batches
    <2>. QED
        BY <2>1, <2>2, <2>3
<1>2. UNCHANGED <<genealogy, recovery, evidence, request, stock>>
    BY DEF activateRecall
<1>3. /\ notice'[r].status = "active" /\ notice'[r].batches = batches /\ notice'[r].lots = lots
      /\ heldLots'[r] = lots
      /\ held'[r] = {h \in Holdings : stock[h].status # "absent" /\ stock[h].batch \in batches}
      /\ participants'[r] = [o \in Orgs |-> IF o = org THEN "acknowledged"
                                            ELSE IF o \in Affected(batches, lots) THEN "pending"
                                            ELSE "none"]
      /\ \A x \in Recalls \ {r} : /\ notice'[x] = notice[x] /\ heldLots'[x] = heldLots[x]
                                  /\ held'[x] = held[x] /\ participants'[x] = participants[x]
    BY <1>1 DEF RowsOK, TypeOK
<1>4. RowsOK'
    <2>1. TypeOK'
        <3>1. notice' \in [Recalls -> [status : {"none", "active", "resolved"},
                                       issuer : Orgs \cup {"none"}, suspects : SUBSET Lots,
                                       lots : SUBSET Lots, batches : SUBSET Batches]]
            BY <1>1 DEF RowsOK, TypeOK
        <3>2. held' \in [Recalls -> SUBSET Holdings] /\ heldLots' \in [Recalls -> SUBSET Lots]
            BY <1>1 DEF RowsOK, TypeOK
        <3>3. participants' \in [Recalls -> [Orgs -> {"none", "pending", "acknowledged"}]]
            BY <1>1 DEF RowsOK, TypeOK
        <3>. QED
            BY <1>2, <3>1, <3>2, <3>3 DEF RowsOK, TypeOK
    <2>. QED
        BY <1>2, <2>1 DEF RowsOK
<1>5. BuyerIsParty' /\ CleanIsStored'
    BY <1>2 DEF BuyerIsParty, CleanIsStored
<1>6. DisposalHeld'
    BY <1>1, <1>2, <1>3 DEF DisposalHeld, Disposed
<1>7. EveryoneAsked'
    <2>. SUFFICES ASSUME NEW x \in Recalls, NEW h \in Holdings, notice'[x].status = "active",
                         stock[h].status # "absent", stock[h].batch \in notice'[x].batches,
                         NEW o \in {stock[h].holder} \cup stock[h].parties
                  PROVE  participants'[x][o] # "none"
        BY <1>2 DEF EveryoneAsked
    <2>1. CASE x = r
        <3>1. o \in Orgs
            BY DEF RowsOK, StockRow
        <3>2. o \in Affected(batches, lots)
            BY <1>3, <2>1 DEF Affected
        <3>. QED
            BY <1>3, <2>1, <3>1, <3>2
    <2>2. CASE x # r
        BY <1>3, <2>2 DEF EveryoneAsked
    <2>. QED
        BY <2>1, <2>2
<1>8. SafetyReconciles'
    <2>. SUFFICES ASSUME NEW x \in Recalls
                  PROVE  /\ notice'[x].status = "active" =>
                              /\ \A h \in Holdings :
                                   stock[h].status # "absent" /\ stock[h].batch \in notice'[x].batches
                                       => h \in held'[x]
                              /\ notice'[x].lots \subseteq heldLots'[x]
                         /\ notice'[x].status = "resolved" =>
                              \A h \in Holdings : Disposed(recovery[x][h]) => h \in held'[x]
        BY <1>2 DEF SafetyReconciles, Disposed
    <2>. QED
        BY <1>3 DEF SafetyReconciles
<1>. QED
    BY <1>4, <1>5, <1>6, <1>7, <1>8

\* An acknowledgement only turns who was asked into who has answered.
LEMMA AcknowledgeKeeps ==
    ASSUME RecallInv, NEW r \in Recalls, NEW org \in Orgs, acknowledgeRecall(r, org)
    PROVE  RecallInv'
<1>. USE DEF RecallInv
<1>1. /\ participants[r][org] = "pending"
      /\ participants' = [participants EXCEPT ![r][org] = "acknowledged"]
      /\ UNCHANGED <<genealogy, notice, held, heldLots, recovery, evidence, request, stock>>
    BY DEF acknowledgeRecall
<1>2. participants' \in [Recalls -> [Orgs -> {"none", "pending", "acknowledged"}]]
    BY <1>1 DEF RowsOK, TypeOK
<1>3. \A x \in Recalls, o \in Orgs :
          participants'[x][o] = IF x = r /\ o = org THEN "acknowledged" ELSE participants[x][o]
    BY <1>1 DEF RowsOK, TypeOK
<1>4. RowsOK'
    BY <1>1, <1>2 DEF RowsOK, TypeOK
<1>5. BuyerIsParty' /\ CleanIsStored' /\ DisposalHeld' /\ SafetyReconciles'
    BY <1>1 DEF BuyerIsParty, CleanIsStored, DisposalHeld, SafetyReconciles, Disposed
<1>6. EveryoneAsked'
    <2>1. \A h \in Holdings : stock[h].holder \in Orgs /\ stock[h].parties \subseteq Orgs
        BY DEF RowsOK, StockRow
    <2>. QED
        BY <1>1, <1>3, <2>1 DEF EveryoneAsked
<1>. QED
    BY <1>4, <1>5, <1>6

\* A recovery is recorded of held stock that its holder still has.
LEMMA RecordKeeps ==
    ASSUME RecallInv, NEW r \in Recalls, NEW h \in Holdings, NEW record \in Outcomes,
           recordRecallRecovery(r, h, record)
    PROVE  RecallInv'
<1>. USE DEF RecallInv
<1>1. /\ notice[r].status = "active" /\ h \in held[r] /\ stock[h].status # "transferred"
      /\ recovery' = [recovery EXCEPT ![r][h] = record]
      /\ UNCHANGED <<genealogy, notice, held, heldLots, participants, evidence, request, stock>>
    BY DEF recordRecallRecovery
<1>2. /\ DOMAIN recovery' = Recalls /\ \A x \in Recalls : DOMAIN recovery'[x] = Holdings
      /\ \A x \in Recalls, g \in Holdings :
            recovery'[x][g] = IF x = r /\ g = h THEN record ELSE recovery[x][g]
    BY <1>1 DEF RowsOK
<1>3. RowsOK'
    BY <1>1, <1>2 DEF RowsOK, TypeOK
<1>4. BuyerIsParty' /\ CleanIsStored' /\ EveryoneAsked'
    BY <1>1 DEF BuyerIsParty, CleanIsStored, EveryoneAsked
<1>5. DisposalHeld'
    BY <1>1, <1>2 DEF DisposalHeld, Disposed
<1>6. SafetyReconciles'
    BY <1>1, <1>2, <1>5 DEF SafetyReconciles, DisposalHeld
<1>. QED
    BY <1>3, <1>4, <1>5, <1>6

\* The steps before the transaction of a resolution touch its request only.
LEMMA RequestKeeps ==
    ASSUME RecallInv, UNCHANGED <<response, evidence, stock>>
    PROVE  RecallInv'
<1>. USE DEF RecallInv, response
<1>1. RowsOK'
    BY DEF RowsOK, TypeOK
<1>2. BuyerIsParty' /\ DisposalHeld' /\ EveryoneAsked' /\ CleanIsStored' /\ SafetyReconciles'
    BY DEF BuyerIsParty, DisposalHeld, EveryoneAsked, CleanIsStored, SafetyReconciles, Disposed
<1>. QED
    BY <1>1, <1>2

\* Resolution releases what is accounted for and keeps what was returned or destroyed.
LEMMA ResolveKeeps ==
    ASSUME RecallInv, NEW r \in Recalls, resolveRecallResponse(r)
    PROVE  RecallInv'
<1>. USE DEF RecallInv
<1>1. /\ notice[r].status = "active"
      /\ held' = [held EXCEPT ![r] = Retained(r)]
      /\ heldLots' = [heldLots EXCEPT ![r] =
                        {l \in heldLots[r] : \E h \in Retained(r) : stock[h].batch = LotBatch[l]}]
      /\ notice' = [notice EXCEPT ![r].status = "resolved"]
      /\ UNCHANGED <<genealogy, participants, recovery, evidence, stock>>
    BY DEF resolveRecallResponse
<1>2. Retained(r) \subseteq held[r] /\ held[r] \subseteq Holdings
    BY DEF Retained, RowsOK, TypeOK
<1>3. /\ notice'[r].status = "resolved"
      /\ held'[r] = Retained(r)
      /\ \A x \in Recalls \ {r} : notice'[x] = notice[x] /\ held'[x] = held[x] /\ heldLots'[x] = heldLots[x]
    BY <1>1 DEF RowsOK, TypeOK
<1>4. RowsOK'
    <2>1. notice' \in [Recalls -> [status : {"none", "active", "resolved"},
                                   issuer : Orgs \cup {"none"}, suspects : SUBSET Lots,
                                   lots : SUBSET Lots, batches : SUBSET Batches]]
        <3>. DEFINE Row == [status : {"none", "active", "resolved"}, issuer : Orgs \cup {"none"},
                            suspects : SUBSET Lots, lots : SUBSET Lots, batches : SUBSET Batches]
        <3>1. notice \in [Recalls -> Row] /\ notice[r] \in Row
            BY DEF RowsOK, TypeOK
        <3>2. [notice[r] EXCEPT !.status = "resolved"] \in Row
            BY <3>1
        <3>. HIDE DEF Row
        <3>3. notice' \in [Recalls -> Row]
            BY <1>1, <3>1, <3>2
        <3>. QED
            BY <3>3 DEF Row
    <2>2. held' \in [Recalls -> SUBSET Holdings] /\ heldLots' \in [Recalls -> SUBSET Lots]
        BY <1>1, <1>2 DEF RowsOK, TypeOK
    <2>. QED
        BY <1>1, <2>1, <2>2 DEF RowsOK, TypeOK
<1>5. BuyerIsParty' /\ CleanIsStored'
    BY <1>1 DEF BuyerIsParty, CleanIsStored
<1>6. EveryoneAsked'
    BY <1>1, <1>3 DEF EveryoneAsked
<1>7. \A h \in Holdings : Disposed(recovery[r][h]) => h \in Retained(r)
    <2>. SUFFICES ASSUME NEW h \in Holdings, Disposed(recovery[r][h]) PROVE h \in Retained(r)
        OBVIOUS
    <2>1. h \in held[r] /\ stock[h].status # "transferred"
        BY DEF DisposalHeld
    <2>2. stock[h].grams # 0
        BY DEF RowsOK, StockRow
    <2>. QED
        BY <2>1, <2>2 DEF Retained
<1>8. DisposalHeld'
    BY <1>1, <1>3, <1>7 DEF DisposalHeld, Disposed
<1>9. SafetyReconciles'
    <2>1. \A x \in Recalls \ {r} :
             /\ notice'[x].status = "active" =>
                  /\ \A h \in Holdings :
                       stock'[h].status # "absent" /\ stock'[h].batch \in notice'[x].batches => h \in held'[x]
                  /\ notice'[x].lots \subseteq heldLots'[x]
             /\ notice'[x].status = "resolved" =>
                  \A h \in Holdings : Disposed(recovery'[x][h]) => h \in held'[x]
        BY <1>1, <1>3 DEF SafetyReconciles, Disposed
    <2>2. \A h \in Holdings : Disposed(recovery'[r][h]) => h \in held'[r]
        BY <1>1, <1>3, <1>7 DEF Disposed
    <2>. QED
        BY <1>3, <2>1, <2>2 DEF SafetyReconciles
<1>. QED
    BY <1>4, <1>5, <1>6, <1>8, <1>9

\* Evidence is stored before it counts and superseded before it is deleted.
LEMMA EvidenceKeeps ==
    ASSUME RecallInv, NEW r \in Recalls, EvidenceStep(r)
    PROVE  RecallInv'
<1>. USE DEF RecallInv
<1>1. /\ UNCHANGED <<response, request, stock>>
      /\ \/ evidence' = [evidence EXCEPT ![r] = [row |-> "clean", stored |-> TRUE]]
         \/ evidence' = [evidence EXCEPT ![r].row = "superseded"]
         \/ evidence[r].row = "superseded" /\ evidence' = [evidence EXCEPT ![r].stored = FALSE]
    BY DEF EvidenceStep
<1>2. evidence' \in [Recalls -> [row : {"none", "clean", "superseded"}, stored : BOOLEAN]]
    <2>. DEFINE Row == [row : {"none", "clean", "superseded"}, stored : BOOLEAN]
    <2>1. evidence \in [Recalls -> Row] /\ evidence[r] \in Row
        BY DEF RowsOK
    <2>2. /\ [row |-> "clean", stored |-> TRUE] \in Row
          /\ [evidence[r] EXCEPT !.row = "superseded"] \in Row
          /\ [evidence[r] EXCEPT !.stored = FALSE] \in Row
        BY <2>1
    <2>. HIDE DEF Row
    <2>3. evidence' \in [Recalls -> Row]
        BY <1>1, <2>1, <2>2
    <2>. QED
        BY <2>3 DEF Row
<1>3. RowsOK'
    BY <1>1, <1>2 DEF RowsOK, TypeOK, response
<1>4. BuyerIsParty' /\ DisposalHeld' /\ EveryoneAsked' /\ SafetyReconciles'
    BY <1>1 DEF BuyerIsParty, DisposalHeld, EveryoneAsked, SafetyReconciles, Disposed, response
<1>5. CleanIsStored'
    BY <1>1 DEF CleanIsStored, RowsOK
<1>. QED
    BY <1>3, <1>4, <1>5

-----------------------------------------------------------------------------
(* The steps of the stock.                                                 *)

\* A step of one holding h, which may pass to one of its parties, and of an absent one, which
\* appears only when its batch is not under recall.
LEMMA StockKeeps ==
    ASSUME RecallInv, UNCHANGED <<response, evidence, request>>,
           stock' \in [Holdings -> StockRow], NEW h \in Holdings,
           stock[h].status # "absent",
           \A x \in Holdings \ {h} :
              \/ stock'[x] = stock[x]
              \/ stock'[x].status = "available" /\ ~Held(stock'[x].batch),
           stock'[h].batch = stock[h].batch,
           stock'[h].status = "committed" => stock'[h].buyer \in stock'[h].parties,
           Held(stock[h].batch) => /\ stock'[h].status # "transferred"
                                   /\ stock'[h].holder \in {stock[h].holder} \cup stock[h].parties
                                   /\ stock'[h].parties = stock[h].parties
    PROVE  RecallInv'
<1>. USE DEF RecallInv, response
<1>1. RowsOK'
    BY DEF RowsOK, TypeOK, StockRow
<1>2. BuyerIsParty'
    BY DEF BuyerIsParty
<1>3. CleanIsStored'
    BY DEF CleanIsStored
<1>4. \A r \in Recalls, x \in Holdings :
          notice[r].status = "active" /\ stock[x].batch \in notice[r].batches => Held(stock[x].batch)
    BY DEF Held
<1>5. \A r \in Recalls, x \in Holdings : notice[r].status = "active" /\ stock'[x].batch \in notice[r].batches
          => x = h \/ stock'[x] = stock[x]
    BY DEF Held
<1>6. DisposalHeld'
    <2>. SUFFICES ASSUME NEW r \in Recalls, NEW x \in Holdings, Disposed(recovery[r][x])
                  PROVE  stock'[x].status # "transferred"
        BY DEF DisposalHeld, Disposed
    <2>1. stock[x].status # "transferred" /\ Held(stock[x].batch)
        BY DEF DisposalHeld, Held
    <2>. QED
        BY <2>1
<1>7. EveryoneAsked'
    <2>. SUFFICES ASSUME NEW r \in Recalls, NEW x \in Holdings, notice[r].status = "active",
                         stock'[x].status # "absent", stock'[x].batch \in notice[r].batches,
                         NEW o \in {stock'[x].holder} \cup stock'[x].parties
                  PROVE  participants[r][o] # "none"
        BY DEF EveryoneAsked
    <2>1. CASE x = h
        <3>1. o \in {stock[h].holder} \cup stock[h].parties
            BY <1>4, <2>1
        <3>. QED
            BY <2>1, <3>1 DEF EveryoneAsked
    <2>2. CASE x # h
        BY <1>5, <2>2 DEF EveryoneAsked
    <2>. QED
        BY <2>1, <2>2
<1>8. SafetyReconciles'
    <2>1. \A r \in Recalls : notice[r].status = "active" => \A x \in Holdings :
              stock'[x].status # "absent" /\ stock'[x].batch \in notice[r].batches => x \in held[r]
        BY <1>5 DEF SafetyReconciles
    <2>. QED
        BY <2>1 DEF SafetyReconciles, Disposed
<1>. QED
    BY <1>1, <1>2, <1>3, <1>6, <1>7, <1>8

\* A transfer is of stock of no recalled batch, and so is what it creates.
LEMMA TransferKeeps ==
    ASSUME RecallInv, NEW h \in Holdings, NEW new \in Holdings, NEW to \in Takers,
           NEW grams \in 1..stock[h].grams, acceptTransfer(h, new, to, grams)
    PROVE  RecallInv'
<1>1. /\ stock[h].status = "available" /\ stock[new].status = "absent" /\ h # new
      /\ ~Held(stock[h].batch) /\ UNCHANGED <<response, evidence, request>>
    BY DEF acceptTransfer
<1>2. stock \in [Holdings -> StockRow] /\ stock[h] \in StockRow
    BY DEF RecallInv, RowsOK
<1>3. grams \in Nat \ {0} /\ stock[h].grams \in Nat /\ grams <= stock[h].grams /\ to \in Orgs
    BY <1>2, RecallAssumption DEF StockRow
<1>4. PICK kept, row :
         /\ stock' = [stock EXCEPT ![h] = kept, ![new] = row]
         /\ \/ grams = stock[h].grams /\ kept = [stock[h] EXCEPT !.status = "transferred"]
            \/ grams # stock[h].grams /\ kept = [stock[h] EXCEPT !.grams = stock[h].grams - grams]
         /\ row = [status |-> "available", batch |-> stock[h].batch, holder |-> to,
                   grams |-> grams, buyer |-> "none", parties |-> {}]
    BY <1>1 DEF acceptTransfer
<1>5. /\ row \in StockRow /\ row.status = "available" /\ row.batch = stock[h].batch
      /\ kept \in StockRow /\ kept.batch = stock[h].batch /\ kept.status # "committed"
    <2>1. row \in StockRow /\ row.status = "available" /\ row.batch = stock[h].batch
        BY <1>2, <1>3, <1>4 DEF StockRow
    <2>2. CASE grams = stock[h].grams
        <3>1. kept = [stock[h] EXCEPT !.status = "transferred"]
            BY <1>4, <2>2
        <3>. QED
            BY <1>2, <2>1, <3>1 DEF StockRow
    <2>3. CASE grams # stock[h].grams
        <3>1. kept = [stock[h] EXCEPT !.grams = stock[h].grams - grams]
            BY <1>4, <2>3
        <3>2. stock[h].grams - grams \in Nat \ {0}
            BY <1>3, <2>3
        <3>. QED
            BY <1>1, <1>2, <2>1, <3>1, <3>2 DEF StockRow
    <2>. QED
        BY <2>2, <2>3
<1>6. /\ stock' \in [Holdings -> StockRow] /\ stock'[h] = kept /\ stock'[new] = row
      /\ \A x \in Holdings \ {h, new} : stock'[x] = stock[x]
    BY <1>1, <1>2, <1>4, <1>5
<1>. QED
    BY <1>1, <1>5, <1>6, StockKeeps

\* Stock under recall is not sold, and a sale of other stock makes its parties known.
LEMMA SaleKeeps ==
    ASSUME RecallInv, NEW h \in Holdings,
           \/ \E org \in Takers : acceptOffer(h, org)
           \/ approveCancellation(h)
           \/ completeTradeIfReady(h)
    PROVE  RecallInv'
<1>1. stock \in [Holdings -> StockRow] /\ stock[h] \in StockRow
    BY DEF RecallInv, RowsOK
<1>2. CASE \E org \in Takers : acceptOffer(h, org)
    <2>1. PICK org \in Takers : acceptOffer(h, org)
        BY <1>2
    <2>2. PICK row : /\ row = [stock[h] EXCEPT !.status = "committed", !.buyer = org,
                                               !.parties = stock[h].parties \cup {stock[h].holder, org}]
                     /\ stock' = [stock EXCEPT ![h] = row]
        BY <1>1, <2>1 DEF acceptOffer
    <2>3. /\ stock[h].status = "available" /\ ~Held(stock[h].batch)
          /\ UNCHANGED <<response, evidence, request>>
        BY <2>1 DEF acceptOffer
    <2>4. row \in StockRow /\ row.batch = stock[h].batch /\ row.buyer \in row.parties
        <3>1. PICK parties : parties = stock[h].parties \cup {stock[h].holder, org}
            OBVIOUS
        <3>2. parties \in SUBSET Orgs /\ org \in Orgs /\ org \in parties
            BY <1>1, <3>1, RecallAssumption DEF StockRow
        <3>3. row = [stock[h] EXCEPT !.status = "committed", !.buyer = org, !.parties = parties]
            BY <2>2, <3>1
        <3>4. row.batch = stock[h].batch /\ row.buyer = org /\ row.parties = parties
            BY <1>1, <3>3 DEF StockRow
        <3>. QED
            BY <1>1, <3>2, <3>3, <3>4 DEF StockRow
    <2>5. stock' \in [Holdings -> StockRow] /\ stock'[h] = row /\ \A x \in Holdings \ {h} : stock'[x] = stock[x]
        BY <1>1, <2>2, <2>4
    <2>. QED
        BY <2>3, <2>4, <2>5, StockKeeps
<1>3. CASE approveCancellation(h)
    <2>1. PICK row : /\ row = [stock[h] EXCEPT !.status = "available", !.buyer = "none"]
                     /\ stock' = [stock EXCEPT ![h] = row]
        BY <1>1, <1>3 DEF approveCancellation
    <2>2. /\ stock[h].status = "committed" /\ ~Held(stock[h].batch)
          /\ UNCHANGED <<response, evidence, request>>
        BY <1>3 DEF approveCancellation
    <2>3. row \in StockRow /\ row.batch = stock[h].batch /\ row.status = "available"
        BY <1>1, <2>1 DEF StockRow
    <2>4. stock' \in [Holdings -> StockRow] /\ stock'[h] = row /\ \A x \in Holdings \ {h} : stock'[x] = stock[x]
        BY <1>1, <2>1, <2>3
    <2>. QED
        BY <2>2, <2>3, <2>4, StockKeeps
<1>4. CASE completeTradeIfReady(h)
    <2>1. PICK row : /\ row = [stock[h] EXCEPT !.status = "available", !.holder = stock[h].buyer,
                                               !.buyer = "none"]
                     /\ stock' = [stock EXCEPT ![h] = row]
        BY <1>1, <1>4 DEF completeTradeIfReady
    <2>2. stock[h].status = "committed" /\ UNCHANGED <<response, evidence, request>>
        BY <1>4 DEF completeTradeIfReady
    <2>3. stock[h].buyer \in stock[h].parties /\ stock[h].parties \subseteq Orgs
        BY <1>1, <2>2 DEF RecallInv, BuyerIsParty, StockRow
    <2>4. /\ row \in StockRow /\ row.batch = stock[h].batch /\ row.status = "available"
          /\ row.holder = stock[h].buyer /\ row.parties = stock[h].parties
        BY <1>1, <2>1, <2>3 DEF StockRow
    <2>5. stock' \in [Holdings -> StockRow] /\ stock'[h] = row /\ \A x \in Holdings \ {h} : stock'[x] = stock[x]
        BY <1>1, <2>1, <2>4
    <2>. QED
        BY <2>2, <2>3, <2>4, <2>5, StockKeeps
<1>. QED
    BY <1>2, <1>3, <1>4

-----------------------------------------------------------------------------
(* The theorems.                                                           *)

\* Every step keeps the invariant.
LEMMA StepHolds == RecallInv /\ [Next]_vars => RecallInv'
<1>. SUFFICES ASSUME RecallInv, [Next]_vars PROVE RecallInv'
    OBVIOUS
<1>1. ASSUME NEW r \in Recalls, RecallStep(r) PROVE RecallInv'
    <2>1. CASE \E org \in Orgs, seeds \in SeedChoices : activateRecall(r, org, seeds)
        BY <2>1, ActivateKeeps
    <2>2. CASE \E org \in Orgs : acknowledgeRecall(r, org)
        BY <2>2, AcknowledgeKeeps
    <2>3. CASE \E h \in Holdings, record \in Outcomes : recordRecallRecovery(r, h, record)
        BY <2>3, RecordKeeps
    <2>4. CASE preflightEvidence(r) \/ probeEvidence(r) \/ abandonRequest(r)
        <3>1. UNCHANGED <<response, evidence, stock>>
            BY <2>4 DEF preflightEvidence, probeEvidence, abandonRequest
        <3>. QED
            BY <3>1, RequestKeeps
    <2>5. CASE resolveRecallResponse(r)
        BY <2>5, ResolveKeeps
    <2>6. CASE EvidenceStep(r)
        BY <2>6, EvidenceKeeps
    <2>. QED
        BY <1>1, <2>1, <2>2, <2>3, <2>4, <2>5, <2>6 DEF RecallStep
<1>2. ASSUME NEW h \in Holdings, StockStep(h) PROVE RecallInv'
    <2>1. CASE \E new \in Holdings, to \in Takers, grams \in 1..stock[h].grams : acceptTransfer(h, new, to, grams)
        BY <2>1, TransferKeeps
    <2>. QED
        BY <1>2, <2>1, SaleKeeps DEF StockStep
<1>3. CASE UNCHANGED vars
    <2>1. UNCHANGED <<response, evidence, stock>>
        BY <1>3 DEF vars, response
    <2>. QED
        BY <2>1, RequestKeeps
<1>. QED
    BY <1>1, <1>2, <1>3 DEF Next

\* The invariant holds in every state.
THEOREM SpecRecallInv == Spec => []RecallInv
BY InitHolds, StepHolds, PTL DEF Spec

(***************************************************************************)
(* What reconcileRecallSafety looks for is never there: while a recall is  *)
(* active all stock of its batches and all its lots are held, and stock    *)
(* returned or destroyed stays held after it.                              *)
(***************************************************************************)
THEOREM HoldsAreComplete == Spec => []SafetyReconciles
<1>1. RecallInv => SafetyReconciles
    BY DEF RecallInv
<1>. QED
    BY <1>1, SpecRecallInv, PTL

\* The status of a recall changes by its activation and its resolution only.
LEMMA ResolvesOnlyByResolution ==
    ASSUME RecallInv, [Next]_vars, NEW r \in Recalls,
           notice[r].status = "active", notice'[r].status = "resolved"
    PROVE  resolveRecallResponse(r)
<1>1. \E x \in Recalls : \/ \E org \in Orgs, seeds \in SeedChoices : activateRecall(x, org, seeds)
                         \/ resolveRecallResponse(x)
                         \/ notice' = notice
    BY DEF Next, vars, RecallStep, StockStep, acknowledgeRecall, recordRecallRecovery, preflightEvidence,
           probeEvidence, abandonRequest, EvidenceStep, acceptTransfer, acceptOffer, approveCancellation,
           completeTradeIfReady, response
<1>2. PICK x \in Recalls : \/ \E org \in Orgs, seeds \in SeedChoices : activateRecall(x, org, seeds)
                           \/ resolveRecallResponse(x)
    BY <1>1
<1>3. notice \in [Recalls -> [status : {"none", "active", "resolved"}, issuer : Orgs \cup {"none"},
                              suspects : SUBSET Lots, lots : SUBSET Lots, batches : SUBSET Batches]]
    BY DEF RecallInv, RowsOK, TypeOK
<1>4. x = r
    <2>1. \E row : notice' = [notice EXCEPT ![x] = row]
        BY <1>2 DEF activateRecall, resolveRecallResponse
    <2>. QED
        BY <1>3, <2>1
<1>5. CASE \E org \in Orgs, seeds \in SeedChoices : activateRecall(x, org, seeds)
    BY <1>4, <1>5 DEF activateRecall
<1>. QED
    BY <1>2, <1>4, <1>5

(***************************************************************************)
(* A recall is resolved only when all stock of its batches is accounted    *)
(* for and every organization that has some has acknowledged, also when    *)
(* the stock came to it by a settlement after the activation.              *)
(***************************************************************************)
THEOREM EverybodyAnswered == Spec => ResolutionCoversEveryone
<1>1. ASSUME RecallInv, [Next]_vars, NEW r \in Recalls, notice[r].status = "active",
             notice'[r].status = "resolved", NEW h \in Holdings, Current(h),
             stock[h].batch \in notice[r].batches
      PROVE  AccountedFor(r, h) /\ participants[r][stock[h].holder] = "acknowledged"
    <2>1. resolveRecallResponse(r)
        BY <1>1, ResolvesOnlyByResolution
    <2>2. /\ stock[h].status # "absent" /\ stock[h].status # "transferred"
          /\ stock[h].grams > 0 /\ stock[h].holder \in Orgs
        BY <1>1 DEF Current, RecallInv, RowsOK, StockRow
    <2>3. h \in held[r]
        BY <1>1, <2>2 DEF RecallInv, SafetyReconciles
    <2>4. participants[r][stock[h].holder] \in {"pending", "acknowledged"}
        BY <1>1, <2>2 DEF RecallInv, EveryoneAsked, RowsOK, TypeOK
    <2>. QED
        BY <2>1, <2>2, <2>3, <2>4 DEF resolveRecallResponse
<1>2. RecallInv /\ [Next]_vars =>
        [\A r \in Recalls :
            notice[r].status = "active" /\ notice'[r].status = "resolved" =>
                \A h \in Holdings :
                    Current(h) /\ stock[h].batch \in notice[r].batches =>
                        /\ AccountedFor(r, h)
                        /\ participants[r][stock[h].holder] = "acknowledged"]_vars
    BY <1>1
<1>. QED
    BY <1>2, SpecRecallInv, PTL DEF Spec, ResolutionCoversEveryone

(***************************************************************************)
(* A recall is resolved only on evidence that is valid and stored when the *)
(* transaction commits, however long ago its bytes were looked for.        *)
(***************************************************************************)
THEOREM EvidenceAtResolution == Spec => ResolvedOnStoredEvidence
<1>1. ASSUME RecallInv, [Next]_vars, NEW r \in Recalls, notice[r].status = "active",
             notice'[r].status = "resolved"
      PROVE  evidence[r] = [row |-> "clean", stored |-> TRUE]
    <2>1. resolveRecallResponse(r)
        BY <1>1, ResolvesOnlyByResolution
    <2>2. evidence[r].row = "clean"
        BY <2>1 DEF resolveRecallResponse, ProofAvailable
    <2>3. evidence[r].stored = TRUE /\ evidence[r] \in [row : {"none", "clean", "superseded"}, stored : BOOLEAN]
        BY <1>1, <2>2 DEF RecallInv, CleanIsStored, RowsOK
    <2>. QED
        BY <2>2, <2>3
<1>2. RecallInv /\ [Next]_vars =>
        [\A r \in Recalls :
            notice[r].status = "active" /\ notice'[r].status = "resolved" =>
                evidence[r] = [row |-> "clean", stored |-> TRUE]]_vars
    BY <1>1
<1>. QED
    BY <1>2, SpecRecallInv, PTL DEF Spec, ResolvedOnStoredEvidence

(***************************************************************************)
(* Once any of a batch was returned or destroyed, none of it is sold or    *)
(* handed on again, whichever of the recalls that overlap were resolved.   *)
(***************************************************************************)
THEOREM DisposedStaysOut == Spec => DisposedNeverTraded
<1>1. ASSUME RecallInv, [Next]_vars, NEW h \in Holdings, stock[h].status = "available",
             stock'[h].status \in {"committed", "transferred"},
             NEW r \in Recalls, NEW x \in Holdings, Disposed(recovery[r][x])
      PROVE  stock[x].batch # stock[h].batch
    <2>1. stock' # stock
        BY <1>1
    <2>2. PICK g \in Holdings : StockStep(g)
        BY <1>1, <2>1 DEF Next, vars, RecallStep, activateRecall, acknowledgeRecall, recordRecallRecovery,
                          preflightEvidence, probeEvidence, abandonRequest, resolveRecallResponse, EvidenceStep
    <2>3. stock \in [Holdings -> StockRow]
        BY <1>1 DEF RecallInv, RowsOK
    <2>4. ~Held(stock[h].batch)
        <3>1. CASE \E new \in Holdings, to \in Takers, grams \in 1..stock[g].grams : acceptTransfer(g, new, to, grams)
            BY <1>1, <2>3, <3>1 DEF acceptTransfer
        <3>2. CASE \E org \in Takers : acceptOffer(g, org)
            BY <1>1, <2>3, <3>2 DEF acceptOffer
        <3>3. CASE approveCancellation(g) \/ completeTradeIfReady(g)
            BY <1>1, <2>3, <3>3 DEF approveCancellation, completeTradeIfReady
        <3>. QED
            BY <2>2, <3>1, <3>2, <3>3 DEF StockStep
    <2>. QED
        BY <1>1, <2>4 DEF Held
<1>2. RecallInv /\ [Next]_vars =>
        [\A h \in Holdings :
            stock[h].status = "available" /\ stock'[h].status \in {"committed", "transferred"} =>
                \A r \in Recalls, x \in Holdings :
                    Disposed(recovery[r][x]) => stock[x].batch # stock[h].batch]_vars
    BY <1>1
<1>. QED
    BY <1>2, SpecRecallInv, PTL DEF Spec, DisposedNeverTraded

=============================================================================
