------------------------------- MODULE Recall -------------------------------
(***************************************************************************)
(* Recalls (modules/recall): activation holds everything made from the     *)
(* suspect lots and registers who has to answer; the organizations         *)
(* acknowledge, holders record what became of their stock, and a manager   *)
(* resolves the notice on stored evidence.  Every step but the evidence    *)
(* preflight is a transaction under the recall boundary lock.  Contact     *)
(* notes are read by people only and left out; the emails are in           *)
(* EmailOutbox.  Below, the steps of Inventory as far as a recall sees     *)
(* them: who holds which stock, and for whom it is committed.              *)
(***************************************************************************)
EXTENDS LotTrace

CONSTANTS
    Orgs, Recalls, Holdings, Batches,
    Genealogies,    \* the genealogies the platform may hold
    LotBatch,       \* material_lots.batch_id, "none" for a production lot
    LotOwner,       \* material_lots.owner_organization_id
    Takers,         \* the organizations that buy or take over stock
    Authorities,    \* organizations whose actors may manage all recalls
    SeedChoices,    \* the suspect material a recall names
    Outcomes,       \* the recovery quantities a holder records, as functions
    Stock           \* the holdings at the start

\* A row of batch_holdings, with the buyer it is committed to, if any, and the sellers and
\* buyers of its contracts.  (trade_holding_quantity_valid: every quantity is positive.)
StockRow ==
    [status : {"absent", "available", "committed", "transferred"}, batch : Batches, holder : Orgs,
     grams : Nat \ {0}, buyer : Orgs \cup {"none"}, parties : SUBSET Orgs]

ASSUME RecallAssumption ==
    /\ Takers \subseteq Orgs /\ Authorities \subseteq Orgs
    /\ LotBatch \in [Lots -> Batches \cup {"none"}]
    /\ LotOwner \in [Lots -> Orgs]
    /\ SeedChoices \subseteq SUBSET [lot : Lots, grams : Nat]
    /\ Stock \in [Holdings -> StockRow]
    /\ \A h \in Holdings : Stock[h].status = "committed" => Stock[h].buyer \in Stock[h].parties

VARIABLES
    genealogy,      \* lot_genealogy_edges; nothing in the program writes it
    notice,         \* recall_notices with its affected lots and batches
    held,           \* recall_safety_holds on holdings not released
    heldLots,       \* recall_safety_holds on lots not released
    participants,   \* recall_participants: pending or acknowledged
    recovery,       \* recall_recovery_records
    evidence,       \* the resolution evidence: its row and its bytes
    request,        \* a resolution request between preflight and transaction
    stock           \* batch_holdings, with the parties of their contracts

vars == <<genealogy, notice, held, heldLots, participants, recovery, evidence, request, stock>>

response == <<genealogy, notice, held, heldLots, participants, recovery>>

NoNotice == [status |-> "none", issuer |-> "none", suspects |-> {}, lots |-> {},
             batches |-> {}]
NoRecord == [none |-> 0]
Kinds    == {"quarantined", "returned", "destroyed", "corrected", "released"}

Recorded(record) == MapThenSumSet(LAMBDA k : record[k], Kinds)
Disposed(record) == record # NoRecord /\ (record["returned"] > 0 \/ record["destroyed"] > 0)

\* The stock a batch still has; what was transferred away whole is history.
Current(h) == stock[h].status \in {"available", "committed"}

-----------------------------------------------------------------------------
(***************************************************************************)
(* activeBatchRecallSql.  AND binds closer than OR: holds and disposals    *)
(* count whatever the status of their recall.                              *)
(***************************************************************************)
HeldWhileActive(b) ==
    \E r \in Recalls : notice[r].status = "active" /\ b \in notice[r].batches

Held(b) ==
    \E r \in Recalls :
        \/ /\ notice[r].status = "active"
           /\ b \in notice[r].batches \/ \E l \in notice[r].lots : LotBatch[l] = b
        \/ \E h \in held[r] : stock[h].batch = b
        \/ \E h \in Holdings : Disposed(recovery[r][h]) /\ stock[h].batch = b

\* accessibleTraceLotIds
Connected(org, l) ==
    \/ LotOwner[l] = org
    \/ \E h \in Holdings : /\ stock[h].status # "absent" /\ stock[h].batch = LotBatch[l]
                           /\ stock[h].holder = org \/ org \in stock[h].parties

AffectedHolders(batches, lots) ==
    {LotOwner[l] : l \in lots} \cup
    {stock[h].holder : h \in {x \in Holdings : stock[x].status # "absent"
                                             /\ stock[x].batch \in batches}}

\* persistRecallParticipants.  Distributions name the buyers of contracts.
Affected(batches, lots) ==
    {LotOwner[l] : l \in lots} \cup
    UNION {{stock[h].holder} \cup stock[h].parties :
             h \in {x \in Holdings : stock[x].status # "absent" /\ stock[x].batch \in batches}}

\* Production lots belong to no batch.
affectedBatchIds(lots) == {LotBatch[l] : l \in lots} \ {"none"}

activateRecall(r, org, seeds) ==
    LET roots   == {seed.lot : seed \in seeds}
        graph   == loadTraceGraph(genealogy, roots)
        lots    == impactedLots(graph, seeds)
        batches == affectedBatchIds(lots)
    IN  /\ notice[r].status = "none"
        /\ ValidSeeds(graph, seeds)
        /\ org \in Authorities \/ \A seed \in seeds : Connected(org, seed.lot)
        /\ GraphComplete(genealogy, roots) /\ TraceComplete(graph, seeds)
        /\ notice' = [notice EXCEPT ![r] =
                        [status |-> "active", issuer |-> org,
                         suspects |-> roots,
                         lots |-> lots, batches |-> batches]]
        /\ heldLots' = [heldLots EXCEPT ![r] = lots]
        /\ held' = [held EXCEPT ![r] =
                      {h \in Holdings : stock[h].status # "absent" /\ stock[h].batch \in batches}]
        /\ participants' = [participants EXCEPT ![r] =
                              [o \in Orgs |->
                                 IF o = org THEN "acknowledged"
                                 ELSE IF o \in Affected(batches, lots) THEN "pending"
                                 ELSE "none"]]
        /\ UNCHANGED <<genealogy, recovery, evidence, request, stock>>

acknowledgeRecall(r, org) ==
    /\ notice[r].status = "active"
    /\ participants[r][org] = "pending"
    /\ participants' = [participants EXCEPT ![r][org] = "acknowledged"]
    /\ UNCHANGED <<genealogy, notice, held, heldLots, recovery, evidence, request, stock>>

\* By the holder; the record replaces an earlier one.
recordRecallRecovery(r, h, record) ==
    /\ notice[r].status = "active"
    /\ h \in held[r] /\ stock[h].status # "transferred"
    /\ Recorded(record) <= stock[h].grams
    /\ recovery' = [recovery EXCEPT ![r][h] = record]
    /\ UNCHANGED <<genealogy, notice, held, heldLots, participants, evidence, request, stock>>

-----------------------------------------------------------------------------
(***************************************************************************)
(* Resolution (response.ts, services/evidenceAvailability.ts).  Outside    *)
(* any transaction preflightEvidence reads the evidence rows and asks the  *)
(* storage for their bytes; the transaction reads the rows again and       *)
(* accepts only those whose fingerprint is the one the bytes were found    *)
(* under.                                                                  *)
(***************************************************************************)
NoRequest == [phase |-> "idle"]

\* loadResolutionCandidates
preflightEvidence(r) ==
    /\ request[r] = NoRequest
    /\ notice[r].status = "active"
    /\ evidence[r].row = "clean"
    /\ request' = [request EXCEPT ![r] = [phase |-> "probing", row |-> evidence[r].row]]
    /\ UNCHANGED <<response, evidence, stock>>

\* evidenceStorage().exists; an error or a timeout ends the request.
probeEvidence(r) ==
    /\ request[r].phase = "probing"
    /\ request' = [request EXCEPT ![r] = IF evidence[r].stored
                                         THEN [phase |-> "present", row |-> request[r].row]
                                         ELSE NoRequest]
    /\ UNCHANGED <<response, evidence, stock>>

abandonRequest(r) ==
    /\ request[r] # NoRequest
    /\ request' = [request EXCEPT ![r] = NoRequest]
    /\ UNCHANGED <<response, evidence, stock>>

ProofAvailableAsProbed(r) ==
    request[r].phase = "present"

\* lockResolutionProof and available(row)
ProofAvailable(r) ==
    /\ request[r].phase = "present"
    /\ evidence[r].row = "clean" /\ evidence[r].row = request[r].row

AccountedFor(r, h) ==
    /\ recovery[r][h] # NoRecord
    /\ recovery[r][h]["quarantined"] = 0
    /\ Recorded(recovery[r][h]) = stock[h].grams

RetainedNone(r) ==
    {}

\* What releaseAccountedHoldingHolds leaves held.
Retained(r) ==
    {h \in held[r] :
        /\ stock[h].status # "transferred" /\ stock[h].grams # 0
        /\ recovery[r][h] = NoRecord \/ Disposed(recovery[r][h])
             \/ recovery[r][h]["quarantined"] # 0}

resolveRecallResponse(r) ==
    /\ notice[r].status = "active"
    /\ ProofAvailable(r)
    /\ \A o \in Orgs : participants[r][o] # "pending"
    /\ \A h \in held[r] : stock[h].status # "transferred" /\ stock[h].grams > 0
                             => AccountedFor(r, h)
    /\ held' = [held EXCEPT ![r] = Retained(r)]
    /\ heldLots' = [heldLots EXCEPT ![r] =
                      {l \in @ : \E h \in Retained(r) : stock[h].batch = LotBatch[l]}]
    /\ notice' = [notice EXCEPT ![r].status = "resolved"]
    /\ request' = [request EXCEPT ![r] = NoRequest]
    /\ UNCHANGED <<genealogy, participants, recovery, evidence, stock>>

\* Evidence for the recall is uploaded, reviewed, and cleaned up after a replacement;
\* its row is marked before its bytes are deleted (EvidenceUpload).
EvidenceStep(r) ==
    /\ notice[r].status = "active"
    /\ \/ /\ evidence[r].row = "none"
          /\ evidence' = [evidence EXCEPT ![r] = [row |-> "clean", stored |-> TRUE]]
       \/ /\ evidence[r].row = "clean"
          /\ evidence' = [evidence EXCEPT ![r].row = "superseded"]
       \/ /\ evidence[r].row = "superseded" /\ evidence[r].stored
          /\ evidence' = [evidence EXCEPT ![r].stored = FALSE]
    /\ UNCHANGED <<response, request, stock>>

-----------------------------------------------------------------------------
(***************************************************************************)
(* Stock.  Settlement is the one step that does not ask Held.              *)
(***************************************************************************)
acceptTransfer(h, new, to, grams) ==
    /\ stock[h].status = "available" /\ stock[new].status = "absent"
    /\ to # stock[h].holder
    /\ grams <= stock[h].grams
    /\ ~Held(stock[h].batch)
    /\ stock' = [stock EXCEPT
                   ![h] = IF grams = stock[h].grams THEN [@ EXCEPT !.status = "transferred"]
                          ELSE [@ EXCEPT !.grams = stock[h].grams - grams],
                   ![new] = [status |-> "available", batch |-> stock[h].batch, holder |-> to,
                             grams |-> grams, buyer |-> "none", parties |-> {}]]
    /\ UNCHANGED <<response, evidence, request>>

acceptOffer(h, buyer) ==
    /\ stock[h].status = "available" /\ buyer # stock[h].holder
    /\ ~Held(stock[h].batch)
    /\ stock' = [stock EXCEPT ![h].status = "committed", ![h].buyer = buyer,
                              ![h].parties = @ \cup {stock[h].holder, buyer}]
    /\ UNCHANGED <<response, evidence, request>>

approveCancellation(h) ==
    /\ stock[h].status = "committed"
    /\ ~Held(stock[h].batch)
    /\ stock' = [stock EXCEPT ![h].status = "available", ![h].buyer = "none"]
    /\ UNCHANGED <<response, evidence, request>>

completeTradeIfReady(h) ==
    /\ stock[h].status = "committed"
    /\ stock' = [stock EXCEPT ![h].status = "available", ![h].holder = stock[h].buyer,
                              ![h].buyer = "none"]
    /\ UNCHANGED <<response, evidence, request>>

-----------------------------------------------------------------------------
Init ==
    /\ genealogy \in Genealogies
    /\ notice = [r \in Recalls |-> NoNotice]
    /\ held = [r \in Recalls |-> {}]
    /\ heldLots = [r \in Recalls |-> {}]
    /\ participants = [r \in Recalls |-> [o \in Orgs |-> "none"]]
    /\ recovery = [r \in Recalls |-> [h \in Holdings |-> NoRecord]]
    /\ evidence = [r \in Recalls |-> [row |-> "none", stored |-> FALSE]]
    /\ request = [r \in Recalls |-> NoRequest]
    /\ stock = Stock

RecallStep(r) ==
    \/ \E org \in Orgs, seeds \in SeedChoices : activateRecall(r, org, seeds)
    \/ \E org \in Orgs : acknowledgeRecall(r, org)
    \/ \E h \in Holdings, record \in Outcomes : recordRecallRecovery(r, h, record)
    \/ preflightEvidence(r) \/ probeEvidence(r) \/ abandonRequest(r)
    \/ resolveRecallResponse(r)
    \/ EvidenceStep(r)

StockStep(h) ==
    \/ \E new \in Holdings, to \in Takers, grams \in 1..stock[h].grams :
         acceptTransfer(h, new, to, grams)
    \/ \E org \in Takers : acceptOffer(h, org)
    \/ approveCancellation(h)
    \/ completeTradeIfReady(h)

Next == (\E r \in Recalls : RecallStep(r)) \/ (\E h \in Holdings : StockStep(h))

Spec == Init /\ [][Next]_vars

-----------------------------------------------------------------------------
TypeOK ==
    /\ genealogy \in Genealogies
    /\ notice \in [Recalls -> [status : {"none", "active", "resolved"},
                               issuer : Orgs \cup {"none"}, suspects : SUBSET Lots,
                               lots : SUBSET Lots, batches : SUBSET Batches]]
    /\ held \in [Recalls -> SUBSET Holdings]
    /\ heldLots \in [Recalls -> SUBSET Lots]
    /\ participants \in [Recalls -> [Orgs -> {"none", "pending", "acknowledged"}]]
    /\ \A r \in Recalls : \A h \in Holdings : recovery[r][h] \in Outcomes \cup {NoRecord}
    /\ \A h \in Holdings : stock[h].status \in {"absent", "available", "committed", "transferred"}

\* What reconcileRecallSafety reports never happens: while a recall is active all stock
\* of its batches, wherever it went, and all its lots are held, and stock recorded as
\* returned or destroyed stays held after the recall.
SafetyReconciles ==
    \A r \in Recalls :
        /\ notice[r].status = "active" =>
             /\ \A h \in Holdings :
                  stock[h].status # "absent" /\ stock[h].batch \in notice[r].batches
                      => h \in held[r]
             /\ notice[r].lots \subseteq heldLots[r]
        /\ notice[r].status = "resolved" =>
             \A h \in Holdings : Disposed(recovery[r][h]) => h \in held[r]

\* A recall that becomes active covers the suspect lots and exactly those that more than
\* a milligram of the suspect material reaches along some route of declared allocations,
\* with more than a milligram at every lot on the way: neither loadTraceGraph nor
\* calculateTraceForward drops one of them, adds another, or lets the order of its queue
\* decide.  What reaches a lot by several routes is not added up: a lot may be left out
\* although its contributions together are more.  calculateTraceBack, asked about any lot,
\* finds the lots it draws on under the same condition.  That is claimed of recalls of one
\* suspect lot, where no lot gave more than it had: none is full before the last route.
ScopeIsExact ==
    [][\A r \in Recalls :
         notice[r].status = "none" /\ notice'[r].status = "active" =>
             /\ \A seeds \in SeedChoices :
                  Cardinality(seeds) = 1 /\ activateRecall(r, notice'[r].issuer, seeds)
                      => notice'[r].lots = ReachedFrom(genealogy, seeds)
             /\ \A l \in Lots : tracedLots(genealogy, l) = DrawnFrom(genealogy, l)]_vars

\* When a recall is resolved, all stock of the affected batches is accounted for, the
\* stock that came to its holder after the activation included, and every organization
\* that holds some has acknowledged the notice.
ResolutionCoversEveryone ==
    [][\A r \in Recalls :
         notice[r].status = "active" /\ notice'[r].status = "resolved" =>
             \A h \in Holdings :
                 Current(h) /\ stock[h].batch \in notice[r].batches =>
                     /\ AccountedFor(r, h)
                     /\ participants[r][stock[h].holder] = "acknowledged"]_vars

\* A recall is resolved only on evidence that is still valid and whose bytes still exist
\* when the transaction commits, although they were looked for before it began.
ResolvedOnStoredEvidence ==
    [][\A r \in Recalls :
         notice[r].status = "active" /\ notice'[r].status = "resolved" =>
             evidence[r] = [row |-> "clean", stored |-> TRUE]]_vars

\* Once any of a batch was returned or destroyed, none of it is offered or handed on
\* again, whichever of several overlapping recalls were resolved since.
DisposedNeverTraded ==
    [][\A h \in Holdings :
         stock[h].status = "available" /\ stock'[h].status \in {"committed", "transferred"} =>
             \A r \in Recalls, x \in Holdings :
                 Disposed(recovery[r][x]) => stock[x].batch # stock[h].batch]_vars
=============================================================================
