--------------------------- MODULE EvidenceProofs ---------------------------
(***************************************************************************)
(* Theorems about EvidenceUpload for any finite sets of intents, legacy    *)
(* evidence and workers, any quota, and any bound on attempts, crashes and *)
(* operator retries.                                                       *)
(***************************************************************************)
EXTENDS EvidenceUpload, FiniteSetTheorems, TLAPS

-----------------------------------------------------------------------------
(***************************************************************************)
(* The inductive invariant.                                                *)
(***************************************************************************)
\* Only completion gives an upload evidence, and only the final object has any.
UploadEvidence ==
    \A i \in Intents : /\ evidence[quarantineKey(i)] = "none"
                       /\ evidence[finalKey(i)] \in {"none", "clean"}

\* An object is registered once: the quarantine object with the intent, the final object
\* when the request reserves it.
RegisteredOnce ==
    \A i \in Intents :
        /\ intent[i] = "none" => upload[i] = "idle" /\ row[quarantineKey(i)].state = "none"
        /\ upload[i] \in {"idle", "put", "mark", "scan", "reserve"} => row[finalKey(i)].state = "none"

\* What a worker has claimed was given up for good, and what it deletes has no live reference.
Open == {"pending", "processing", "dead"}
GivenUp == Open \cup {"done"}
ClaimedIsGivenUp ==
    \A w \in Workers :
        /\ pc[w] # "ready" => job[w] \in Objects /\ row[job[w]].state \in GivenUp
        /\ pc[w] = "deleting" => evidence[job[w]] \in {"none", "infected"}
        /\ pc[w] = "deleted" => job[w] \notin stored \ late

\* A request that goes on has no write pending, has copied, and then removed, the bytes.
RequestKnows ==
    \A i \in Intents :
        /\ upload[i] \notin {"fail", "ended"} => quarantineKey(i) \notin inflight
        /\ upload[i] = "complete" => quarantineKey(i) \notin stored
        /\ upload[i] \in {"remove", "complete"} /\ row[finalKey(i)].state = "held"
             => finalKey(i) \in stored

\* What the quota counts, once each; everything stored in time is counted.
Counted == Kept \cup Charged
StoredIsCounted == stored \ late \subseteq Counted
CountedFits == Cardinality(Counted) <= Quota

EvidenceInv ==
    /\ TypeOK /\ UploadEvidence /\ RegisteredOnce /\ EvidenceMatchesIntent
    /\ ClaimedIsGivenUp /\ RequestKnows /\ CleanEvidenceIsStored
    /\ StoredIsCounted /\ CountedFits

-----------------------------------------------------------------------------
(* Keys and rows.                                                          *)

LegacyObjects == {<<"legacy", e>> : e \in Legacy}

\* The keys of an upload are its own, and those of legacy evidence are none of them.
LEMMA KeysApart ==
    /\ \A i \in Intents : quarantineKey(i) \in Objects /\ finalKey(i) \in Objects
    /\ \A i, j \in Intents :
          /\ quarantineKey(i) # finalKey(j)
          /\ quarantineKey(i) = quarantineKey(j) => i = j
          /\ finalKey(i) = finalKey(j) => i = j
    /\ \A i \in Intents : quarantineKey(i) \notin LegacyObjects /\ finalKey(i) \notin LegacyObjects
    /\ LegacyObjects \subseteq Objects
    /\ NoObject \notin Objects
BY DEF quarantineKey, finalKey, Objects, LegacyObjects, NoObject

\* A finite set has a finite image, which is no larger.
LEMMA ImageFinite ==
    ASSUME NEW S, IsFiniteSet(S), NEW T, NEW f \in [S -> T], \A t \in T : \E x \in S : f[x] = t
    PROVE  IsFiniteSet(T) /\ Cardinality(T) <= Cardinality(S)
<1>1. f \in Surjection(S, T)
    BY DEF Surjection
<1>. QED
    BY <1>1, FS_Surjection

\* There are finitely many objects, and no more legacy ones than legacy evidence.
LEMMA ObjectsFinite ==
    IsFiniteSet(Objects) /\ IsFiniteSet(LegacyObjects) /\ Cardinality(LegacyObjects) <= Cardinality(Legacy)
<1>. DEFINE Q == {quarantineKey(i) : i \in Intents}
            F == {finalKey(i) : i \in Intents}
<1>1. IsFiniteSet(Q)
    <2>1. [i \in Intents |-> quarantineKey(i)] \in [Intents -> Q]
        OBVIOUS
    <2>2. \A t \in Q : \E x \in Intents : [i \in Intents |-> quarantineKey(i)][x] = t
        OBVIOUS
    <2>. QED
        BY <2>1, <2>2, ImageFinite, EvidenceAssumption
<1>2. IsFiniteSet(F)
    <2>1. [i \in Intents |-> finalKey(i)] \in [Intents -> F]
        OBVIOUS
    <2>2. \A t \in F : \E x \in Intents : [i \in Intents |-> finalKey(i)][x] = t
        OBVIOUS
    <2>. QED
        BY <2>1, <2>2, ImageFinite, EvidenceAssumption
<1>3. IsFiniteSet(LegacyObjects) /\ Cardinality(LegacyObjects) <= Cardinality(Legacy)
    <2>. DEFINE f == [e \in Legacy |-> <<"legacy", e>>]
    <2>1. f \in [Legacy -> LegacyObjects]
        BY DEF LegacyObjects
    <2>2. \A t \in LegacyObjects : \E x \in Legacy : f[x] = t
        BY DEF LegacyObjects
    <2>. HIDE DEF f
    <2>. QED
        BY <2>1, <2>2, ImageFinite, EvidenceAssumption
<1>4. IsFiniteSet(Q \cup F)
    BY <1>1, <1>2, FS_Union
<1>5. IsFiniteSet((Q \cup F) \cup LegacyObjects)
    BY <1>3, <1>4, FS_Union
<1>6. Objects = (Q \cup F) \cup LegacyObjects
    BY DEF Objects, LegacyObjects
<1>. QED
    BY <1>3, <1>5, <1>6

\* What becomes of a ledger row.
LEMMA RowStates ==
    ASSUME NEW r \in LedgerRows
    PROVE  /\ Unleased(r) \in LedgerRows /\ Unleased(r).state = r.state
           /\ Queued(r) \in LedgerRows /\ Queued(r).state = "pending"
           /\ Dead(r) \in LedgerRows /\ Dead(r).state = "dead"
           /\ Retried(r) \in LedgerRows /\ Retried(r).state \in {"dead", "pending"}
           /\ Infected(r) \in LedgerRows
           /\ r.state \in GivenUp => Infected(r).state = r.state
           /\ r.state \notin GivenUp => Infected(r).state = "pending"
<1>1. Unleased(r) \in LedgerRows /\ Unleased(r).state = r.state
    BY DEF Unleased, LedgerRows
<1>2. \A s \in LedgerRows :
        /\ [s EXCEPT !.state = "pending", !.due = TRUE] \in LedgerRows
        /\ [s EXCEPT !.state = "pending", !.due = TRUE].state = "pending"
        /\ [s EXCEPT !.state = "pending", !.due = FALSE] \in LedgerRows
        /\ [s EXCEPT !.state = "pending", !.due = FALSE].state = "pending"
        /\ [s EXCEPT !.state = "dead"] \in LedgerRows /\ [s EXCEPT !.state = "dead"].state = "dead"
        /\ [s EXCEPT !.infected = TRUE] \in LedgerRows
        /\ [s EXCEPT !.infected = TRUE].state = s.state
    BY DEF LedgerRows
<1>3. Queued(r) \in LedgerRows /\ Queued(r).state = "pending"
    BY <1>1, <1>2 DEF Queued
<1>4. Dead(r) \in LedgerRows /\ Dead(r).state = "dead"
    BY <1>1, <1>2 DEF Dead
<1>5. Retried(r) \in LedgerRows /\ Retried(r).state \in {"dead", "pending"}
    BY <1>1, <1>2, <1>4 DEF Retried
<1>6. r.state \in {"none", "held", "retained"} \cup GivenUp
    BY DEF LedgerRows, GivenUp, Open
<1>7. CASE r.state \in {"none", "held", "retained"}
    BY <1>1, <1>2, <1>3, <1>4, <1>5, <1>7 DEF Infected, GivenUp, Open
<1>8. CASE r.state = "pending"
    BY <1>1, <1>2, <1>3, <1>4, <1>5, <1>8 DEF Infected, GivenUp, Open
<1>9. CASE r.state \in GivenUp \ {"pending"}
    BY <1>1, <1>2, <1>3, <1>4, <1>5, <1>9 DEF Infected, GivenUp, Open
<1>. QED
    BY <1>6, <1>7, <1>8, <1>9

-----------------------------------------------------------------------------
(***************************************************************************)
(* What a step does to the ledger: it registers an object, queues or       *)
(* retains those of an intent, handles or finishes with one that was given *)
(* up, gives one up for an infection, or leaves all rows alone.            *)
(***************************************************************************)
RowsTyped == row' \in [Objects -> LedgerRows]

Registers(o) ==
    /\ RowsTyped /\ row[o].state = "none" /\ row'[o].state = "held"
    /\ \A x \in Objects \ {o} : row'[x] = row[x]

Queues(i) ==
    /\ RowsTyped
    /\ \A x \in Objects : IF x \in HeldBy(i) THEN row'[x].state = "pending" ELSE row'[x] = row[x]

Retains(i) ==
    /\ RowsTyped
    /\ row[finalKey(i)].state = "held" /\ row'[finalKey(i)].state = "retained"
    /\ row'[quarantineKey(i)].state =
         (IF row[quarantineKey(i)].state = "held" THEN "done" ELSE row[quarantineKey(i)].state)
    /\ \A x \in Objects \ {quarantineKey(i), finalKey(i)} : row'[x] = row[x]

Handles(o) ==
    /\ RowsTyped /\ row[o].state \in Open /\ row'[o].state \in Open
    /\ \A x \in Objects \ {o} : row'[x] = row[x]

Finishes(o) ==
    /\ RowsTyped /\ row[o].state \in Open /\ row'[o].state = "done"
    /\ \A x \in Objects \ {o} : row'[x] = row[x]

Condemns(o) ==
    /\ RowsTyped
    /\ row[o].state \in GivenUp => row'[o].state = row[o].state
    /\ row[o].state \notin GivenUp => row'[o].state = "pending"
    /\ \A x \in Objects \ {o} : row'[x] = row[x]

\* The blank row is a row, and registering makes it a held one.
LEMMA BlankRow ==
    /\ NoRow \in LedgerRows /\ NoRow.state = "none"
    /\ [NoRow EXCEPT !.state = "held", !.due = TRUE] \in LedgerRows
    /\ [NoRow EXCEPT !.state = "held", !.due = TRUE].state = "held"
<1>1. NoRow \in LedgerRows /\ NoRow.state = "none"
    BY EvidenceAssumption DEF NoRow, LedgerRows
<1>2. \A r \in LedgerRows : /\ [r EXCEPT !.state = "held", !.due = TRUE] \in LedgerRows
                            /\ [r EXCEPT !.state = "held", !.due = TRUE].state = "held"
    BY DEF LedgerRows
<1>. QED
    BY <1>1, <1>2

\* Objects are registered by the intent and by its request, each for the first time.
LEMMA Registering ==
    ASSUME TypeOK, RegisteredOnce, NEW i \in Intents
    PROVE  /\ createUploadIntent(i) => Registers(quarantineKey(i))
           /\ reserveFinal(i) => (HasCapacity /\ Registers(finalKey(i))) \/ row' = row
<1>1. ASSUME NEW o \in Objects, row[o].state = "none", registerObject(o)
      PROVE  Registers(o)
    BY <1>1, BlankRow DEF registerObject, Registers, RowsTyped, TypeOK
<1>2. createUploadIntent(i) => row[quarantineKey(i)].state = "none"
    BY DEF createUploadIntent, RegisteredOnce
<1>3. reserveFinal(i) => row[finalKey(i)].state = "none"
    BY DEF reserveFinal, At, RegisteredOnce
<1>. QED
    BY <1>1, <1>2, <1>3, KeysApart DEF createUploadIntent, reserveFinal

\* An intent that ends without evidence gives its held objects up; so does the sweep,
\* since the object of a completed intent is retained already.
LEMMA Queueing ==
    ASSUME TypeOK, EvidenceMatchesIntent, NEW i \in Intents
    PROVE  rejectIntent(i) \/ failUpload(i) \/ sweepStaleIntents(i) => Queues(i)
<1>1. queueIntentObjects(i) => Queues(i)
    BY RowStates DEF queueIntentObjects, Queues, RowsTyped, TypeOK
<1>2. sweepStaleIntents(i) => queueIntentObjects(i)
    <2>1. ASSUME intent[i] = "completed"
          PROVE  finalKey(i) \notin HeldBy(i)
        BY <2>1 DEF EvidenceMatchesIntent, HeldBy
    <2>. QED
        BY <2>1 DEF sweepStaleIntents, queueIntentObjects
<1>. QED
    BY <1>1, <1>2 DEF rejectIntent, failUpload

\* Completion retains the final object and is done with the quarantine object.
LEMMA Retaining ==
    ASSUME TypeOK, NEW i \in Intents, Completable(i), RetainUpload(i)
    PROVE  Retains(i)
<1>1. \A r \in LedgerRows : /\ [r EXCEPT !.state = "retained"] \in LedgerRows
                            /\ [r EXCEPT !.state = "retained"].state = "retained"
                            /\ [r EXCEPT !.state = "done"] \in LedgerRows
                            /\ [r EXCEPT !.state = "done"].state = "done"
    BY DEF LedgerRows
<1>2. /\ row \in [Objects -> LedgerRows]
      /\ quarantineKey(i) # finalKey(i) /\ quarantineKey(i) \in Objects /\ finalKey(i) \in Objects
      /\ \A x \in Objects : x \in HeldBy(i) <=>
            x \in {quarantineKey(i), finalKey(i)} /\ row[x].state = "held"
    BY KeysApart DEF TypeOK, HeldBy, ObjectsOf
<1>3. \A x \in Objects : row'[x] =
          IF x = finalKey(i) THEN [row[x] EXCEPT !.state = "retained"]
          ELSE IF x = quarantineKey(i) /\ row[x].state = "held" THEN [row[x] EXCEPT !.state = "done"]
          ELSE row[x]
    <2>. TAKE x \in Objects
    <2>1. CASE x = finalKey(i)
        BY <1>2, <2>1 DEF RetainUpload
    <2>2. CASE x # finalKey(i) /\ x \in HeldBy(i)
        BY <1>2, <2>2 DEF RetainUpload
    <2>3. CASE x # finalKey(i) /\ x \notin HeldBy(i)
        BY <1>2, <2>3 DEF RetainUpload
    <2>. QED
        BY <2>1, <2>2, <2>3
<1>4. RowsTyped
    <2>. DEFINE E(x) == CASE x = finalKey(i) -> [row[x] EXCEPT !.state = "retained"]
                          [] x \in HeldBy(i) \ {finalKey(i)} -> [row[x] EXCEPT !.state = "done"]
                          [] OTHER -> row[x]
    <2>1. row' = [x \in Objects |-> E(x)]
        BY DEF RetainUpload
    <2>2. \A x \in Objects : row'[x] \in LedgerRows
        <3>. TAKE x \in Objects
        <3>1. row[x] \in LedgerRows
            BY <1>2
        <3>. QED
            BY <1>1, <1>3, <3>1
    <2>. HIDE DEF E
    <2>3. \A x \in Objects : E(x) \in LedgerRows
        BY <2>1, <2>2
    <2>. QED
        BY <2>1, <2>3 DEF RowsTyped
<1>5. row[finalKey(i)].state = "held" /\ row[finalKey(i)] \in LedgerRows /\ row[quarantineKey(i)] \in LedgerRows
    BY <1>2 DEF Completable
<1>6. /\ row'[finalKey(i)].state = "retained"
      /\ row'[quarantineKey(i)].state =
           (IF row[quarantineKey(i)].state = "held" THEN "done" ELSE row[quarantineKey(i)].state)
    <2>1. row'[finalKey(i)] = [row[finalKey(i)] EXCEPT !.state = "retained"]
        BY <1>2, <1>3
    <2>2. row'[quarantineKey(i)] =
             IF row[quarantineKey(i)].state = "held" THEN [row[quarantineKey(i)] EXCEPT !.state = "done"]
             ELSE row[quarantineKey(i)]
        BY <1>2, <1>3
    <2>3. CASE row[quarantineKey(i)].state = "held"
        BY <1>1, <1>5, <2>1, <2>2, <2>3
    <2>4. CASE row[quarantineKey(i)].state # "held"
        BY <1>1, <1>5, <2>1, <2>2, <2>4
    <2>. QED
        BY <2>3, <2>4
<1>7. \A x \in Objects \ {quarantineKey(i), finalKey(i)} : row'[x] = row[x]
    BY <1>3
<1>. QED
    BY <1>4, <1>5, <1>6, <1>7 DEF Retains

\* The cleanup of an object given up leaves it given up.
LEMMA Handling ==
    ASSUME TypeOK, ClaimedIsGivenUp
    PROVE  /\ \A o \in Objects : expireExhaustedClaims(o) \/ retryCleanup(o) \/ leaseExpires(o)
                                   \/ backoffEnds(o) => Handles(o)
           /\ \A w \in Workers, o \in Objects : claimJobs(w, o) => Handles(o)
           /\ \A w \in Workers : checkReference(w) \/ retryOrDead(w) => Handles(job[w]) \/ row' = row
           /\ \A w \in Workers : recordDeleted(w) => Finishes(job[w]) \/ row' = row
<1>1. ASSUME NEW o \in Objects, row[o].state \in Open, NEW r \in LedgerRows, row' = [row EXCEPT ![o] = r]
      PROVE  (r.state \in Open => Handles(o)) /\ (r.state = "done" => Finishes(o))
    BY <1>1 DEF Handles, Finishes, RowsTyped, TypeOK
<1>2. \A o \in Objects : row[o] \in LedgerRows
    BY DEF TypeOK
<1>3. ASSUME NEW o \in Objects, expireExhaustedClaims(o)
      PROVE  Handles(o)
    BY <1>1, <1>2, <1>3, RowStates DEF expireExhaustedClaims, Open
<1>4. ASSUME NEW o \in Objects, retryCleanup(o)
      PROVE  Handles(o)
    <2>1. \A r \in LedgerRows : /\ [r EXCEPT !.attempts = 0] \in LedgerRows
                                /\ [r EXCEPT !.attempts = 0].state = r.state
        BY EvidenceAssumption DEF LedgerRows
    <2>. DEFINE r == [Queued(row[o]) EXCEPT !.attempts = 0]
    <2>2. r \in LedgerRows /\ r.state = "pending"
        BY <1>2, <2>1, RowStates
    <2>3. row' = [row EXCEPT ![o] = r] /\ row[o].state = "dead"
        BY <1>4 DEF retryCleanup
    <2>. HIDE DEF r
    <2>. QED
        BY <1>1, <2>2, <2>3 DEF Open
<1>5. ASSUME NEW o \in Objects, leaseExpires(o) \/ backoffEnds(o)
      PROVE  Handles(o)
    <2>1. \A r \in LedgerRows : /\ [r EXCEPT !.expired = TRUE] \in LedgerRows
                                /\ [r EXCEPT !.expired = TRUE].state = r.state
                                /\ [r EXCEPT !.due = TRUE] \in LedgerRows
                                /\ [r EXCEPT !.due = TRUE].state = r.state
        BY DEF LedgerRows
    <2>. QED
        BY <1>1, <1>2, <1>5, <2>1 DEF leaseExpires, backoffEnds, Open
<1>6. ASSUME NEW w \in Workers, NEW o \in Objects, claimJobs(w, o)
      PROVE  Handles(o)
    <2>1. row[o].attempts < MaxAttempts /\ row[o].state \in Open
        BY <1>6 DEF claimJobs, Claimable, Open
    <2>2. \A r \in LedgerRows : r.attempts < MaxAttempts =>
              Leased(r, w) \in LedgerRows /\ Leased(r, w).state = "processing"
        <3>. SUFFICES ASSUME NEW r \in LedgerRows, r.attempts < MaxAttempts
                      PROVE  Leased(r, w) \in LedgerRows /\ Leased(r, w).state = "processing"
            OBVIOUS
        <3>1. r.attempts + 1 \in 0..MaxAttempts
            BY EvidenceAssumption DEF LedgerRows
        <3>. DEFINE a == r.attempts + 1
        <3>2. Leased(r, w) = [r EXCEPT !.state = "processing", !.lease = w, !.expired = FALSE, !.attempts = a]
            BY DEF Leased, LedgerRows
        <3>. HIDE DEF a
        <3>3. [r EXCEPT !.state = "processing", !.lease = w, !.expired = FALSE, !.attempts = a] \in LedgerRows
            BY <3>1 DEF LedgerRows, a
        <3>4. [r EXCEPT !.state = "processing", !.lease = w, !.expired = FALSE, !.attempts = a].state = "processing"
            BY DEF LedgerRows
        <3>. QED
            BY <3>2, <3>3, <3>4
    <2>5. Leased(row[o], w) \in LedgerRows /\ Leased(row[o], w).state = "processing"
        BY <1>2, <2>1, <2>2
    <2>6. row' = [row EXCEPT ![o] = Leased(row[o], w)]
        BY <1>6 DEF claimJobs
    <2>. QED
        BY <1>1, <2>1, <2>5, <2>6 DEF Open
<1>7. ASSUME NEW w \in Workers, pc[w] # "ready"
      PROVE  job[w] \in Objects
    BY <1>7 DEF ClaimedIsGivenUp
<1>8. ASSUME NEW w \in Workers, recordDeleted(w), row' # row
      PROVE  Finishes(job[w])
    <2>1. \A r \in LedgerRows : /\ [r EXCEPT !.state = "done"] \in LedgerRows
                                /\ [r EXCEPT !.state = "done"].state = "done"
        BY DEF LedgerRows
    <2>2. pc[w] # "ready" /\ row' = [row EXCEPT ![job[w]] =
             IF Owned(w, job[w]) THEN [Unleased(@) EXCEPT !.state = "done"] ELSE @]
        BY <1>8 DEF recordDeleted
    <2>. DEFINE r == [Unleased(row[job[w]]) EXCEPT !.state = "done"]
    <2>3. CASE Owned(w, job[w])
        <3>1. r \in LedgerRows /\ r.state = "done"
            BY <1>2, <1>7, <2>1, <2>2, RowStates
        <3>2. row' = [row EXCEPT ![job[w]] = r]
            BY <2>2, <2>3
        <3>. HIDE DEF r
        <3>. QED
            BY <1>1, <1>7, <2>2, <2>3, <3>1, <3>2 DEF Open, Owned
    <2>4. CASE ~Owned(w, job[w])
        BY <1>2, <1>7, <1>8, <2>2, <2>4 DEF TypeOK
    <2>. QED
        BY <2>3, <2>4
<1>9. ASSUME NEW w \in Workers, retryOrDead(w), row' # row
      PROVE  Handles(job[w])
    <2>2. pc[w] # "ready" /\ row' = [row EXCEPT ![job[w]] = IF Owned(w, job[w]) THEN Retried(@) ELSE @]
        BY <1>9 DEF retryOrDead
    <2>3. CASE Owned(w, job[w])
        BY <1>1, <1>2, <1>7, <2>2, <2>3, RowStates DEF Open, Owned
    <2>4. CASE ~Owned(w, job[w])
        BY <1>2, <1>7, <1>9, <2>2, <2>4 DEF TypeOK
    <2>. QED
        BY <2>3, <2>4
<1>10. ASSUME NEW w \in Workers, checkReference(w), row' # row
      PROVE  Handles(job[w])
    <2>. DEFINE r == [Dead(row[job[w]]) EXCEPT !.unsafe = TRUE]
    <2>1. pc[w] # "ready"
        BY <1>10 DEF checkReference
    <2>2. \A x \in LedgerRows : /\ [x EXCEPT !.unsafe = TRUE] \in LedgerRows
                                /\ [x EXCEPT !.unsafe = TRUE].state = x.state
        BY DEF LedgerRows
    <2>3. r \in LedgerRows /\ r.state = "dead"
        BY <1>2, <1>7, <2>1, <2>2, RowStates
    <2>4. row' = [row EXCEPT ![job[w]] = IF Owned(w, job[w]) THEN r ELSE @]
        BY <1>10 DEF checkReference
    <2>. HIDE DEF r
    <2>5. CASE Owned(w, job[w])
        BY <1>1, <1>7, <2>1, <2>3, <2>4, <2>5 DEF Open, Owned
    <2>6. CASE ~Owned(w, job[w])
        BY <1>2, <1>7, <1>10, <2>1, <2>4, <2>6 DEF TypeOK
    <2>. QED
        BY <2>5, <2>6
<1>. QED
    BY <1>3, <1>4, <1>5, <1>6, <1>8, <1>9, <1>10

\* An infected verdict gives the object up.
LEMMA Condemning ==
    ASSUME TypeOK, NEW o \in Objects, scanPendingEvidence(o)
    PROVE  \/ row' = row /\ evidence' = [evidence EXCEPT ![o] = "scan_failed"]
           \/ row' = row /\ evidence' = [evidence EXCEPT ![o] = "clean"] /\ o \in stored
           \/ Condemns(o) /\ evidence' = [evidence EXCEPT ![o] = "infected"]
<1>1. row' = [row EXCEPT ![o] = Infected(@)] => Condemns(o)
    BY RowStates DEF Condemns, RowsTyped, TypeOK
<1>. QED
    BY <1>1 DEF scanPendingEvidence

-----------------------------------------------------------------------------
(***************************************************************************)
(* What a step does to one object, one intent and one request.             *)
(***************************************************************************)
\* The request of i commits its evidence.
Completes(i) ==
    /\ upload[i] = "complete" /\ Completable(i) /\ Retains(i) /\ storage' = storage
    /\ evidence' = [evidence EXCEPT ![finalKey(i)] = "clean"]
    /\ intent' = [intent EXCEPT ![i] = "completed"]

GivesUp(i) == rejectIntent(i) \/ failUpload(i) \/ sweepStaleIntents(i)

\* x is registered, and nothing else that the quota counts changes.
IsRegistered(x) ==
    /\ row[x].state = "none" /\ row'[x].state = "held" /\ HasCapacity
    /\ \A y \in Objects \ {x} : row'[y].state = row[y].state
    /\ \E i \in Intents : \/ x = quarantineKey(i) /\ createUploadIntent(i)
                          \/ x = finalKey(i) /\ reserveFinal(i)

\* The life of a ledger row.
RowStep(x) ==
    \/ row'[x].state = row[x].state
    \/ IsRegistered(x)
    \/ /\ row[x].state = "held" /\ row'[x].state = "pending"
       /\ \E i \in Intents : x \in ObjectsOf(i) /\ GivesUp(i)
    \/ /\ row[x].state = "held"
       /\ \E i \in Intents : Completes(i) /\ \/ x = finalKey(i) /\ row'[x].state = "retained"
                                             \/ x = quarantineKey(i) /\ row'[x].state = "done"
    \/ row[x].state \in Open /\ row'[x].state \in Open
    \/ /\ row[x].state \in Open /\ row'[x].state = "done"
       /\ \E w \in Workers : x = job[w] /\ recordDeleted(w)
    \/ /\ row[x].state \notin GivenUp /\ row'[x].state = "pending"
       /\ scanPendingEvidence(x) /\ evidence' = [evidence EXCEPT ![x] = "infected"]

\* A commit is all of it, or nothing.
LEMMA Completing ==
    ASSUME TypeOK, NEW i \in Intents, completeUpload(i)
    PROVE  Completes(i) \/ UNCHANGED <<intent, evidence, row>>
<1>1. ASSUME Completable(i), RetainUpload(i)
      PROVE  Retains(i)
    BY <1>1, Retaining
<1>. QED
    BY <1>1 DEF completeUpload, Completes, At

\* The steps that leave the ledger alone.
LEMMA RowsKept ==
    ASSUME Next
    PROVE  \/ row' = row
           \/ \E i \in Intents : createUploadIntent(i) \/ reserveFinal(i) \/ GivesUp(i) \/ completeUpload(i)
           \/ \E w \in Workers : \/ \E o \in Objects : claimJobs(w, o)
                                 \/ checkReference(w) \/ recordDeleted(w) \/ retryOrDead(w)
           \/ \E o \in Objects : \/ expireExhaustedClaims(o) \/ retryCleanup(o) \/ scanPendingEvidence(o)
                                 \/ leaseExpires(o) \/ backoffEnds(o)
<1>1. ASSUME NEW i \in Intents,
             \/ expireIntent(i) \/ claimIntent(i) \/ crashUpload(i) \/ putQuarantine(i) \/ markScanning(i)
             \/ scanUpload(i) \/ databaseFails(i) \/ readQuarantine(i) \/ copyFinal(i)
             \/ removeQuarantine(i) \/ intentOverdue(i)
      PROVE  row' = row
    BY <1>1 DEF expireIntent, claimIntent, crashUpload, putQuarantine, markScanning, scanUpload,
                databaseFails, readQuarantine, copyFinal, removeQuarantine, intentOverdue
<1>2. ASSUME NEW w \in Workers, deleteObject(w) \/ crashWorker(w)
      PROVE  row' = row
    BY <1>2 DEF deleteObject, crashWorker
<1>3. ASSUME NEW o \in Objects, lateWrite(o)
      PROVE  row' = row
    BY <1>3 DEF lateWrite
<1>. QED
    BY <1>1, <1>2, <1>3 DEF Next, Request, Cleanup, Time, GivesUp

\* Every step is a step of the life of each row.
LEMMA RowSteps ==
    ASSUME TypeOK, RegisteredOnce, EvidenceMatchesIntent, ClaimedIsGivenUp, Next
    PROVE  RowsTyped /\ \A x \in Objects : RowStep(x)
<1>1. CASE row' = row
    BY <1>1 DEF RowsTyped, RowStep, TypeOK
<1>2. ASSUME NEW i \in Intents, createUploadIntent(i) \/ reserveFinal(i), row' # row
      PROVE  RowsTyped /\ \A x \in Objects : RowStep(x)
    <2>1. CASE createUploadIntent(i)
        <3>1. Registers(quarantineKey(i)) /\ HasCapacity
            BY <2>1, Registering DEF createUploadIntent
        <3>2. IsRegistered(quarantineKey(i))
            BY <2>1, <3>1 DEF Registers, IsRegistered
        <3>. QED
            BY <3>1, <3>2 DEF Registers, RowStep
    <2>2. CASE reserveFinal(i)
        <3>1. Registers(finalKey(i)) /\ HasCapacity
            BY <1>2, <2>2, Registering
        <3>2. IsRegistered(finalKey(i))
            BY <2>2, <3>1 DEF Registers, IsRegistered
        <3>. QED
            BY <3>1, <3>2 DEF Registers, RowStep
    <2>. QED
        BY <1>2, <2>1, <2>2
<1>3. ASSUME NEW i \in Intents, GivesUp(i)
      PROVE  RowsTyped /\ \A x \in Objects : RowStep(x)
    <2>1. Queues(i)
        BY <1>3, Queueing DEF GivesUp
    <2>. QED
        BY <1>3, <2>1 DEF Queues, RowStep, HeldBy
<1>4. ASSUME NEW i \in Intents, completeUpload(i), row' # row
      PROVE  RowsTyped /\ \A x \in Objects : RowStep(x)
    <2>1. Completes(i) /\ Retains(i)
        BY <1>4, Completing DEF Completes
    <2>2. row[finalKey(i)].state = "held"
        BY <2>1 DEF Retains
    <2>3. ASSUME NEW x \in Objects
          PROVE  RowStep(x)
        <3>1. CASE x = finalKey(i)
            BY <2>1, <2>2, <3>1 DEF Retains, RowStep
        <3>2. CASE x = quarantineKey(i) /\ row[x].state = "held"
            BY <2>1, <3>2 DEF Retains, RowStep
        <3>3. CASE x = quarantineKey(i) /\ row[x].state # "held"
            BY <2>1, <3>3 DEF Retains, RowStep
        <3>4. CASE x \notin {finalKey(i), quarantineKey(i)}
            BY <2>1, <3>4 DEF Retains, RowStep
        <3>. QED
            BY <3>1, <3>2, <3>3, <3>4
    <2>. QED
        BY <2>1, <2>3 DEF Retains
<1>5. ASSUME NEW o, Handles(o)
      PROVE  RowsTyped /\ \A x \in Objects : RowStep(x)
    BY <1>5 DEF Handles, RowStep
<1>6. ASSUME NEW w \in Workers, recordDeleted(w), row' # row
      PROVE  RowsTyped /\ \A x \in Objects : RowStep(x)
    <2>1. Finishes(job[w])
        BY <1>6, Handling
    <2>. QED
        BY <1>6, <2>1 DEF Finishes, RowStep
<1>7. ASSUME NEW o \in Objects, scanPendingEvidence(o), row' # row
      PROVE  RowsTyped /\ \A x \in Objects : RowStep(x)
    <2>1. Condemns(o) /\ evidence' = [evidence EXCEPT ![o] = "infected"]
        BY <1>7, Condemning
    <2>. QED
        BY <1>7, <2>1 DEF Condemns, RowStep
<1>8. ASSUME NEW w \in Workers,
             (\E o \in Objects : claimJobs(w, o)) \/ checkReference(w) \/ retryOrDead(w), row' # row
      PROVE  \E o : Handles(o)
    BY <1>8, Handling
<1>9. ASSUME NEW o \in Objects,
             expireExhaustedClaims(o) \/ retryCleanup(o) \/ leaseExpires(o) \/ backoffEnds(o)
      PROVE  Handles(o)
    BY <1>9, Handling
<1>. QED
    BY <1>1, <1>2, <1>3, <1>4, <1>5, <1>6, <1>7, <1>8, <1>9, RowsKept

\* Evidence rows change at completion and by the maintenance scan, which moves no bytes.
EvidenceStep(x) ==
    \/ evidence'[x] = evidence[x]
    \/ evidence'[x] = "clean" /\ \E i \in Intents : x = finalKey(i) /\ Completes(i)
    \/ /\ evidence[x] \in {"legacy_unscanned", "scan_failed"} /\ storage' = storage
       /\ evidence'[x] \in {"scan_failed", "infected"} \/ (evidence'[x] = "clean" /\ x \in stored)

\* No other step touches an evidence row.
LEMMA EvidenceSteps ==
    ASSUME TypeOK, Next
    PROVE  /\ evidence' \in [Objects -> {"none", "legacy_unscanned", "scan_failed", "clean", "infected"}]
           /\ \A x \in Objects : EvidenceStep(x)
<1>. DEFINE Goal == /\ evidence' \in [Objects -> {"none", "legacy_unscanned", "scan_failed", "clean", "infected"}]
                    /\ \A x \in Objects : EvidenceStep(x)
<1>1. \/ evidence' = evidence
      \/ \E i \in Intents : completeUpload(i)
      \/ \E o \in Objects : scanPendingEvidence(o)
    <2>1. ASSUME NEW i \in Intents,
                 \/ createUploadIntent(i) \/ rejectIntent(i) \/ expireIntent(i) \/ claimIntent(i)
                 \/ crashUpload(i) \/ putQuarantine(i) \/ markScanning(i) \/ scanUpload(i)
                 \/ databaseFails(i) \/ reserveFinal(i) \/ readQuarantine(i) \/ copyFinal(i)
                 \/ removeQuarantine(i) \/ failUpload(i) \/ sweepStaleIntents(i) \/ intentOverdue(i)
          PROVE  evidence' = evidence
        BY <2>1 DEF createUploadIntent, rejectIntent, expireIntent, claimIntent, crashUpload,
                    putQuarantine, markScanning, scanUpload, databaseFails, reserveFinal, readQuarantine,
                    copyFinal, removeQuarantine, failUpload, sweepStaleIntents, intentOverdue
    <2>2. ASSUME NEW w \in Workers, Cleanup(w) \/ crashWorker(w)
          PROVE  evidence' = evidence
        BY <2>2 DEF Cleanup, claimJobs, checkReference, deleteObject, recordDeleted, retryOrDead, crashWorker
    <2>3. ASSUME NEW o \in Objects,
                 \/ expireExhaustedClaims(o) \/ retryCleanup(o) \/ lateWrite(o)
                 \/ leaseExpires(o) \/ backoffEnds(o)
          PROVE  evidence' = evidence
        BY <2>3 DEF expireExhaustedClaims, retryCleanup, lateWrite, leaseExpires, backoffEnds
    <2>. QED
        BY <2>1, <2>2, <2>3 DEF Next, Request, Time
<1>2. ASSUME evidence' = evidence
      PROVE  Goal
    BY <1>2 DEF EvidenceStep, TypeOK
<1>3. ASSUME NEW i \in Intents, completeUpload(i)
      PROVE  Goal
    <2>1. CASE Completes(i)
        BY <2>1, KeysApart DEF Completes, EvidenceStep, TypeOK
    <2>. QED
        BY <1>2, <1>3, <2>1, Completing
<1>4. ASSUME NEW o \in Objects, scanPendingEvidence(o)
      PROVE  Goal
    BY <1>4 DEF scanPendingEvidence, EvidenceStep, TypeOK
<1>. QED
    BY <1>1, <1>2, <1>3, <1>4

\* An intent exists for good; only completion completes it.
IntentStep(i) ==
    /\ intent'[i] = "none" => intent[i] = "none" /\ ~createUploadIntent(i)
    /\ intent[i] = "completed" => intent'[i] = "completed"
    /\ intent'[i] = "completed" => intent[i] = "completed" \/ Completes(i)

\* A status column keeps to the statuses, and an ended intent to its end.
LEMMA IntentSteps ==
    ASSUME TypeOK, Next
    PROVE  /\ intent' \in [Intents -> {"none", "pending"} \cup Processing \cup Terminal]
           /\ overdue' \in [Intents -> BOOLEAN]
           /\ \A i \in Intents : IntentStep(i)
<1>. DEFINE Statuses == {"none", "pending"} \cup Processing \cup Terminal
            Goal == /\ intent' \in [Intents -> Statuses]
                    /\ overdue' \in [Intents -> BOOLEAN]
                    /\ \A i \in Intents : IntentStep(i)
<1>1. ASSUME NEW j \in Intents, NEW from \in {"pending"} \cup Processing,
             NEW to \in Processing \cup {"infected", "scan_failed"}, SetIntent(j, from, to)
      PROVE  Goal
    BY <1>1 DEF SetIntent, TypeOK, Processing, Terminal, createUploadIntent, IntentStep
<1>2. ASSUME NEW j \in Intents, createUploadIntent(j)
      PROVE  Goal
    BY <1>2 DEF createUploadIntent, TypeOK, Processing, Terminal, IntentStep
<1>3. ASSUME NEW j \in Intents, rejectIntent(j) \/ expireIntent(j) \/ failUpload(j) \/ sweepStaleIntents(j)
      PROVE  Goal
    BY <1>3 DEF rejectIntent, expireIntent, failUpload, sweepStaleIntents, FailedStatus, TypeOK, Processing,
                Terminal, createUploadIntent, IntentStep
<1>4. ASSUME NEW j \in Intents, claimIntent(j) \/ markScanning(j) \/ scanUpload(j)
      PROVE  Goal
    BY <1>1, <1>4 DEF claimIntent, markScanning, scanUpload, Processing
<1>5. ASSUME UNCHANGED intent, overdue' \in [Intents -> BOOLEAN]
      PROVE  Goal
    BY <1>5 DEF createUploadIntent, TypeOK, Processing, Terminal, IntentStep
<1>6. ASSUME NEW j \in Intents, completeUpload(j)
      PROVE  Goal
    <2>1. overdue' = overdue
        BY <1>6 DEF completeUpload
    <2>2. CASE Completes(j)
        BY <2>1, <2>2 DEF Completes, TypeOK, Processing, Terminal, createUploadIntent, IntentStep
    <2>. QED
        BY <1>5, <1>6, <2>1, <2>2, Completing DEF TypeOK
<1>7. ASSUME NEW j \in Intents,
             \/ crashUpload(j) \/ putQuarantine(j) \/ databaseFails(j) \/ reserveFinal(j)
             \/ readQuarantine(j) \/ copyFinal(j) \/ removeQuarantine(j) \/ intentOverdue(j)
      PROVE  UNCHANGED intent /\ overdue' \in [Intents -> BOOLEAN]
    BY <1>7 DEF crashUpload, putQuarantine, databaseFails, reserveFinal, readQuarantine,
                copyFinal, removeQuarantine, intentOverdue, TypeOK
<1>8. ASSUME NEW w \in Workers, Cleanup(w) \/ crashWorker(w)
      PROVE  UNCHANGED intent /\ overdue' \in [Intents -> BOOLEAN]
    BY <1>8 DEF Cleanup, claimJobs, checkReference, deleteObject, recordDeleted, retryOrDead, crashWorker,
                uploads, TypeOK
<1>9. ASSUME NEW o \in Objects,
             \/ expireExhaustedClaims(o) \/ retryCleanup(o) \/ scanPendingEvidence(o) \/ lateWrite(o)
             \/ leaseExpires(o) \/ backoffEnds(o)
      PROVE  UNCHANGED intent /\ overdue' \in [Intents -> BOOLEAN]
    BY <1>9 DEF expireExhaustedClaims, retryCleanup, scanPendingEvidence, lateWrite, leaseExpires, backoffEnds,
                uploads, TypeOK
<1>. HIDE DEF Goal
<1>10. Goal
    BY <1>2, <1>3, <1>4, <1>5, <1>6, <1>7, <1>8, <1>9 DEF Next, Request, Time
<1>. QED
    BY <1>10 DEF Goal

\* Where a request may be next.  Its place tells which calls went through before.
UploadStep(i) ==
    \/ upload'[i] = upload[i]
    \/ upload'[i] \in {"fail", "ended"} /\ upload[i] # "idle"
    \/ upload[i] = "idle" /\ upload'[i] = "put" /\ intent[i] = "pending"
    \/ upload[i] \in {"put", "mark", "scan"} /\ upload'[i] \in {"mark", "scan", "reserve"}
    \/ upload[i] = "reserve" /\ upload'[i] = "get"
    \/ upload[i] = "get" /\ upload'[i] = "copy"
    \/ upload[i] = "copy" /\ upload'[i] = "remove" /\ finalKey(i) \in stored'
    \/ upload[i] = "remove" /\ upload'[i] = "complete" /\ quarantineKey(i) \notin stored'

\* Nobody but the request moves it, and reserving leaves its place.
LEMMA UploadSteps ==
    ASSUME TypeOK, Next
    PROVE  /\ upload' \in [Intents -> {"idle", "put", "mark", "scan", "reserve", "get", "copy", "remove",
                                       "complete", "fail", "ended"}]
           /\ \A i \in Intents : /\ UploadStep(i)
                                 /\ reserveFinal(i) => upload'[i] \in {"get", "fail"}
<1>. DEFINE Places == {"idle", "put", "mark", "scan", "reserve", "get", "copy", "remove",
                       "complete", "fail", "ended"}
            Goal == /\ upload' \in [Intents -> Places]
                    /\ \A i \in Intents : UploadStep(i)
<1>1. ASSUME upload' = upload
      PROVE  Goal
    BY <1>1 DEF TypeOK, UploadStep
<1>2. ASSUME NEW i \in Intents, NEW to \in Places, Goto(i, to), UploadStep(i)
      PROVE  Goal
    BY <1>2 DEF Goto, TypeOK, UploadStep
<1>3. ASSUME NEW i \in Intents, NEW to, Goto(i, to)
      PROVE  upload'[i] = to
    BY <1>3 DEF Goto, TypeOK
<1>4. ASSUME NEW i \in Intents, claimIntent(i)
      PROVE  Goal
    BY <1>2, <1>3, <1>4 DEF claimIntent, At, UploadStep
<1>5. ASSUME NEW i \in Intents,
             putQuarantine(i) \/ markScanning(i) \/ scanUpload(i) \/ databaseFails(i) \/ reserveFinal(i)
      PROVE  Goal
    BY <1>2, <1>3, <1>5 DEF putQuarantine, markScanning, scanUpload, databaseFails, reserveFinal, At, UploadStep
<1>6. ASSUME NEW i \in Intents, readQuarantine(i) \/ copyFinal(i) \/ removeQuarantine(i)
      PROVE  Goal
    BY <1>2, <1>3, <1>6 DEF readQuarantine, copyFinal, removeQuarantine, At, UploadStep, Write, Delete
<1>7. ASSUME NEW i \in Intents, completeUpload(i) \/ failUpload(i) \/ crashUpload(i)
      PROVE  Goal
    BY <1>2, <1>3, <1>7 DEF completeUpload, failUpload, crashUpload, At, UploadStep
<1>8. ASSUME NEW i \in Intents,
             \/ createUploadIntent(i) \/ rejectIntent(i) \/ expireIntent(i) \/ sweepStaleIntents(i)
             \/ intentOverdue(i)
      PROVE  upload' = upload
    BY <1>8 DEF createUploadIntent, rejectIntent, expireIntent, sweepStaleIntents, intentOverdue
<1>9. ASSUME NEW w \in Workers, Cleanup(w) \/ crashWorker(w)
      PROVE  upload' = upload
    BY <1>9 DEF Cleanup, claimJobs, checkReference, deleteObject, recordDeleted, retryOrDead, crashWorker, uploads
<1>10. ASSUME NEW o \in Objects,
              \/ expireExhaustedClaims(o) \/ retryCleanup(o) \/ scanPendingEvidence(o) \/ lateWrite(o)
              \/ leaseExpires(o) \/ backoffEnds(o)
      PROVE  upload' = upload
    BY <1>10 DEF expireExhaustedClaims, retryCleanup, scanPendingEvidence, lateWrite, leaseExpires, backoffEnds,
                 uploads
<1>11. ASSUME NEW i \in Intents, reserveFinal(i)
       PROVE  upload'[i] \in {"get", "fail"}
    BY <1>3, <1>11 DEF reserveFinal
<1>. HIDE DEF Goal
<1>12. Goal
    BY <1>1, <1>4, <1>5, <1>6, <1>7, <1>8, <1>9, <1>10 DEF Next, Request, Time
<1>. QED
    BY <1>11, <1>12 DEF Goal

\* The bytes of x: written by its request or by a write it gave up, deleted by its request
\* or by a worker, and in time only while its row is held.
StorageStep(x) ==
    /\ x \in inflight' => \/ x \in inflight
                          \/ \E i \in Intents : x = quarantineKey(i) /\ upload'[i] \in {"fail", "ended"}
                          \/ \E i \in Intents : x = finalKey(i)
    /\ x \in stored' => \/ x \in stored \/ x \in inflight
                        \/ \E i \in Intents : x = quarantineKey(i) /\ upload[i] = "put"
                        \/ \E i \in Intents : x = finalKey(i)
    /\ x \in stored \ stored' => \/ \E i \in Intents : x = quarantineKey(i)
                                 \/ \E w \in Workers : x = job[w] /\ pc[w] = "deleting"
    /\ x \in stored' \ late' => \/ x \in stored \ late
                                \/ row[x].state = "held" /\ row' = row /\ evidence' = evidence

\* A step moves bytes in these ways only, and only between known places.
LEMMA StorageSteps ==
    ASSUME TypeOK, ClaimedIsGivenUp, Next
    PROVE  /\ stored' \subseteq Objects /\ inflight' \subseteq Objects /\ late' \subseteq Objects
           /\ \A x \in Objects : StorageStep(x)
<1>. DEFINE Goal == /\ stored' \subseteq Objects /\ inflight' \subseteq Objects /\ late' \subseteq Objects
                    /\ \A x \in Objects : StorageStep(x)
<1>1. ASSUME storage' = storage
      PROVE  Goal
    BY <1>1 DEF storage, StorageStep, TypeOK
<1>2. ASSUME NEW o \in Objects, Write(o), inflight' \subseteq inflight, row' = row, evidence' = evidence,
             \/ o \in inflight
             \/ \E i \in Intents : o = quarantineKey(i) /\ upload[i] = "put"
             \/ \E i \in Intents : o = finalKey(i)
      PROVE  Goal
    BY <1>2 DEF Write, StorageStep, TypeOK
<1>3. ASSUME NEW o \in Objects, Delete(o),
             (\E i \in Intents : o = quarantineKey(i)) \/ \E w \in Workers : o = job[w] /\ pc[w] = "deleting"
      PROVE  Goal
    BY <1>3 DEF Delete, StorageStep, TypeOK
<1>4. ASSUME NEW i \in Intents, NEW o, FailedWrite(o), row' = row, evidence' = evidence,
             \/ o = quarantineKey(i) /\ upload[i] = "put" /\ upload'[i] \in {"fail", "ended"}
             \/ o = finalKey(i)
      PROVE  Goal
    <2>1. o \in Objects
        BY <1>4, KeysApart
    <2>2. CASE Write(o) /\ UNCHANGED inflight
        BY <1>2, <1>4, <2>1, <2>2
    <2>3. CASE inflight' = inflight \cup {o} /\ UNCHANGED <<stored, late>>
        BY <1>4, <2>1, <2>3 DEF StorageStep, TypeOK
    <2>. QED
        BY <1>1, <1>4, <2>2, <2>3 DEF FailedWrite
<1>5. ASSUME NEW i \in Intents, NEW to, Goto(i, to)
      PROVE  upload'[i] = to
    BY <1>5 DEF Goto, TypeOK
<1>. HIDE DEF Goal
<1>6. ASSUME NEW i \in Intents, putQuarantine(i)
      PROVE  Goal
    <2>1. CASE Write(quarantineKey(i)) /\ UNCHANGED inflight
        BY <1>2, <1>6, <2>1, KeysApart DEF putQuarantine, At
    <2>2. CASE FailedWrite(quarantineKey(i)) /\ Goto(i, "fail")
        BY <1>4, <1>5, <1>6, <2>2 DEF putQuarantine, At
    <2>. QED
        BY <1>6, <2>1, <2>2 DEF putQuarantine
<1>7. ASSUME NEW i \in Intents, copyFinal(i)
      PROVE  Goal
    <2>1. CASE Write(finalKey(i)) /\ UNCHANGED inflight
        BY <1>2, <1>7, <2>1, KeysApart DEF copyFinal
    <2>2. CASE FailedWrite(finalKey(i))
        BY <1>4, <1>7, <2>2 DEF copyFinal
    <2>. QED
        BY <1>7, <2>1, <2>2 DEF copyFinal
<1>8. ASSUME NEW i \in Intents, removeQuarantine(i)
      PROVE  Goal
    BY <1>1, <1>3, <1>8, KeysApart DEF removeQuarantine, FailedDelete
<1>9. ASSUME NEW i \in Intents, crashUpload(i)
      PROVE  Goal
    <2>1. /\ upload'[i] \in {"fail", "ended"} /\ row' = row /\ evidence' = evidence
          /\ \/ upload[i] = "put" /\ FailedWrite(quarantineKey(i))
             \/ FailedWrite(finalKey(i))
             \/ FailedDelete(quarantineKey(i))
             \/ UNCHANGED storage
        BY <1>5, <1>9 DEF crashUpload, At
    <2>2. CASE FailedDelete(quarantineKey(i))
        BY <1>1, <1>3, <2>2, KeysApart DEF FailedDelete
    <2>. QED
        BY <1>1, <1>4, <2>1, <2>2
<1>10. ASSUME NEW w \in Workers, deleteObject(w)
       PROVE  Goal
    <2>1. pc[w] = "deleting" /\ job[w] \in Objects
        BY <1>10 DEF deleteObject, ClaimedIsGivenUp
    <2>. QED
        BY <1>1, <1>3, <1>10, <2>1 DEF deleteObject, FailedDelete
<1>11. ASSUME NEW o \in Objects, lateWrite(o)
       PROVE  Goal
    BY <1>2, <1>11 DEF lateWrite
<1>12. ASSUME NEW i \in Intents,
             \/ createUploadIntent(i) \/ rejectIntent(i) \/ expireIntent(i) \/ claimIntent(i)
             \/ markScanning(i) \/ scanUpload(i) \/ databaseFails(i) \/ reserveFinal(i) \/ readQuarantine(i)
             \/ completeUpload(i) \/ failUpload(i) \/ sweepStaleIntents(i) \/ intentOverdue(i)
       PROVE  storage' = storage
    BY <1>12 DEF createUploadIntent, rejectIntent, expireIntent, claimIntent, markScanning, scanUpload,
                 databaseFails, reserveFinal, readQuarantine, completeUpload, failUpload, sweepStaleIntents,
                 intentOverdue
<1>13. ASSUME NEW w \in Workers,
              \/ \E o \in Objects : claimJobs(w, o)
              \/ checkReference(w) \/ recordDeleted(w) \/ retryOrDead(w) \/ crashWorker(w)
       PROVE  storage' = storage
    BY <1>13 DEF claimJobs, checkReference, recordDeleted, retryOrDead, crashWorker
<1>14. ASSUME NEW o \in Objects,
              \/ expireExhaustedClaims(o) \/ retryCleanup(o) \/ scanPendingEvidence(o)
              \/ leaseExpires(o) \/ backoffEnds(o)
       PROVE  storage' = storage
    BY <1>14 DEF expireExhaustedClaims, retryCleanup, scanPendingEvidence, leaseExpires, backoffEnds
<1>15. Goal
    BY <1>1, <1>6, <1>7, <1>8, <1>9, <1>10, <1>11, <1>12, <1>13, <1>14 DEF Next, Request, Cleanup, Time
<1>. QED
    BY <1>15 DEF Goal

\* Where a worker may be next, and why.
WorkerStep(w) ==
    \/ pc'[w] = pc[w] /\ job'[w] = job[w]
    \/ pc'[w] = "ready"
    \/ pc'[w] = "claimed" /\ job'[w] \in Objects /\ row'[job'[w]].state \in Open
    \/ pc[w] = "claimed" /\ pc'[w] = "deleting" /\ job'[w] = job[w] /\ evidence' = evidence
         /\ evidence[job[w]] \in {"none", "infected"}
    \/ pc[w] = "deleting" /\ pc'[w] \in {"deleted", "failed"} /\ job'[w] = job[w]
         /\ (pc'[w] = "deleted" => job[w] \notin stored')

\* Nobody but the worker moves it.
LEMMA WorkerSteps ==
    ASSUME TypeOK, ClaimedIsGivenUp, Next
    PROVE  /\ pc' \in [Workers -> {"ready", "claimed", "deleting", "deleted", "failed"}]
           /\ job' \in [Workers -> Objects \cup {NoObject}]
           /\ \A w \in Workers : WorkerStep(w)
<1>. DEFINE Goal == /\ pc' \in [Workers -> {"ready", "claimed", "deleting", "deleted", "failed"}]
                    /\ job' \in [Workers -> Objects \cup {NoObject}]
                    /\ \A w \in Workers : WorkerStep(w)
<1>1. ASSUME workers' = workers
      PROVE  Goal
    BY <1>1 DEF workers, WorkerStep, TypeOK
<1>2. ASSUME NEW w \in Workers, Finish(w)
      PROVE  Goal
    BY <1>2 DEF Finish, WorkerStep, TypeOK
<1>3. ASSUME NEW w \in Workers, NEW o \in Objects, claimJobs(w, o)
      PROVE  Goal
    <2>1. row'[o].state \in Open
        BY <1>3, Handling DEF Handles
    <2>2. /\ pc' = [pc EXCEPT ![w] = "claimed"]
          /\ job' = [job EXCEPT ![w] = o]
        BY <1>3 DEF claimJobs
    <2>. QED
        BY <2>1, <2>2 DEF WorkerStep, TypeOK
<1>4. ASSUME NEW w \in Workers, checkReference(w)
      PROVE  Goal
    <2>1. CASE DeleteAllowed(job[w])
        <3>1. /\ pc[w] = "claimed" /\ pc' = [pc EXCEPT ![w] = "deleting"] /\ job' = job
              /\ evidence' = evidence /\ evidence[job[w]] \in {"none", "infected"}
            BY <1>4, <2>1 DEF checkReference, DeleteAllowed
        <3>. QED
            BY <3>1 DEF WorkerStep, TypeOK
    <2>2. CASE ~DeleteAllowed(job[w])
        BY <1>2, <1>4, <2>2 DEF checkReference
    <2>. QED
        BY <2>1, <2>2
<1>5. ASSUME NEW w \in Workers, deleteObject(w)
      PROVE  Goal
    BY <1>5 DEF deleteObject, Delete, WorkerStep, TypeOK
<1>6. ASSUME NEW w \in Workers, recordDeleted(w) \/ retryOrDead(w) \/ crashWorker(w)
      PROVE  Goal
    BY <1>2, <1>6 DEF recordDeleted, retryOrDead, crashWorker
<1>. HIDE DEF Goal
<1>7. ASSUME NEW i \in Intents,
             \/ createUploadIntent(i) \/ rejectIntent(i) \/ expireIntent(i) \/ claimIntent(i)
             \/ crashUpload(i) \/ putQuarantine(i) \/ markScanning(i) \/ scanUpload(i)
             \/ databaseFails(i) \/ reserveFinal(i) \/ readQuarantine(i) \/ copyFinal(i)
             \/ removeQuarantine(i) \/ completeUpload(i) \/ failUpload(i) \/ sweepStaleIntents(i)
             \/ intentOverdue(i)
      PROVE  workers' = workers
    BY <1>7 DEF createUploadIntent, rejectIntent, expireIntent, claimIntent, crashUpload,
                putQuarantine, markScanning, scanUpload, databaseFails, reserveFinal, readQuarantine,
                copyFinal, removeQuarantine, completeUpload, failUpload, sweepStaleIntents, intentOverdue, workers
<1>8. ASSUME NEW o \in Objects,
             \/ expireExhaustedClaims(o) \/ retryCleanup(o) \/ scanPendingEvidence(o) \/ lateWrite(o)
             \/ leaseExpires(o) \/ backoffEnds(o)
      PROVE  workers' = workers
    BY <1>8 DEF expireExhaustedClaims, retryCleanup, scanPendingEvidence, lateWrite, leaseExpires, backoffEnds
<1>9. Goal
    BY <1>1, <1>3, <1>4, <1>5, <1>6, <1>7, <1>8 DEF Next, Request, Cleanup, Time
<1>. QED
    BY <1>9 DEF Goal

-----------------------------------------------------------------------------
(***************************************************************************)
(* The steps keep each conjunct of the invariant.                          *)
(***************************************************************************)
\* Every variable keeps its type.
LEMMA KeepsTypes ==
    ASSUME TypeOK, RegisteredOnce, EvidenceMatchesIntent, ClaimedIsGivenUp, Next
    PROVE  TypeOK'
<1>1. crashes' \in 0..MaxCrashes /\ retries' \in 0..MaxRetries
    <2>. DEFINE Goal == crashes' \in 0..MaxCrashes /\ retries' \in 0..MaxRetries
    <2>1. ASSUME crashes' = crashes \/ (crashes < MaxCrashes /\ crashes' = crashes + 1), retries' = retries
          PROVE  Goal
        BY <2>1, EvidenceAssumption DEF TypeOK
    <2>2. ASSUME NEW i \in Intents, crashUpload(i)
          PROVE  Goal
        BY <2>1, <2>2 DEF crashUpload
    <2>3. ASSUME NEW w \in Workers, crashWorker(w)
          PROVE  Goal
        BY <2>1, <2>3 DEF crashWorker
    <2>4. ASSUME NEW o \in Objects, retryCleanup(o)
          PROVE  Goal
        BY <2>4, EvidenceAssumption DEF retryCleanup, TypeOK
    <2>5. ASSUME NEW i \in Intents,
                 \/ createUploadIntent(i) \/ rejectIntent(i) \/ expireIntent(i) \/ claimIntent(i)
                 \/ putQuarantine(i) \/ markScanning(i) \/ scanUpload(i) \/ databaseFails(i) \/ reserveFinal(i)
                 \/ readQuarantine(i) \/ copyFinal(i) \/ removeQuarantine(i) \/ completeUpload(i)
                 \/ failUpload(i) \/ sweepStaleIntents(i) \/ intentOverdue(i)
          PROVE  crashes' = crashes /\ retries' = retries
        BY <2>5 DEF createUploadIntent, rejectIntent, expireIntent, claimIntent, putQuarantine, markScanning,
                    scanUpload, databaseFails, reserveFinal, readQuarantine, copyFinal, removeQuarantine,
                    completeUpload, failUpload, sweepStaleIntents, intentOverdue
    <2>6. ASSUME NEW w \in Workers, Cleanup(w)
          PROVE  crashes' = crashes /\ retries' = retries
        BY <2>6 DEF Cleanup, claimJobs, checkReference, deleteObject, recordDeleted, retryOrDead
    <2>7. ASSUME NEW o \in Objects,
                 \/ expireExhaustedClaims(o) \/ scanPendingEvidence(o) \/ lateWrite(o)
                 \/ leaseExpires(o) \/ backoffEnds(o)
          PROVE  crashes' = crashes /\ retries' = retries
        BY <2>7 DEF expireExhaustedClaims, scanPendingEvidence, lateWrite, leaseExpires, backoffEnds
    <2>. HIDE DEF Goal
    <2>8. Goal
        BY <2>1, <2>2, <2>3, <2>4, <2>5, <2>6, <2>7 DEF Next, Request, Time
    <2>. QED
        BY <2>8 DEF Goal
<1>. QED
    BY <1>1, RowSteps, IntentSteps, EvidenceSteps, UploadSteps, StorageSteps, WorkerSteps DEF TypeOK, RowsTyped

\* The maintenance scan finds no upload's evidence, so only completion gives an upload any.
LEMMA KeepsUploadEvidence ==
    ASSUME TypeOK, UploadEvidence, Next
    PROVE  UploadEvidence'
<1>. SUFFICES ASSUME NEW i \in Intents
              PROVE  evidence'[quarantineKey(i)] = "none" /\ evidence'[finalKey(i)] \in {"none", "clean"}
    BY DEF UploadEvidence
<1>1. EvidenceStep(quarantineKey(i)) /\ EvidenceStep(finalKey(i))
    BY EvidenceSteps, KeysApart
<1>. QED
    BY <1>1, KeysApart DEF EvidenceStep, UploadEvidence

\* A row is registered by the step that leaves the place where it could be registered.
LEMMA KeepsRegisteredOnce ==
    ASSUME TypeOK, UploadEvidence, RegisteredOnce, EvidenceMatchesIntent, ClaimedIsGivenUp, Next
    PROVE  RegisteredOnce'
<1>. SUFFICES ASSUME NEW i \in Intents
              PROVE  /\ intent'[i] = "none" => upload'[i] = "idle" /\ row'[quarantineKey(i)].state = "none"
                     /\ upload'[i] \in {"idle", "put", "mark", "scan", "reserve"}
                          => row'[finalKey(i)].state = "none"
    BY DEF RegisteredOnce
<1>1. /\ RowStep(quarantineKey(i)) /\ RowStep(finalKey(i))
      /\ UploadStep(i) /\ IntentStep(i)
      /\ reserveFinal(i) => upload'[i] \in {"get", "fail"}
    BY RowSteps, UploadSteps, IntentSteps, KeysApart
<1>2. ASSUME NEW x \in {quarantineKey(i), finalKey(i)}, row[x].state = "none"
      PROVE  \/ row'[x].state = "none"
             \/ x = quarantineKey(i) /\ createUploadIntent(i)
             \/ x = finalKey(i) /\ reserveFinal(i)
    <2>1. RowStep(x) /\ ~scanPendingEvidence(x)
        BY <1>1, <1>2 DEF scanPendingEvidence, UploadEvidence
    <2>2. IsRegistered(x) => \/ x = quarantineKey(i) /\ createUploadIntent(i)
                             \/ x = finalKey(i) /\ reserveFinal(i)
        BY <1>2, KeysApart DEF IsRegistered
    <2>. QED
        BY <1>2, <2>1, <2>2 DEF RowStep, Open
<1>3. ASSUME intent'[i] = "none"
      PROVE  upload'[i] = "idle" /\ row'[quarantineKey(i)].state = "none"
    BY <1>1, <1>2, <1>3, KeysApart DEF UploadStep, IntentStep, RegisteredOnce
<1>4. ASSUME upload'[i] \in {"idle", "put", "mark", "scan", "reserve"}
      PROVE  row'[finalKey(i)].state = "none"
    BY <1>1, <1>2, <1>4, KeysApart DEF UploadStep, RegisteredOnce
<1>. QED
    BY <1>3, <1>4

\* Completion gives the intent its end, the object its evidence and the row its retention
\* together, and none of them is lost.
LEMMA KeepsEvidenceMatches ==
    ASSUME TypeOK, UploadEvidence, RegisteredOnce, EvidenceMatchesIntent, ClaimedIsGivenUp, Next
    PROVE  EvidenceMatchesIntent'
<1>. SUFFICES ASSUME NEW i \in Intents
              PROVE  /\ evidence'[finalKey(i)] # "none" <=> intent'[i] = "completed"
                     /\ row'[finalKey(i)].state = "retained" <=> intent'[i] = "completed"
    BY DEF EvidenceMatchesIntent
<1>1. RowStep(finalKey(i)) /\ EvidenceStep(finalKey(i)) /\ IntentStep(i) /\ ~scanPendingEvidence(finalKey(i))
    BY RowSteps, EvidenceSteps, IntentSteps, KeysApart DEF scanPendingEvidence, UploadEvidence
<1>2. CASE Completes(i)
    BY <1>2, KeysApart DEF Completes, Retains, TypeOK
<1>3. CASE ~Completes(i)
    <2>1. intent'[i] = "completed" <=> intent[i] = "completed"
        BY <1>1, <1>3 DEF IntentStep
    <2>2. evidence'[finalKey(i)] = evidence[finalKey(i)]
        BY <1>1, <1>3, KeysApart DEF EvidenceStep, UploadEvidence
    <2>3. row'[finalKey(i)].state = "retained" <=> row[finalKey(i)].state = "retained"
        BY <1>1, <1>3, KeysApart DEF RowStep, IsRegistered, Open
    <2>. QED
        BY <2>1, <2>2, <2>3 DEF EvidenceMatchesIntent
<1>. QED
    BY <1>2, <1>3

\* A row given up is never held or retained again.
LEMMA GivenUpForGood ==
    ASSUME TypeOK, NEW x \in Objects, RowStep(x), row[x].state \in GivenUp
    PROVE  row'[x].state \in GivenUp
BY DEF RowStep, IsRegistered, GivenUp, Open

\* A claim lasts while others work: its object stays given up and gets no evidence that is live,
\* and what lands after its deletion is late.
LEMMA KeepsClaimed ==
    ASSUME TypeOK, UploadEvidence, RegisteredOnce, EvidenceMatchesIntent, ClaimedIsGivenUp, Next
    PROVE  ClaimedIsGivenUp'
<1>. SUFFICES ASSUME NEW w \in Workers, pc'[w] # "ready"
              PROVE  /\ job'[w] \in Objects /\ row'[job'[w]].state \in GivenUp
                     /\ pc'[w] = "deleting" => evidence'[job'[w]] \in {"none", "infected"}
                     /\ pc'[w] = "deleted" => job'[w] \notin stored' \ late'
    BY DEF ClaimedIsGivenUp
<1>1. WorkerStep(w)
    BY WorkerSteps
<1>2. CASE pc'[w] = "claimed" /\ job'[w] \in Objects /\ row'[job'[w]].state \in Open
    BY <1>2 DEF GivenUp
<1>3. CASE pc[w] # "ready" /\ job'[w] = job[w]
    <2>1. /\ job[w] \in Objects /\ row[job[w]].state \in GivenUp
          /\ pc[w] = "deleting" => evidence[job[w]] \in {"none", "infected"}
          /\ pc[w] = "deleted" => job[w] \notin stored \ late
        BY <1>3 DEF ClaimedIsGivenUp
    <2>2. RowStep(job[w]) /\ EvidenceStep(job[w]) /\ StorageStep(job[w])
        BY <2>1, RowSteps, EvidenceSteps, StorageSteps
    <2>3. row'[job[w]].state \in GivenUp
        BY <2>1, <2>2, GivenUpForGood
    <2>4. ASSUME evidence[job[w]] \in {"none", "infected"}
          PROVE  evidence'[job[w]] \in {"none", "infected"}
        <3>1. \A i \in Intents : Completes(i) => job[w] # finalKey(i)
            BY <2>1 DEF Completes, Retains, GivenUp, Open
        <3>. QED
            BY <2>2, <2>4, <3>1 DEF EvidenceStep
    <2>5. ASSUME job[w] \notin stored \ late
          PROVE  job[w] \notin stored' \ late'
        BY <2>1, <2>2, <2>5 DEF StorageStep, GivenUp, Open
    <2>6. pc'[w] = "deleting" => evidence'[job[w]] \in {"none", "infected"}
        BY <1>1, <1>3, <2>1, <2>4 DEF WorkerStep
    <2>7. pc'[w] = "deleted" => job[w] \notin stored' \ late'
        BY <1>1, <1>3, <2>1, <2>5 DEF WorkerStep
    <2>. QED
        BY <1>3, <2>1, <2>3, <2>6, <2>7
<1>. QED
    BY <1>1, <1>2, <1>3 DEF WorkerStep

\* What a request knows of its objects stays true while it goes on: no other request, worker
\* or late write touches them.
LEMMA KeepsRequestKnows ==
    ASSUME TypeOK, UploadEvidence, RegisteredOnce, EvidenceMatchesIntent, ClaimedIsGivenUp, RequestKnows, Next
    PROVE  RequestKnows'
<1>. SUFFICES ASSUME NEW i \in Intents
              PROVE  /\ upload'[i] \notin {"fail", "ended"} => quarantineKey(i) \notin inflight'
                     /\ upload'[i] = "complete" => quarantineKey(i) \notin stored'
                     /\ upload'[i] \in {"remove", "complete"} /\ row'[finalKey(i)].state = "held"
                          => finalKey(i) \in stored'
    BY DEF RequestKnows
<1>. DEFINE q == quarantineKey(i)
            f == finalKey(i)
<1>1. /\ q \in Objects /\ f \in Objects
      /\ \A j \in Intents : q # finalKey(j) /\ f # quarantineKey(j) /\ (q = quarantineKey(j) => i = j)
                            /\ (f = finalKey(j) => i = j)
    BY KeysApart
<1>2. UploadStep(i) /\ StorageStep(q) /\ StorageStep(f) /\ RowStep(f)
    BY <1>1, UploadSteps, StorageSteps, RowSteps
<1>3. /\ upload[i] \notin {"fail", "ended"} => q \notin inflight
      /\ upload[i] = "complete" => q \notin stored
      /\ upload[i] \in {"remove", "complete"} /\ row[f].state = "held" => f \in stored
    BY DEF RequestKnows
<1>4. reserveFinal(i) => upload'[i] \in {"get", "fail"}
    BY UploadSteps
<1>. HIDE DEF q, f
<1>5. ASSUME upload'[i] \notin {"fail", "ended"}
      PROVE  q \notin inflight'
    <2>1. upload[i] \notin {"fail", "ended"}
        BY <1>2, <1>5 DEF UploadStep
    <2>2. ~\E j \in Intents : q = quarantineKey(j) /\ upload'[j] \in {"fail", "ended"}
        BY <1>1, <1>5
    <2>. QED
        BY <1>1, <1>2, <1>3, <2>1, <2>2 DEF StorageStep
<1>6. ASSUME upload'[i] = "complete"
      PROVE  q \notin stored'
    <2>1. CASE upload[i] = "complete"
        <3>1. ~\E j \in Intents : q = quarantineKey(j) /\ upload[j] = "put"
            BY <1>1, <2>1
        <3>. QED
            BY <1>1, <1>2, <1>3, <2>1, <3>1 DEF StorageStep
    <2>. QED
        BY <1>2, <1>6, <2>1 DEF UploadStep, q
<1>7. ASSUME upload'[i] \in {"remove", "complete"}, row'[f].state = "held"
      PROVE  f \in stored'
    <2>1. CASE upload[i] \in {"remove", "complete"}
        <3>1. ~IsRegistered(f)
            BY <1>1, <1>4, <1>7 DEF IsRegistered
        <3>2. row[f].state = "held"
            BY <1>2, <1>7, <3>1 DEF RowStep, Open
        <3>3. \A w \in Workers : pc[w] = "deleting" => f # job[w]
            BY <3>2 DEF ClaimedIsGivenUp, GivenUp, Open
        <3>. QED
            BY <1>1, <1>2, <1>3, <2>1, <3>2, <3>3 DEF StorageStep
    <2>. QED
        BY <1>2, <1>7, <2>1 DEF UploadStep, f
<1>. QED
    BY <1>5, <1>6, <1>7 DEF q, f

\* Clean evidence has its bytes: they are there when it becomes clean, no request deletes an
\* object with evidence, and a worker deletes none whose evidence is clean.
LEMMA KeepsCleanStored ==
    ASSUME TypeOK, UploadEvidence, ClaimedIsGivenUp, RequestKnows, CleanEvidenceIsStored, Next
    PROVE  CleanEvidenceIsStored'
<1>. SUFFICES ASSUME NEW x \in Objects, evidence'[x] = "clean"
              PROVE  x \in stored'
    BY DEF CleanEvidenceIsStored
<1>1. EvidenceStep(x) /\ StorageStep(x)
    BY EvidenceSteps, StorageSteps
<1>2. CASE evidence[x] = "clean"
    <2>1. \A i \in Intents : x # quarantineKey(i)
        BY <1>2 DEF UploadEvidence
    <2>2. \A w \in Workers : pc[w] = "deleting" => x # job[w]
        BY <1>2 DEF ClaimedIsGivenUp
    <2>. QED
        BY <1>1, <1>2, <2>1, <2>2 DEF StorageStep, CleanEvidenceIsStored
<1>3. ASSUME NEW i \in Intents, x = finalKey(i), Completes(i)
      PROVE  x \in stored'
    BY <1>3 DEF Completes, Completable, RequestKnows, storage
<1>4. CASE x \in stored /\ storage' = storage
    BY <1>4 DEF storage
<1>. QED
    BY <1>1, <1>2, <1>3, <1>4 DEF EvidenceStep

-----------------------------------------------------------------------------
(***************************************************************************)
(* The quota: what is counted grows by registration only, and nothing the  *)
(* provider has is dropped from it.                                        *)
(***************************************************************************)
\* What is counted, by the state of the row.
LEMMA CountedStates ==
    \A x \in Objects : /\ x \in Counted <=> \/ row[x].state \in {"held"} \cup Open
                                            \/ evidence[x] # "none" /\ row[x].state \in {"none", "retained"}
                       /\ x \in Counted' <=> \/ row'[x].state \in {"held"} \cup Open
                                             \/ evidence'[x] # "none" /\ row'[x].state \in {"none", "retained"}
<1>1. \A x \in Objects : x \in Counted <=> \/ row[x].state \in {"held"} \cup Open
                                           \/ evidence[x] # "none" /\ row[x].state \in {"none", "retained"}
    BY DEF Counted, Kept, Charged, Open
<1>2. \A x \in Objects : x \in Counted' <=> \/ row'[x].state \in {"held"} \cup Open
                                            \/ evidence'[x] # "none" /\ row'[x].state \in {"none", "retained"}
    BY DEF Counted, Kept, Charged, Open
<1>. QED
    BY <1>1, <1>2

\* An object comes to be counted by its registration only.
LEMMA CountedByRegistration ==
    ASSUME TypeOK, RegisteredOnce, EvidenceMatchesIntent, ClaimedIsGivenUp, Next,
           NEW x \in Objects, x \in Counted'
    PROVE  x \in Counted \/ IsRegistered(x)
<1>1. RowStep(x) /\ EvidenceStep(x)
    BY RowSteps, EvidenceSteps
<1>2. row[x].state \in {"none", "held", "retained"} \cup GivenUp
    BY DEF TypeOK, LedgerRows, GivenUp, Open
<1>3. CASE row[x].state \in {"held"} \cup Open
    BY <1>3, CountedStates
<1>4. CASE scanPendingEvidence(x) /\ row[x].state \notin GivenUp
    BY <1>2, <1>4, CountedStates DEF scanPendingEvidence
<1>5. CASE row'[x].state = row[x].state /\ row[x].state \notin {"held"} \cup Open
    <2>1. evidence'[x] # "none" /\ row[x].state \in {"none", "retained"}
        BY <1>5, CountedStates
    <2>2. \A i \in Intents : x = finalKey(i) => ~Completes(i)
        BY <1>5 DEF Completes, Retains
    <2>. QED
        BY <1>1, <2>1, <2>2, CountedStates DEF EvidenceStep
<1>. QED
    BY <1>1, <1>3, <1>4, <1>5 DEF RowStep

\* Bytes that arrived in time stay counted until they are deleted.
LEMMA KeepsStoredCounted ==
    ASSUME TypeOK, UploadEvidence, RegisteredOnce, EvidenceMatchesIntent, ClaimedIsGivenUp, RequestKnows,
           StoredIsCounted, Next
    PROVE  StoredIsCounted'
<1>. SUFFICES ASSUME NEW x \in Objects, x \in stored' \ late'
              PROVE  x \in Counted'
    BY StorageSteps DEF StoredIsCounted
<1>1. RowStep(x) /\ EvidenceStep(x) /\ StorageStep(x)
    BY RowSteps, EvidenceSteps, StorageSteps
<1>2. CASE row[x].state = "held" /\ row' = row
    BY <1>2, CountedStates
<1>3. CASE x \in stored \ late
    <2>1. x \in Counted
        BY <1>3 DEF StoredIsCounted
    <2>2. CASE row'[x].state = row[x].state
        BY <1>1, <2>1, <2>2, CountedStates DEF EvidenceStep
    <2>3. CASE row'[x].state \in {"held"} \cup Open
        BY <2>3, CountedStates
    <2>4. ASSUME NEW i \in Intents, Completes(i), x = finalKey(i), row'[x].state = "retained"
          PROVE  x \in Counted'
        <3>1. evidence'[x] = "clean"
            BY <2>4, KeysApart DEF Completes, TypeOK
        <3>. QED
            BY <2>4, <3>1, CountedStates
    <2>5. ASSUME NEW i \in Intents, Completes(i), x = quarantineKey(i)
          PROVE  FALSE
        BY <1>3, <2>5 DEF Completes, RequestKnows
    <2>6. ASSUME NEW w \in Workers, x = job[w], recordDeleted(w)
          PROVE  FALSE
        BY <1>3, <2>6 DEF recordDeleted, ClaimedIsGivenUp
    <2>. QED
        BY <1>1, <2>2, <2>3, <2>4, <2>5, <2>6 DEF RowStep, IsRegistered, Open
<1>. QED
    BY <1>1, <1>2, <1>3 DEF StorageStep

\* Counted objects are a finite set, as many as the code reserves.
LEMMA CountedIsReserved ==
    /\ IsFiniteSet(Counted) /\ IsFiniteSet(Kept) /\ IsFiniteSet(Charged)
    /\ Cardinality(Counted) \in Nat
    /\ reservedObjectBytes = Cardinality(Counted)
<1>1. Kept \subseteq Objects /\ Charged \subseteq Objects /\ Kept \cap Charged = {}
    BY DEF Kept, Charged
<1>2. IsFiniteSet(Kept) /\ IsFiniteSet(Charged)
    BY <1>1, ObjectsFinite, FS_Subset
<1>3. /\ IsFiniteSet(Counted)
      /\ Cardinality(Counted) = Cardinality(Kept) + Cardinality(Charged) - Cardinality(Kept \cap Charged)
    BY <1>2, FS_Union DEF Counted
<1>4. Cardinality(Kept \cap Charged) = 0
    BY <1>1, FS_EmptySet
<1>5. Cardinality(Counted) \in Nat /\ Cardinality(Kept) \in Nat /\ Cardinality(Charged) \in Nat
    BY <1>2, <1>3, FS_CardinalityType
<1>. QED
    BY <1>2, <1>3, <1>4, <1>5 DEF reservedObjectBytes

\* A registration finds room for its object; no other step counts more objects.
LEMMA KeepsFit ==
    ASSUME TypeOK, RegisteredOnce, EvidenceMatchesIntent, ClaimedIsGivenUp, CountedFits, Next
    PROVE  CountedFits'
<1>1. IsFiniteSet(Counted) /\ Cardinality(Counted) \in Nat /\ reservedObjectBytes = Cardinality(Counted)
    BY CountedIsReserved
<1>2. Counted' \subseteq Objects
    BY DEF Counted, Kept, Charged
<1>3. CASE Counted' \subseteq Counted
    <2>1. Cardinality(Counted') <= Cardinality(Counted) /\ Cardinality(Counted') \in Nat
        BY <1>1, <1>3, FS_Subset, FS_CardinalityType
    <2>. QED
        BY <1>1, <2>1, EvidenceAssumption DEF CountedFits
<1>4. ASSUME NEW x \in Objects, IsRegistered(x)
      PROVE  CountedFits'
    <2>1. Counted' \subseteq Counted \cup {x}
        <3>1. \A y \in Objects \ {x} : ~IsRegistered(y)
            BY <1>4 DEF IsRegistered
        <3>. QED
            BY <1>2, <3>1, CountedByRegistration
    <2>2. IsFiniteSet(Counted \cup {x}) /\ Cardinality(Counted \cup {x}) <= Cardinality(Counted) + 1
          /\ Cardinality(Counted \cup {x}) \in Nat
        <3>1. Cardinality(Counted \cup {x}) =
                 IF x \in Counted THEN Cardinality(Counted) ELSE Cardinality(Counted) + 1
            BY <1>1, FS_AddElement
        <3>2. IsFiniteSet(Counted \cup {x})
            BY <1>1, FS_AddElement
        <3>. QED
            BY <1>1, <3>1, <3>2
    <2>3. Cardinality(Counted') <= Cardinality(Counted \cup {x}) /\ Cardinality(Counted') \in Nat
        BY <2>1, <2>2, FS_Subset, FS_CardinalityType
    <2>4. Cardinality(Counted) + 1 <= Quota
        BY <1>1, <1>4 DEF IsRegistered, HasCapacity
    <2>. QED
        BY <1>1, <2>2, <2>3, <2>4, EvidenceAssumption DEF CountedFits
<1>5. CASE ~(Counted' \subseteq Counted)
    <2>1. PICK x \in Objects : x \in Counted' /\ x \notin Counted
        BY <1>2, <1>5
    <2>2. IsRegistered(x)
        BY <2>1, CountedByRegistration
    <2>. QED
        BY <1>4, <2>2
<1>. QED
    BY <1>3, <1>5

-----------------------------------------------------------------------------
\* Before anything was uploaded only legacy evidence is counted.
LEMMA InitEvidence ==
    ASSUME Init
    PROVE  EvidenceInv
<1>1. TypeOK
    BY BlankRow, KeysApart, EvidenceAssumption DEF Init, TypeOK, LegacyObjects
<1>2. \A x \in Objects : row[x].state = "none"
    BY BlankRow DEF Init
<1>3. \A i \in Intents : evidence[quarantineKey(i)] = "none" /\ evidence[finalKey(i)] = "none"
    BY KeysApart DEF Init, quarantineKey, finalKey
<1>4. UploadEvidence
    BY <1>3 DEF UploadEvidence
<1>5. RegisteredOnce /\ EvidenceMatchesIntent
    BY <1>2, <1>3, KeysApart DEF Init, RegisteredOnce, EvidenceMatchesIntent
<1>6. ClaimedIsGivenUp
    BY DEF Init, ClaimedIsGivenUp
<1>7. RequestKnows
    BY DEF Init, RequestKnows
<1>8. \A x \in Objects : evidence[x] = (IF x[1] = "legacy" THEN "legacy_unscanned" ELSE "none")
    BY DEF Init
<1>9. CleanEvidenceIsStored
    BY <1>8 DEF CleanEvidenceIsStored
<1>10. Counted = LegacyObjects
    <2>1. \A x \in Objects : x[1] = "legacy" <=> x \in LegacyObjects
        BY DEF Objects, LegacyObjects, quarantineKey, finalKey
    <2>2. Counted \subseteq Objects
        BY DEF Counted, Kept, Charged
    <2>. QED
        BY <1>2, <1>8, <2>1, <2>2, CountedStates, KeysApart DEF Open
<1>11. StoredIsCounted
    BY <1>10 DEF Init, StoredIsCounted, LegacyObjects
<1>12. CountedFits
    <2>1. Cardinality(LegacyObjects) \in Nat /\ Cardinality(Legacy) \in Nat
        BY ObjectsFinite, EvidenceAssumption, FS_CardinalityType
    <2>. QED
        BY <1>10, <2>1, ObjectsFinite, EvidenceAssumption DEF CountedFits
<1>. QED
    BY <1>1, <1>4, <1>5, <1>6, <1>7, <1>9, <1>11, <1>12 DEF EvidenceInv

\* The invariant holds in every state.
THEOREM SpecEvidence == Spec => []EvidenceInv
<1>1. Init => EvidenceInv
    BY InitEvidence
<1>2. EvidenceInv /\ [Next]_vars => EvidenceInv'
    <2>1. ASSUME EvidenceInv, Next
          PROVE  EvidenceInv'
        BY <2>1, KeepsTypes, KeepsUploadEvidence, KeepsRegisteredOnce, KeepsEvidenceMatches, KeepsClaimed,
           KeepsRequestKnows, KeepsCleanStored, KeepsStoredCounted, KeepsFit DEF EvidenceInv
    <2>2. ASSUME EvidenceInv, UNCHANGED vars
          PROVE  EvidenceInv'
        BY <2>2 DEF vars, EvidenceInv, TypeOK, UploadEvidence, RegisteredOnce, EvidenceMatchesIntent,
                    ClaimedIsGivenUp, RequestKnows, CleanEvidenceIsStored, StoredIsCounted, CountedFits,
                    Counted, Kept, Charged
    <2>. QED
        BY <2>1, <2>2
<1>. QED
    BY <1>1, <1>2, PTL DEF Spec

(***************************************************************************)
(* Types: intents, evidence, ledger rows and workers are always in the     *)
(* states their columns allow, and a row's attempts within the maximum.    *)
(***************************************************************************)
THEOREM EvidenceTypes == Spec => []TypeOK
<1>1. EvidenceInv => TypeOK
    BY DEF EvidenceInv
<1>. QED
    BY <1>1, SpecEvidence, PTL

(***************************************************************************)
(* Clean evidence keeps its bytes: with any number of requests, workers,   *)
(* sweeps, scans and late writes, no deletion reaches an object that a     *)
(* live evidence row refers to.                                            *)
(***************************************************************************)
THEOREM CleanEvidenceKept == Spec => []CleanEvidenceIsStored
<1>1. EvidenceInv => CleanEvidenceIsStored
    BY DEF EvidenceInv
<1>. QED
    BY <1>1, SpecEvidence, PTL

(***************************************************************************)
(* An upload has evidence, and its object is retained, exactly when its    *)
(* intent completed; a rejected, expired or infected one never gets any.   *)
(***************************************************************************)
THEOREM EvidenceOfCompleted == Spec => []EvidenceMatchesIntent
<1>1. EvidenceInv => EvidenceMatchesIntent
    BY DEF EvidenceInv
<1>. QED
    BY <1>1, SpecEvidence, PTL

(***************************************************************************)
(* The bytes an organization has at the provider, writes that landed after *)
(* their row was given up apart, never exceed its quota.                   *)
(***************************************************************************)
THEOREM QuotaHolds == Spec => []StorageWithinQuota
<1>1. EvidenceInv => StorageWithinQuota
    <2>. SUFFICES ASSUME EvidenceInv
                  PROVE  StorageWithinQuota
        OBVIOUS
    <2>1. IsFiniteSet(Counted) /\ Cardinality(Counted) \in Nat
        BY CountedIsReserved
    <2>2. Cardinality(stored \ late) <= Cardinality(Counted) /\ Cardinality(stored \ late) \in Nat
        BY <2>1, FS_Subset, FS_CardinalityType DEF EvidenceInv, StoredIsCounted
    <2>. QED
        BY <2>1, <2>2, EvidenceAssumption DEF EvidenceInv, CountedFits, StorageWithinQuota
<1>. QED
    BY <1>1, SpecEvidence, PTL

=============================================================================
