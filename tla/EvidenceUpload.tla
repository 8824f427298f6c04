---------------------------- MODULE EvidenceUpload --------------------------
(***************************************************************************)
(* Private evidence: upload intents, the objects they put in the storage   *)
(* provider, the evidence rows that refer to them, and the cleanup ledger  *)
(* (evidence_object_cleanup) that must delete whatever is abandoned.       *)
(*                                                                         *)
(* A request that claims an intent writes the bytes under a quarantine     *)
(* key, has them scanned, moves them to a final key and commits the        *)
(* evidence row.  Every await in it is a step, between which the stale     *)
(* sweep, cleanup workers, the maintenance scan, timeouts and crashes may  *)
(* come.  The provider is the S3 adapter: a request that timed out may     *)
(* have been applied, may never be, or may be applied later.               *)
(*                                                                         *)
(* Every object has one unit of bytes; keys are generated by the server    *)
(* and never reused, and the configured provider does not change.          *)
(***************************************************************************)
EXTENDS Naturals, FiniteSets

CONSTANTS
    Intents,        \* evidence_upload_intents ids
    Legacy,         \* evidence rows from before uploads were scanned
    Workers,        \* runs of runCleanupBatch or cleanupObjectNow; the identity is the lease token
    Quota,          \* config.evidenceOrganizationQuotaBytes, of one organization
    MaxAttempts,    \* maximumAttempts, 8 in the code
    MaxCrashes,     \* bound: crashes of requests and workers
    MaxRetries,     \* bound: operator retries of a ledger row
    NoWorker

ASSUME EvidenceAssumption ==
    /\ IsFiniteSet(Intents) /\ IsFiniteSet(Legacy) /\ IsFiniteSet(Workers)
    /\ Quota \in Nat /\ MaxAttempts \in Nat \ {0}
    /\ MaxCrashes \in Nat /\ MaxRetries \in Nat
    /\ NoWorker \notin Workers
    /\ Cardinality(Legacy) <= Quota

quarantineKey(i) == <<"quarantine", i>>
finalKey(i) == <<"evidence", i>>
Objects == {quarantineKey(i) : i \in Intents} \cup {finalKey(i) : i \in Intents}
              \cup {<<"legacy", e>> : e \in Legacy}
NoObject == <<"none", NoWorker>>

VARIABLES
    intent,         \* status of each intent; "clean" is scanning with malware_scan_status clean
    overdue,        \* pending past expires_at, or untouched for 30 minutes while processed
    upload,         \* where the request that claimed the intent is
    evidence,       \* malware_scan_status of the evidence row with this storage_key
    row,            \* the ledger row of each object
    stored,         \* the objects the provider has
    inflight,       \* writes given up by the client that the provider may still apply
    late,           \* objects written after their ledger row was no longer held
    pc, job,        \* each worker's place, and the object it claimed
    crashes, retries

uploads == <<intent, overdue, upload>>
storage == <<stored, inflight, late>>
workers == <<pc, job>>
vars == <<intent, overdue, upload, evidence, row, stored, inflight, late, pc, job, crashes, retries>>

Terminal == {"completed", "rejected", "expired", "infected", "scan_failed"}
Processing == {"uploading", "scanning", "clean"}

LedgerRows ==
    [state : {"none", "held", "retained", "pending", "processing", "done", "dead"},
     infected : BOOLEAN,     \* reason = 'malware_infected'
     attempts : 0..MaxAttempts,
     lease : Workers \cup {NoWorker},
     expired : BOOLEAN,      \* lease_expires_at <= NOW()
     due : BOOLEAN,          \* next_attempt_at <= NOW()
     unsafe : BOOLEAN]       \* last_error_code = 'LIVE_EVIDENCE_REFERENCE'

TypeOK ==
    /\ intent \in [Intents -> {"none", "pending"} \cup Processing \cup Terminal]
    /\ overdue \in [Intents -> BOOLEAN]
    /\ upload \in [Intents -> {"idle", "put", "mark", "scan", "reserve", "get", "copy", "remove",
                               "complete", "fail", "ended"}]
    /\ evidence \in [Objects -> {"none", "legacy_unscanned", "scan_failed", "clean", "infected"}]
    /\ row \in [Objects -> LedgerRows]
    /\ stored \subseteq Objects /\ inflight \subseteq Objects /\ late \subseteq Objects
    /\ pc \in [Workers -> {"ready", "claimed", "deleting", "deleted", "failed"}]
    /\ job \in [Workers -> Objects \cup {NoObject}]
    /\ crashes \in 0..MaxCrashes
    /\ retries \in 0..MaxRetries

-----------------------------------------------------------------------------
(* The ledger.                                                             *)

NoRow == [state |-> "none", infected |-> FALSE, attempts |-> 0, lease |-> NoWorker,
          expired |-> FALSE, due |-> FALSE, unsafe |-> FALSE]

registerObject(o) == row' = [row EXCEPT ![o] = [NoRow EXCEPT !.state = "held", !.due = TRUE]]

\* lease_token and lease_expires_at set to NULL.
Unleased(r) == [r EXCEPT !.lease = NoWorker, !.expired = FALSE]
Queued(r) == [Unleased(r) EXCEPT !.state = "pending", !.due = TRUE]

\* queueIntentObjects: the intent's held objects become cleanup work.
ObjectsOf(i) == {quarantineKey(i), finalKey(i)}
HeldBy(i) == {o \in ObjectsOf(i) : row[o].state = "held"}
queueIntentObjects(i) == row' = [o \in Objects |-> IF o \in HeldBy(i) THEN Queued(row[o]) ELSE row[o]]

(***************************************************************************)
(* reservedObjectBytes: what evidence rows keep, and what the ledger has   *)
(* not seen deleted.  (Alive: rows given up as dead no longer charged.)    *)
(***************************************************************************)
Kept == {o \in Objects : evidence[o] # "none" /\ row[o].state \in {"none", "retained"}}
ChargedAlive == {o \in Objects : row[o].state \in {"held", "pending", "processing"}}
Charged == {o \in Objects : row[o].state \in {"held", "pending", "processing", "dead"}}
reservedObjectBytes == Cardinality(Kept) + Cardinality(Charged)
HasCapacity == reservedObjectBytes + 1 <= Quota

-----------------------------------------------------------------------------
(* The storage provider.                                                   *)

\* The provider applies a write of o.
Write(o) ==
    /\ stored' = stored \cup {o}
    /\ late' = IF row[o].state = "held" THEN late ELSE late \cup {o}

\* A write the client sees fail: applied, not applied, or still to be applied.
FailedWrite(o) ==
    \/ Write(o) /\ UNCHANGED inflight
    \/ UNCHANGED storage
    \/ inflight' = inflight \cup {o} /\ UNCHANGED <<stored, late>>

\* A deletion the client sees fail: applied or not.
Delete(o) == stored' = stored \ {o} /\ late' = late \ {o} /\ UNCHANGED inflight
FailedDelete(o) == Delete(o) \/ UNCHANGED storage

lateWrite(o) ==
    /\ o \in inflight
    /\ inflight' = inflight \ {o}
    /\ Write(o)
    /\ UNCHANGED <<uploads, evidence, row, workers, crashes, retries>>

-----------------------------------------------------------------------------
(* Upload intents and the request that completes one.                      *)

createUploadIntent(i) ==
    /\ intent[i] = "none"
    /\ HasCapacity
    /\ intent' = [intent EXCEPT ![i] = "pending"]
    /\ registerObject(quarantineKey(i))
    /\ UNCHANGED <<overdue, upload, evidence, storage, workers, crashes, retries>>

\* A request with the wrong size or type.
rejectIntent(i) ==
    /\ intent[i] = "pending"
    /\ intent' = [intent EXCEPT ![i] = "rejected"]
    /\ queueIntentObjects(i)
    /\ UNCHANGED <<overdue, upload, evidence, storage, workers, crashes, retries>>

\* A request after expires_at: only the status changes.
expireIntent(i) ==
    /\ intent[i] = "pending" /\ overdue[i]
    /\ intent' = [intent EXCEPT ![i] = "expired"]
    /\ UNCHANGED <<overdue, upload, evidence, row, storage, workers, crashes, retries>>

\* The request moves to a step, and its UPDATE of the intent, if any, took effect.
At(i, step) == upload[i] = step
Goto(i, step) == upload' = [upload EXCEPT ![i] = step]
SetIntent(i, from, to) ==
    IF intent[i] = from
    THEN intent' = [intent EXCEPT ![i] = to] /\ overdue' = [overdue EXCEPT ![i] = FALSE]
    ELSE UNCHANGED <<intent, overdue>>

\* Exactly one request claims a pending intent; it may have passed the expiry check before.
claimIntent(i) ==
    /\ At(i, "idle") /\ intent[i] = "pending"
    /\ SetIntent(i, "pending", "uploading")
    /\ Goto(i, "put")
    /\ UNCHANGED <<evidence, row, storage, workers, crashes, retries>>

putQuarantine(i) ==
    /\ At(i, "put")
    /\ \/ Write(quarantineKey(i)) /\ UNCHANGED inflight /\ Goto(i, "mark")
       \/ FailedWrite(quarantineKey(i)) /\ Goto(i, "fail")
    /\ UNCHANGED <<intent, overdue, evidence, row, workers, crashes, retries>>

markScanning(i) ==
    /\ At(i, "mark")
    /\ SetIntent(i, "uploading", "scanning")
    /\ Goto(i, "scan") \/ Goto(i, "fail")
    /\ UNCHANGED <<evidence, row, storage, workers, crashes, retries>>

\* The scanner's verdict; clean bytes may still fail validateEvidenceContent.
scanUpload(i) ==
    /\ At(i, "scan")
    /\ \/ SetIntent(i, "scanning", "clean") /\ (Goto(i, "reserve") \/ Goto(i, "fail"))
       \/ SetIntent(i, "scanning", "infected") /\ Goto(i, "fail")
       \/ SetIntent(i, "scanning", "scan_failed") /\ Goto(i, "fail")
    /\ UNCHANGED <<evidence, row, storage, workers, crashes, retries>>

\* The final object is registered, and charged, before the provider has it.
reserveFinal(i) ==
    /\ At(i, "reserve")
    /\ IF HasCapacity
       THEN registerObject(finalKey(i)) /\ (Goto(i, "get") \/ Goto(i, "fail"))
       ELSE UNCHANGED row /\ Goto(i, "fail")
    /\ UNCHANGED <<intent, overdue, evidence, storage, workers, crashes, retries>>

\* S3EvidenceStorage.move: get the source ...
readQuarantine(i) ==
    /\ At(i, "get")
    /\ \/ quarantineKey(i) \in stored /\ Goto(i, "copy")
       \/ Goto(i, "fail")
    /\ UNCHANGED <<intent, overdue, evidence, row, storage, workers, crashes, retries>>

\* ... put the destination ...
copyFinal(i) ==
    /\ At(i, "copy")
    /\ \/ Write(finalKey(i)) /\ UNCHANGED inflight /\ Goto(i, "remove")
       \/ FailedWrite(finalKey(i)) /\ Goto(i, "fail")
    /\ UNCHANGED <<intent, overdue, evidence, row, workers, crashes, retries>>

\* ... and delete the source.
removeQuarantine(i) ==
    /\ At(i, "remove")
    /\ \/ Delete(quarantineKey(i)) /\ Goto(i, "complete")
       \/ FailedDelete(quarantineKey(i)) /\ Goto(i, "fail")
    /\ UNCHANGED <<intent, overdue, evidence, row, workers, crashes, retries>>

\* The completing transaction goes through: still scanning and clean, still held.
\* (Blind: the evidence row inserted whatever became of the intent meanwhile.)
CompletableBlind(i) == TRUE
Completable(i) == intent[i] = "clean" /\ row[finalKey(i)].state = "held"

\* retainUploadObjects
RetainUpload(i) ==
    row' = [o \in Objects |->
              CASE o = finalKey(i) -> [row[o] EXCEPT !.state = "retained"]
                [] o \in HeldBy(i) \ {finalKey(i)} -> [row[o] EXCEPT !.state = "done"]
                [] OTHER -> row[o]]

\* The COMMIT may be applied although the request sees it fail.
completeUpload(i) ==
    /\ At(i, "complete")
    /\ \/ /\ Completable(i)
          /\ evidence' = [evidence EXCEPT ![finalKey(i)] = "clean"]
          /\ intent' = [intent EXCEPT ![i] = "completed"]
          /\ RetainUpload(i)
          /\ Goto(i, "ended") \/ Goto(i, "fail")
       \/ Goto(i, "fail") /\ UNCHANGED <<intent, evidence, row>>
    /\ UNCHANGED <<overdue, storage, workers, crashes, retries>>

\* The catch block: an intent still in process is rejected, its held objects are queued.
\* (Always: the condition status<>'completed' dropped.)
FailedStatusAlways(s) == "rejected"
FailedStatus(s) == IF s \in {"pending"} \cup Processing THEN "rejected" ELSE s

failUpload(i) ==
    /\ At(i, "fail")
    /\ intent' = [intent EXCEPT ![i] = FailedStatus(@)]
    /\ queueIntentObjects(i)
    /\ Goto(i, "ended")
    /\ UNCHANGED <<overdue, evidence, storage, workers, crashes, retries>>

\* A statement of the request fails and changes nothing.
databaseFails(i) ==
    /\ upload[i] \in {"mark", "scan", "reserve"}
    /\ Goto(i, "fail")
    /\ UNCHANGED <<intent, overdue, evidence, row, storage, workers, crashes, retries>>

\* The process dies, or the catch block's own transaction fails; a write may be under way.
crashUpload(i) ==
    /\ upload[i] \notin {"idle", "ended"} /\ crashes < MaxCrashes
    /\ crashes' = crashes + 1
    /\ Goto(i, "ended")
    /\ \/ At(i, "put") /\ FailedWrite(quarantineKey(i))
       \/ At(i, "copy") /\ FailedWrite(finalKey(i))
       \/ At(i, "remove") /\ FailedDelete(quarantineKey(i))
       \/ upload[i] \notin {"put", "copy", "remove"} /\ UNCHANGED storage
    /\ UNCHANGED <<intent, overdue, evidence, row, workers, retries>>

-----------------------------------------------------------------------------
(* The cleanup job.                                                        *)

\* Intents sweepStaleIntents takes: objects still held though the intent has ended or is overdue.
Stale(i) ==
    /\ HeldBy(i) # {}
    /\ intent[i] \in Terminal \/ (intent[i] \in {"pending"} \cup Processing /\ overdue[i])

sweepStaleIntents(i) ==
    LET kept == intent[i] = "completed" /\ evidence[finalKey(i)] = "clean" IN
    /\ Stale(i)
    /\ intent' = [intent EXCEPT ![i] = CASE @ = "pending" -> "expired"
                                         [] @ \in Processing -> "scan_failed"
                                         [] OTHER -> @]
    /\ row' = [o \in Objects |->
                 CASE o \in HeldBy(i) /\ o = finalKey(i) /\ kept -> [row[o] EXCEPT !.state = "retained"]
                   [] o \in HeldBy(i) /\ ~(o = finalKey(i) /\ kept) -> Queued(row[o])
                   [] OTHER -> row[o]]
    /\ UNCHANGED <<overdue, upload, evidence, storage, workers, crashes, retries>>

Dead(r) == [Unleased(r) EXCEPT !.state = "dead"]

expireExhaustedClaims(o) ==
    /\ row[o].state = "processing" /\ row[o].expired /\ row[o].attempts >= MaxAttempts
    /\ row' = [row EXCEPT ![o] = Dead(@)]
    /\ UNCHANGED <<uploads, evidence, storage, workers, crashes, retries>>

\* claimJobs; cleanupObjectNow claims only pending rows that are due.
\* (Leased: a lease that ran out is not taken over.)
ClaimableLeased(o) == row[o].attempts < MaxAttempts /\ row[o].state = "pending" /\ row[o].due
Claimable(o) ==
    /\ row[o].attempts < MaxAttempts
    /\ \/ row[o].state = "pending" /\ row[o].due
       \/ row[o].state = "processing" /\ row[o].expired

Leased(r, w) == [r EXCEPT !.state = "processing", !.lease = w, !.expired = FALSE, !.attempts = @ + 1]

claimJobs(w, o) ==
    /\ pc[w] = "ready"
    /\ Claimable(o)
    /\ row' = [row EXCEPT ![o] = Leased(@, w)]
    /\ pc' = [pc EXCEPT ![w] = "claimed"]
    /\ job' = [job EXCEPT ![w] = o]
    /\ UNCHANGED <<uploads, evidence, storage, crashes, retries>>

\* The worker is done with its job.
Finish(w) == pc' = [pc EXCEPT ![w] = "ready"] /\ job' = [job EXCEPT ![w] = NoObject]

\* The row is still this claim's: state, lease_token and attempts unchanged.
Owned(w, o) == row[o].state = "processing" /\ row[o].lease = w

\* liveReferenceAllowsDelete.
DeleteAllowed(o) == evidence[o] = "none" \/ (row[o].infected /\ evidence[o] = "infected")

checkReference(w) ==
    LET o == job[w] IN
    /\ pc[w] = "claimed"
    /\ IF DeleteAllowed(o)
       THEN pc' = [pc EXCEPT ![w] = "deleting"] /\ UNCHANGED <<row, job>>
       ELSE /\ Finish(w)
            /\ row' = [row EXCEPT ![o] = IF Owned(w, o) THEN [Dead(@) EXCEPT !.unsafe = TRUE] ELSE @]
    /\ UNCHANGED <<uploads, evidence, storage, crashes, retries>>

deleteObject(w) ==
    /\ pc[w] = "deleting"
    /\ \/ /\ Delete(job[w])
          /\ pc' = [pc EXCEPT ![w] = "deleted"]
       \/ /\ FailedDelete(job[w])
          /\ pc' = [pc EXCEPT ![w] = "failed"]
    /\ UNCHANGED <<uploads, evidence, row, job, crashes, retries>>

recordDeleted(w) ==
    LET o == job[w] IN
    /\ pc[w] = "deleted"
    /\ row' = [row EXCEPT ![o] = IF Owned(w, o) THEN [Unleased(@) EXCEPT !.state = "done"] ELSE @]
    /\ Finish(w)
    /\ UNCHANGED <<uploads, evidence, storage, crashes, retries>>

\* (Done: the failure of the provider taken for an object already gone.)
RetriedDone(r) == [Unleased(r) EXCEPT !.state = "done"]
Retried(r) ==
    IF r.attempts >= MaxAttempts
    THEN Dead(r)
    ELSE [Unleased(r) EXCEPT !.state = "pending", !.due = FALSE]

retryOrDead(w) ==
    LET o == job[w] IN
    /\ pc[w] = "failed"
    /\ row' = [row EXCEPT ![o] = IF Owned(w, o) THEN Retried(@) ELSE @]
    /\ Finish(w)
    /\ UNCHANGED <<uploads, evidence, storage, crashes, retries>>

crashWorker(w) ==
    /\ pc[w] # "ready" /\ crashes < MaxCrashes
    /\ crashes' = crashes + 1
    /\ Finish(w)
    /\ UNCHANGED <<uploads, evidence, row, storage, retries>>

\* retryCleanup, by an operator: dead rows that were not refused as unsafe.
retryCleanup(o) ==
    /\ row[o].state = "dead" /\ ~row[o].unsafe /\ retries < MaxRetries
    /\ row' = [row EXCEPT ![o] = [Queued(@) EXCEPT !.attempts = 0]]
    /\ retries' = retries + 1
    /\ UNCHANGED <<uploads, evidence, storage, workers, crashes>>

-----------------------------------------------------------------------------
(* The maintenance scan of evidence that was never scanned, one job at a   *)
(* time under its advisory lock: an infected verdict and the obligation to *)
(* delete the object commit together (queueInfectedEvidenceObject).        *)

Infected(r) ==
    CASE r.state \in {"none", "held", "retained"} -> [Queued(r) EXCEPT !.infected = TRUE]
      [] r.state = "pending" -> [r EXCEPT !.infected = TRUE]
      [] OTHER -> r

scanPendingEvidence(o) ==
    /\ evidence[o] \in {"legacy_unscanned", "scan_failed"}
    /\ \/ evidence' = [evidence EXCEPT ![o] = "scan_failed"] /\ UNCHANGED row
       \/ /\ o \in stored
          /\ evidence' = [evidence EXCEPT ![o] = "clean"] /\ UNCHANGED row
       \/ /\ o \in stored
          /\ evidence' = [evidence EXCEPT ![o] = "infected"]
          /\ row' = [row EXCEPT ![o] = Infected(@)]
    /\ UNCHANGED <<uploads, storage, workers, crashes, retries>>

-----------------------------------------------------------------------------
(* The clock.                                                              *)

intentOverdue(i) ==
    /\ intent[i] \in {"pending"} \cup Processing /\ ~overdue[i]
    /\ overdue' = [overdue EXCEPT ![i] = TRUE]
    /\ UNCHANGED <<intent, upload, evidence, row, storage, workers, crashes, retries>>

leaseExpires(o) ==
    /\ row[o].state = "processing" /\ ~row[o].expired
    /\ row' = [row EXCEPT ![o].expired = TRUE]
    /\ UNCHANGED <<uploads, evidence, storage, workers, crashes, retries>>

backoffEnds(o) ==
    /\ row[o].state = "pending" /\ ~row[o].due
    /\ row' = [row EXCEPT ![o].due = TRUE]
    /\ UNCHANGED <<uploads, evidence, storage, workers, crashes, retries>>

-----------------------------------------------------------------------------
\* Legacy evidence has its object, or lost it (EVIDENCE_OBJECT_MISSING).
Init ==
    /\ intent = [i \in Intents |-> "none"]
    /\ overdue = [i \in Intents |-> FALSE]
    /\ upload = [i \in Intents |-> "idle"]
    /\ evidence = [o \in Objects |-> IF o[1] = "legacy" THEN "legacy_unscanned" ELSE "none"]
    /\ row = [o \in Objects |-> NoRow]
    /\ stored \in SUBSET {<<"legacy", e>> : e \in Legacy}
    /\ inflight = {} /\ late = {}
    /\ pc = [w \in Workers |-> "ready"]
    /\ job = [w \in Workers |-> NoObject]
    /\ crashes = 0
    /\ retries = 0

Request(i) ==
    \/ putQuarantine(i) \/ markScanning(i) \/ scanUpload(i) \/ databaseFails(i)
    \/ reserveFinal(i) \/ readQuarantine(i) \/ copyFinal(i) \/ removeQuarantine(i) \/ completeUpload(i) \/ failUpload(i)

Cleanup(w) ==
    \/ \E o \in Objects : claimJobs(w, o)
    \/ checkReference(w) \/ deleteObject(w) \/ recordDeleted(w) \/ retryOrDead(w)

Time ==
    \/ \E i \in Intents : intentOverdue(i)
    \/ \E o \in Objects : leaseExpires(o) \/ backoffEnds(o)

Next ==
    \/ \E i \in Intents :
          \/ createUploadIntent(i) \/ rejectIntent(i) \/ expireIntent(i) \/ claimIntent(i)
          \/ Request(i) \/ crashUpload(i) \/ sweepStaleIntents(i)
    \/ \E w \in Workers : Cleanup(w) \/ crashWorker(w)
    \/ \E o \in Objects :
          \/ expireExhaustedClaims(o) \/ retryCleanup(o) \/ scanPendingEvidence(o) \/ lateWrite(o)
    \/ Time

(***************************************************************************)
(* Requests end (every call has a deadline), the cleanup job keeps being   *)
(* scheduled, and time passes.                                             *)
(***************************************************************************)
Fairness ==
    /\ \A i \in Intents : /\ WF_vars(Request(i))
                          /\ WF_vars(sweepStaleIntents(i))
                          /\ WF_vars(intentOverdue(i))
    /\ \A w \in Workers : WF_vars(Cleanup(w))
    /\ \A o \in Objects : /\ WF_vars(expireExhaustedClaims(o))
                          /\ WF_vars(leaseExpires(o) \/ backoffEnds(o))

Spec == Init /\ [][Next]_vars /\ Fairness

-----------------------------------------------------------------------------
(***************************************************************************)
(* Evidence that passed its scan keeps its bytes, whatever the sweep and   *)
(* the cleanup workers do: they never delete what a live row refers to,    *)
(* and the row is not created for an object already given up.              *)
(***************************************************************************)
CleanEvidenceIsStored == \A o \in Objects : evidence[o] = "clean" => o \in stored

(***************************************************************************)
(* An upload has an evidence row exactly when its intent completed, and    *)
(* its object is then retained: "Infected and scan-failed uploads are      *)
(* deleted, audited and never receive an evidence record."                 *)
(***************************************************************************)
EvidenceMatchesIntent ==
    \A i \in Intents :
        /\ evidence[finalKey(i)] # "none" <=> intent[i] = "completed"
        /\ row[finalKey(i)].state = "retained" <=> intent[i] = "completed"

\* The bytes an organization has at the provider stay within its quota, except for writes
\* that landed once their ledger row had been given up for deletion.
StorageWithinQuota == Cardinality(stored \ late) <= Quota

\* Whatever an upload wrote or may have written is retained, deleted or shown to an operator.
EveryObjectResolved ==
    \A o \in Objects : row[o].state \in {"held", "pending"} ~> row[o].state \in {"retained", "done", "dead"}

(***************************************************************************)
(* "A failed provider call must never make an object disappear from quota  *)
(* accounting or operational visibility."  (It can: a write that timed out *)
(* may be applied after the deletion of the object was recorded.)          *)
(***************************************************************************)
EveryObjectAccounted == stored \subseteq Kept \cup Charged
=============================================================================
