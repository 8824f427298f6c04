---------------------------- MODULE EmailOutbox -----------------------------
(***************************************************************************)
(* The durable email outboxes: payment reminders, fee statements,          *)
(* invitations and recall notices.  A row is claimed with a five-minute    *)
(* lease in one transaction and submitted to SMTP afterwards; a crash, a   *)
(* slow relay or an operator's retry may come between any two steps.       *)
(*                                                                         *)
(* Three of the queues submit inside a second transaction that locks the   *)
(* parent record (contract or invitation) and the row, and rechecks the    *)
(* lease and the recipient; recall notices are submitted with nothing      *)
(* locked and only the final UPDATE checks the lease.                      *)
(*                                                                         *)
(* A worker is a run of a process...Emails function: the scheduled job of  *)
(* some API instance or the operator's command line.  The advisory lock of *)
(* runTrackedJob serializes scheduled runs only, and is lost with its      *)
(* connection while the run goes on, so workers may overlap freely here.   *)
(***************************************************************************)
EXTENDS Naturals, FiniteSets

CONSTANTS
    Emails,         \* outbox rows
    Workers,        \* runs that may overlap; a worker's identity is its lease token
    Queues,         \* the queues of this instance
    MaxAttempts,    \* 8 in the code
    MaxCrashes,     \* bound: crashes of workers
    MaxRetries,     \* bound: operator retries of a row
    NoWorker

ASSUME OutboxAssumption ==
    /\ IsFiniteSet(Emails) /\ IsFiniteSet(Workers)
    /\ Queues \subseteq {"payment_reminder", "fee_statement", "invitation", "recall"}
    /\ MaxAttempts \in Nat \ {0} /\ MaxCrashes \in Nat /\ MaxRetries \in Nat
    /\ NoWorker \notin Workers

VARIABLES
    queue,          \* which outbox this is
    status,         \* status of each row; "absent" before it is enqueued
    attempts,
    lease,          \* lease_token: the worker that claimed the row
    expired,        \* lease_expires_at < NOW()
    due,            \* next_attempt_at <= NOW()
    eligible,       \* payment still overdue and undisputed, fee still issued, invitation still
                    \* open, recall recipient still active
    outdated,       \* invitations past their expires_at
    refused,        \* rows whose sealed invitation token could not be opened
    pc, email,      \* each worker's place in its loop, and the row it claimed
    crashes, retries,
    submissions,    \* how often SMTP accepted the message
    mishaps         \* how often an acceptance could go unrecorded

vars == <<queue, status, attempts, lease, expired, due, eligible, outdated, refused, pc, email,
          crashes, retries, submissions, mishaps>>

Statuses == {"absent", "queued", "sending", "sent", "suppressed", "failed", "failed_terminal"}
Resolved == {"sent", "suppressed", "failed_terminal"}

TypeOK ==
    /\ queue \in Queues
    /\ status \in [Emails -> Statuses]
    /\ attempts \in [Emails -> 0..MaxAttempts]
    /\ lease \in [Emails -> Workers \cup {NoWorker}]
    /\ expired \in [Emails -> BOOLEAN]
    /\ due \in [Emails -> BOOLEAN]
    /\ eligible \in [Emails -> BOOLEAN]
    /\ outdated \subseteq Emails
    /\ refused \subseteq Emails
    /\ pc \in [Workers -> {"ready", "claimed", "submitting", "failed", "refused"}]
    /\ email \in [Workers -> Emails]
    /\ crashes \in 0..MaxCrashes
    /\ retries \in [Emails -> 0..MaxRetries]
    /\ submissions \in [Emails -> Nat]
    /\ mishaps \in [Emails -> Nat]

-----------------------------------------------------------------------------
\* The queues whose second transaction holds the row and its parent through submission.
SubmitsUnderLock == queue # "recall"

Locked(e) == SubmitsUnderLock /\ \E w \in Workers : pc[w] = "submitting" /\ email[w] = e

\* queued or failed, or sending under a lease that ran out: what sweep and claim look for.
Waiting(e) == status[e] \in {"queued", "failed"} \/ (status[e] = "sending" /\ expired[e])

\* attempts>=8: the claim transaction ends the row.  (Late: attempts>8.)
ExhaustedLate(e) == Waiting(e) /\ ~Locked(e) /\ attempts[e] > MaxAttempts
Exhausted(e) == Waiting(e) /\ ~Locked(e) /\ attempts[e] >= MaxAttempts

\* claimRecallEmail also suppresses the rows of members no longer active.
Dropped(e) == queue = "recall" /\ ~eligible[e] /\ Waiting(e)

Claimable(e) ==
    /\ attempts[e] < MaxAttempts
    /\ ~Locked(e) /\ ~Dropped(e)
    /\ (status[e] \in {"queued", "failed"} /\ due[e]) \/ (status[e] = "sending" /\ expired[e])

NextAttempt(e) == attempts[e] + 1

-----------------------------------------------------------------------------
\* queueReminderEmails, enqueueFeeStatement, enqueueInvitationDelivery, queueRecallEmails.
enqueue(e) ==
    /\ status[e] = "absent"
    /\ status' = [status EXCEPT ![e] = "queued"]
    /\ due' = [due EXCEPT ![e] = TRUE]
    /\ UNCHANGED <<queue, outdated, refused, attempts, lease, expired, eligible, pc, email,
                   crashes, retries, submissions, mishaps>>

\* The claim transaction on row e, with the sweep that opens it; the sweep alone when a
\* loop finds nothing to claim is sweep below.
Swept == [e \in Emails |-> CASE Exhausted(e) -> "failed_terminal"
                             [] Dropped(e) /\ ~Exhausted(e) -> "suppressed"
                             [] OTHER -> status[e]]
Released(e) == Exhausted(e) \/ Dropped(e)

claim(w, e) ==
    /\ pc[w] = "ready"
    /\ Claimable(e)
    /\ status' = [Swept EXCEPT ![e] = "sending"]
    /\ attempts' = [attempts EXCEPT ![e] = NextAttempt(e)]
    /\ lease' = [x \in Emails |-> IF x = e THEN w ELSE IF Released(x) THEN NoWorker ELSE lease[x]]
    /\ expired' = [expired EXCEPT ![e] = FALSE]
    /\ pc' = [pc EXCEPT ![w] = IF SubmitsUnderLock THEN "claimed" ELSE "submitting"]
    /\ email' = [email EXCEPT ![w] = e]
    /\ UNCHANGED <<queue, outdated, refused, due, eligible, crashes, retries, submissions, mishaps>>

sweep(w) ==
    /\ pc[w] = "ready"
    /\ \A e \in Emails : ~Claimable(e)
    /\ \E e \in Emails : Released(e)
    /\ status' = Swept
    /\ lease' = [x \in Emails |-> IF Released(x) THEN NoWorker ELSE lease[x]]
    /\ UNCHANGED <<queue, outdated, refused, attempts, expired, due, eligible, pc, email,
                   crashes, retries, submissions, mishaps>>

(***************************************************************************)
(* The second transaction, up to delivery.send: the parent and the row are *)
(* locked, then lease_token=w AND status='sending' AND lease_expires_at >  *)
(* NOW() is read.  NOW() is when the transaction began, which may be       *)
(* before the lease ran out even if the lock came after.                   *)
(* (AnyToken: the token not compared.)                                     *)
(***************************************************************************)
OwnedAnyToken(w, e) == status[e] = "sending"
Owned(w, e) == status[e] = "sending" /\ lease[e] = w

\* (Unchecked: eligibility believed from when the row was queued.)
WantedUnchecked(e) == TRUE
Wanted(e) == eligible[e] /\ e \notin outdated

Suppress(e) ==
    /\ status' = [status EXCEPT ![e] = "suppressed"]
    /\ lease' = [lease EXCEPT ![e] = NoWorker]

begin(w) ==
    LET e == email[w] IN
    /\ pc[w] = "claimed"
    /\ ~Locked(e)
    /\ \/ /\ Owned(w, e) /\ Wanted(e)
          /\ pc' = [pc EXCEPT ![w] = "submitting"]
          /\ UNCHANGED <<status, lease>>
       \/ /\ Owned(w, e) /\ ~Wanted(e)
          /\ Suppress(e)
          /\ pc' = [pc EXCEPT ![w] = "ready"]
       \/ /\ ~Owned(w, e) \/ expired[e]
          /\ pc' = [pc EXCEPT ![w] = "ready"]
          /\ UNCHANGED <<status, lease>>
    /\ UNCHANGED <<queue, outdated, refused, attempts, expired, due, eligible, email,
                   crashes, retries, submissions, mishaps>>

\* The transaction fails before anything is submitted; an invitation's sealed token may
\* also turn out to be unusable (INVITATION_KEY_UNAVAILABLE, INVITATION_CREDENTIAL_INVALID).
abort(w) ==
    /\ pc[w] \in {"claimed", "submitting"}
    /\ \/ pc' = [pc EXCEPT ![w] = "failed"]
       \/ queue = "invitation" /\ pc[w] = "submitting" /\ pc' = [pc EXCEPT ![w] = "refused"]
    /\ UNCHANGED <<queue, outdated, refused, status, attempts, lease, expired, due, eligible, email,
                   crashes, retries, submissions, mishaps>>

\* SMTP accepts, and the row is recorded as sent if the lease is still this worker's.
submit(w) ==
    LET e == email[w] IN
    /\ pc[w] = "submitting"
    /\ submissions' = [submissions EXCEPT ![e] = @ + 1]
    /\ status' = [status EXCEPT ![e] = IF Owned(w, e) THEN "sent" ELSE @]
    /\ lease' = [lease EXCEPT ![e] = IF Owned(w, e) THEN NoWorker ELSE @]
    /\ pc' = [pc EXCEPT ![w] = "ready"]
    /\ UNCHANGED <<queue, outdated, refused, attempts, expired, due, eligible, email, crashes, retries, mishaps>>

\* The development adapter of a process without SMTP: only recall notices reach it.
discard(w) ==
    LET e == email[w] IN
    /\ queue = "recall" /\ pc[w] = "submitting"
    /\ IF Owned(w, e) THEN Suppress(e) ELSE UNCHANGED <<status, lease>>
    /\ pc' = [pc EXCEPT ![w] = "ready"]
    /\ UNCHANGED <<queue, outdated, refused, attempts, expired, due, eligible, email,
                   crashes, retries, submissions, mishaps>>

\* SMTP accepts but the answer or the commit is lost, and the worker sees a failure.
submitUnconfirmed(w) ==
    LET e == email[w] IN
    /\ pc[w] = "submitting"
    /\ submissions' = [submissions EXCEPT ![e] = @ + 1]
    /\ mishaps' = [mishaps EXCEPT ![e] = @ + 1]
    /\ pc' = [pc EXCEPT ![w] = "failed"]
    /\ UNCHANGED <<queue, outdated, refused, status, attempts, lease, expired, due, eligible, email, crashes, retries>>

\* The catch block: a retry later, or the end after the last attempt or a bad credential.
\* (Blind: the row updated by id alone.)
FailedRowBlind(w, e) == TRUE
FailedRow(w, e) == Owned(w, e)

recordFailure(w) ==
    LET e == email[w] IN
    /\ pc[w] \in {"failed", "refused"}
    /\ IF FailedRow(w, e)
       THEN /\ status' = [status EXCEPT ![e] =
                            IF attempts[e] >= MaxAttempts \/ pc[w] = "refused" THEN "failed_terminal" ELSE "failed"]
            /\ lease' = [lease EXCEPT ![e] = NoWorker]
            /\ due' = [due EXCEPT ![e] = FALSE]
            /\ refused' = IF pc[w] = "refused" THEN refused \cup {e} ELSE refused
       ELSE UNCHANGED <<status, lease, due, refused>>
    /\ pc' = [pc EXCEPT ![w] = "ready"]
    /\ UNCHANGED <<queue, outdated, attempts, expired, eligible, email, crashes, retries, submissions, mishaps>>

\* The process dies: its transaction is rolled back, its lease stays until it runs out, and
\* a message it was submitting may or may not have been accepted.
crash(w) ==
    LET e == email[w] IN
    /\ pc[w] # "ready" /\ crashes < MaxCrashes
    /\ crashes' = crashes + 1
    /\ pc' = [pc EXCEPT ![w] = "ready"]
    /\ \/ UNCHANGED <<submissions, mishaps>>
       \/ /\ pc[w] = "submitting"
          /\ submissions' = [submissions EXCEPT ![e] = @ + 1]
          /\ mishaps' = [mishaps EXCEPT ![e] = @ + 1]
    /\ UNCHANGED <<queue, outdated, refused, status, attempts, lease, expired, due, eligible, email, retries>>

\* Five minutes pass.  A recall notice still being submitted then may be sent by another.
expireLease(e) ==
    /\ status[e] = "sending" /\ ~expired[e]
    /\ expired' = [expired EXCEPT ![e] = TRUE]
    /\ mishaps' = [mishaps EXCEPT ![e] =
                     IF ~SubmitsUnderLock /\ pc[lease[e]] = "submitting" /\ email[lease[e]] = e THEN @ + 1 ELSE @]
    /\ UNCHANGED <<queue, outdated, refused, status, attempts, lease, due, eligible, pc, email, crashes, retries, submissions>>

\* next_attempt_at is reached.
backoffEnds(e) ==
    /\ status[e] = "failed" /\ ~due[e]
    /\ due' = [due EXCEPT ![e] = TRUE]
    /\ UNCHANGED <<queue, outdated, refused, status, attempts, lease, expired, eligible, pc, email,
                   crashes, retries, submissions, mishaps>>

(***************************************************************************)
(* The payment is verified or disputed, the fee cancelled, the member      *)
(* deactivated; the invitation accepted, revoked or superseded, which      *)
(* suppresses its undelivered row in the same transaction                  *)
(* (cancelInvitationDelivery, enqueueInvitationDelivery).  The contract or *)
(* the invitation cannot change while a submission holds its lock.         *)
(***************************************************************************)
lapse(e) ==
    /\ status[e] # "absent" /\ eligible[e] /\ ~Locked(e)
    /\ eligible' = [eligible EXCEPT ![e] = FALSE]
    /\ IF queue = "invitation" /\ status[e] # "sent" THEN Suppress(e) ELSE UNCHANGED <<status, lease>>
    /\ UNCHANGED <<queue, outdated, refused, attempts, expired, due, pc, email, crashes, retries, submissions, mishaps>>

\* An invitation reaches its expires_at, which no lock prevents.
invitationExpires(e) ==
    /\ queue = "invitation" /\ status[e] # "absent" /\ e \notin outdated
    /\ outdated' = outdated \cup {e}
    /\ UNCHANGED <<queue, refused, status, attempts, lease, expired, due, eligible, pc, email,
                   crashes, retries, submissions, mishaps>>

\* A rejected payment is overdue again, a member is reactivated; an invitation stays closed.
reinstate(e) ==
    /\ queue # "invitation" /\ ~eligible[e] /\ ~Locked(e)
    /\ eligible' = [eligible EXCEPT ![e] = TRUE]
    /\ UNCHANGED <<queue, outdated, refused, status, attempts, lease, expired, due, pc, email,
                   crashes, retries, submissions, mishaps>>

\* processInvitationEmails first clears the credentials of closed invitations, whatever
\* state their rows are in, unless a submission has them locked.
purge(e) ==
    /\ queue = "invitation" /\ (~eligible[e] \/ e \in outdated) /\ ~Locked(e)
    /\ status[e] \in {"queued", "sending", "failed", "failed_terminal"}
    /\ Suppress(e)
    /\ UNCHANGED <<queue, outdated, refused, attempts, expired, due, eligible, pc, email,
                   crashes, retries, submissions, mishaps>>

\* retryEmail, by an operator: terminal, unleased work without a recorded submission.
retryEmail(e) ==
    /\ status[e] = "failed_terminal" /\ lease[e] = NoWorker /\ retries[e] < MaxRetries
    /\ queue = "invitation" => eligible[e] /\ e \notin outdated \cup refused
    /\ status' = [status EXCEPT ![e] = "queued"]
    /\ attempts' = [attempts EXCEPT ![e] = 0]
    /\ due' = [due EXCEPT ![e] = TRUE]
    /\ retries' = [retries EXCEPT ![e] = @ + 1]
    /\ UNCHANGED <<queue, outdated, refused, lease, expired, eligible, pc, email, crashes, submissions, mishaps>>

-----------------------------------------------------------------------------
Init ==
    /\ queue \in Queues
    /\ status = [e \in Emails |-> "absent"]
    /\ attempts = [e \in Emails |-> 0]
    /\ lease = [e \in Emails |-> NoWorker]
    /\ expired = [e \in Emails |-> FALSE]
    /\ due = [e \in Emails |-> FALSE]
    /\ eligible = [e \in Emails |-> TRUE]
    /\ outdated = {}
    /\ refused = {}
    /\ pc = [w \in Workers |-> "ready"]
    /\ email \in [Workers -> Emails]
    /\ crashes = 0
    /\ retries = [e \in Emails |-> 0]
    /\ submissions = [e \in Emails |-> 0]
    /\ mishaps = [e \in Emails |-> 0]

Work(w) ==
    \/ \E e \in Emails : claim(w, e)
    \/ sweep(w)
    \/ begin(w)
    \/ submit(w)
    \/ recordFailure(w)

Time(e) == expireLease(e) \/ backoffEnds(e)

Next ==
    \/ \E w \in Workers : Work(w) \/ discard(w) \/ abort(w) \/ submitUnconfirmed(w) \/ crash(w)
    \/ \E e \in Emails :
          \/ Time(e) \/ enqueue(e)
          \/ lapse(e) \/ invitationExpires(e) \/ reinstate(e) \/ purge(e) \/ retryEmail(e)

Fairness ==
    /\ \A w \in Workers : WF_vars(Work(w))
    /\ \A e \in Emails : WF_vars(Time(e))

Spec == Init /\ [][Next]_vars /\ Fairness

-----------------------------------------------------------------------------
(***************************************************************************)
(* "SMTP is at least once: a crash after submission but before commit can  *)
(* duplicate an email" - and nothing else can: a message is accepted more  *)
(* than once only if a crash, a lost answer or (recall notices) a lease    *)
(* that ran out during submission left an acceptance unrecorded.           *)
(***************************************************************************)
DuplicateNeedsMishap == \A e \in Emails : submissions[e] <= 1 + mishaps[e]

(***************************************************************************)
(* "receipt verification cannot race stale payment demands": a queue that  *)
(* locks its parent record submits only what is still wanted, for a row    *)
(* that only this worker can be sending.                                   *)
(***************************************************************************)
NoStaleSubmission ==
    \A w \in Workers :
        SubmitsUnderLock /\ pc[w] = "submitting" =>
            /\ eligible[email[w]]
            /\ status[email[w]] = "sending"
            /\ lease[email[w]] = w

\* A recorded submission is not replayed: nobody overwrites a row that is sent.
SentIsFinal == [][\A e \in Emails : status[e] = "sent" => status'[e] = "sent"]_vars

\* Every queued email is sent, suppressed or reported as failed, whatever crashes.
EveryEmailResolved == \A e \in Emails : status[e] = "queued" ~> status[e] \in Resolved
=============================================================================
