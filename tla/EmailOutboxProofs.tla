------------------------- MODULE EmailOutboxProofs --------------------------
(***************************************************************************)
(* Theorems about EmailOutbox for every number of rows and of overlapping  *)
(* workers, every queue, and every bound on attempts, crashes and retries. *)
(***************************************************************************)
EXTENDS EmailOutbox, FiniteSetTheorems, TLAPS

-----------------------------------------------------------------------------
(***************************************************************************)
(* The inductive invariant.  A worker that is submitting either has a      *)
(* lease nobody else can take from it - it runs under the row's lock, or   *)
(* the five minutes are not over - or its submission is already counted as *)
(* a mishap.  Only the first kind can add an acceptance nobody counted,    *)
(* and by adding it the row becomes sent, which it stays.                  *)
(***************************************************************************)
Submitting(w, e) == pc[w] = "submitting" /\ email[w] = e

Orphans(e) ==
    {w \in Workers : /\ Submitting(w, e)
                     /\ ~Owned(w, e) \/ (~SubmitsUnderLock /\ expired[e])}

Recorded(e) == IF status[e] = "sent" THEN 1 ELSE 0

SubmissionsAccounted ==
    \A e \in Emails : submissions[e] + Cardinality(Orphans(e)) <= mishaps[e] + Recorded(e)

\* A recall notice goes from its claim straight to SMTP: there is no second transaction.
SubmittedAtOnce == ~SubmitsUnderLock => \A w \in Workers : pc[w] # "claimed"

OutboxInv == TypeOK /\ NoStaleSubmission /\ SubmittedAtOnce /\ SubmissionsAccounted

-----------------------------------------------------------------------------
(* Types.                                                                  *)

\* Every queue starts empty and well typed.
LEMMA InitTypes == Init => TypeOK
BY OutboxAssumption DEF Init, TypeOK, Statuses

\* The sweep leaves every row with a status of the schema.
LEMMA SweptStatus ==
    ASSUME TypeOK
    PROVE  Swept \in [Emails -> Statuses]
<1>1. ASSUME NEW e \in Emails
      PROVE  (CASE Exhausted(e) -> "failed_terminal"
                [] Dropped(e) /\ ~Exhausted(e) -> "suppressed"
                [] OTHER -> status[e]) \in Statuses
    <2>1. CASE Exhausted(e)
        BY <2>1 DEF Statuses
    <2>2. CASE Dropped(e) /\ ~Exhausted(e)
        BY <2>2 DEF Statuses
    <2>3. CASE ~Exhausted(e) /\ ~Dropped(e)
        BY <2>3 DEF TypeOK
    <2>. QED
        BY <2>1, <2>2, <2>3
<1>. QED
    BY <1>1 DEF Swept

\* A claim stays within the attempts: only a row with fewer than MaxAttempts is claimed.
LEMMA ClaimTypes ==
    ASSUME TypeOK, NEW w \in Workers, NEW e \in Emails, claim(w, e)
    PROVE  TypeOK'
<1>1. status' \in [Emails -> Statuses]
    BY SweptStatus DEF claim, Statuses
<1>2. attempts' \in [Emails -> 0..MaxAttempts]
    BY OutboxAssumption DEF TypeOK, claim, Claimable, NextAttempt
<1>3. lease' \in [Emails -> Workers \cup {NoWorker}]
    BY DEF TypeOK, claim
<1>. QED
    BY <1>1, <1>2, <1>3 DEF TypeOK, claim

\* A worker's steps keep every column within its type.
LEMMA WorkTypes ==
    ASSUME TypeOK, NEW w \in Workers,
           Work(w) \/ discard(w) \/ abort(w) \/ submitUnconfirmed(w) \/ crash(w)
    PROVE  TypeOK'
<1>0. email[w] \in Emails
    BY DEF TypeOK
<1>1. CASE sweep(w)
    <2>1. lease' \in [Emails -> Workers \cup {NoWorker}]
        BY <1>1 DEF TypeOK, sweep
    <2>. QED
        BY <1>1, <2>1, SweptStatus DEF TypeOK, sweep
<1>2. CASE begin(w)
    BY <1>0, <1>2 DEF TypeOK, begin, Suppress, Statuses
<1>3. CASE submit(w)
    BY <1>0, <1>3 DEF TypeOK, submit, Statuses
<1>4. CASE recordFailure(w)
    <2>1. CASE FailedRow(w, email[w])
        <3>1. status' \in [Emails -> Statuses]
            BY <1>0, <1>4, <2>1 DEF TypeOK, recordFailure, Statuses
        <3>2. refused' \subseteq Emails
            BY <1>0, <1>4, <2>1 DEF TypeOK, recordFailure
        <3>. QED
            BY <1>0, <1>4, <2>1, <3>1, <3>2 DEF TypeOK, recordFailure
    <2>2. CASE ~FailedRow(w, email[w])
        BY <1>0, <1>4, <2>2 DEF TypeOK, recordFailure
    <2>. QED
        BY <2>1, <2>2
<1>5. CASE discard(w)
    BY <1>0, <1>5 DEF TypeOK, discard, Suppress, Statuses
<1>6. CASE abort(w)
    BY <1>6 DEF TypeOK, abort
<1>7. CASE submitUnconfirmed(w)
    BY <1>0, <1>7 DEF TypeOK, submitUnconfirmed
<1>8. CASE crash(w)
    BY <1>0, <1>8, OutboxAssumption DEF TypeOK, crash
<1>. QED
    BY <1>1, <1>2, <1>3, <1>4, <1>5, <1>6, <1>7, <1>8, ClaimTypes DEF Work

\* So do the clock, the parent records and the operator.
LEMMA RowTypes ==
    ASSUME TypeOK, NEW e \in Emails,
           \/ Time(e) \/ enqueue(e)
           \/ lapse(e) \/ invitationExpires(e) \/ reinstate(e) \/ purge(e) \/ retryEmail(e)
    PROVE  TypeOK'
<1>1. CASE expireLease(e)
    BY <1>1 DEF TypeOK, expireLease
<1>2. CASE backoffEnds(e)
    BY <1>2 DEF TypeOK, backoffEnds
<1>3. CASE enqueue(e)
    BY <1>3 DEF TypeOK, enqueue, Statuses
<1>4. CASE lapse(e)
    BY <1>4 DEF TypeOK, lapse, Suppress, Statuses
<1>5. CASE invitationExpires(e)
    BY <1>5 DEF TypeOK, invitationExpires
<1>6. CASE reinstate(e)
    BY <1>6 DEF TypeOK, reinstate
<1>7. CASE purge(e)
    BY <1>7 DEF TypeOK, purge, Suppress, Statuses
<1>8. CASE retryEmail(e)
    BY <1>8, OutboxAssumption DEF TypeOK, retryEmail, Statuses
<1>. QED
    BY <1>1, <1>2, <1>3, <1>4, <1>5, <1>6, <1>7, <1>8 DEF Time

\* Types are kept by every step.
LEMMA StepTypes == TypeOK /\ [Next]_vars => TypeOK'
<1>1. ASSUME TypeOK, UNCHANGED vars PROVE TypeOK'
    BY <1>1 DEF TypeOK, vars
<1>. QED
    BY <1>1, WorkTypes, RowTypes DEF Next

-----------------------------------------------------------------------------
(* What a step does to a row that is being submitted, and to one sent.     *)

\* The claim transaction and its sweep pass over a row that is sent or locked.
LEMMA SweptKeeps ==
    ASSUME TypeOK, NEW e \in Emails,
           \/ status[e] = "sent"
           \/ status[e] = "sending" /\ ~expired[e]
           \/ Locked(e)
    PROVE  Swept[e] = status[e] /\ ~Released(e) /\ ~Claimable(e)
<1>1. ~Exhausted(e) /\ ~Dropped(e) /\ ~Claimable(e)
    BY DEF Exhausted, Dropped, Waiting, Claimable, Locked, SubmitsUnderLock
<1>. QED
    BY <1>1 DEF Swept, Released

\* What SentIsFinal says of one step.
SentStay == \A e \in Emails : status[e] = "sent" => status'[e] = "sent"

\* No step of a worker, of time, of a parent record or of an operator overwrites a sent row.
LEMMA StepSent == TypeOK /\ [Next]_vars => SentStay
<1>. SUFFICES ASSUME TypeOK, [Next]_vars, NEW e \in Emails, status[e] = "sent"
              PROVE  status'[e] = "sent"
    BY DEF SentStay
<1>0. Swept[e] = "sent" /\ ~Claimable(e)
    BY SweptKeeps
<1>1. ASSUME NEW w \in Workers, Work(w) PROVE status'[e] = "sent"
    <2>1. ASSUME NEW x \in Emails, claim(w, x) PROVE status'[e] = "sent"
        BY <1>0, <2>1 DEF TypeOK, claim, Swept
    <2>2. CASE sweep(w)
        BY <1>0, <2>2 DEF sweep
    <2>3. CASE begin(w)
        BY <2>3 DEF TypeOK, begin, Owned, Suppress
    <2>4. CASE submit(w)
        BY <2>4 DEF TypeOK, submit, Owned
    <2>5. CASE recordFailure(w)
        <3>1. CASE FailedRow(w, email[w])
            BY <2>5, <3>1 DEF TypeOK, recordFailure, FailedRow, Owned
        <3>2. CASE ~FailedRow(w, email[w])
            BY <2>5, <3>2 DEF recordFailure
        <3>. QED
            BY <3>1, <3>2
    <2>. QED
        BY <1>1, <2>1, <2>2, <2>3, <2>4, <2>5 DEF Work
<1>2. ASSUME NEW w \in Workers, discard(w) \/ abort(w) \/ submitUnconfirmed(w) \/ crash(w)
      PROVE  status'[e] = "sent"
    BY <1>2 DEF TypeOK, discard, Owned, Suppress, abort, submitUnconfirmed, crash
<1>3. ASSUME NEW x \in Emails,
             \/ Time(x) \/ enqueue(x)
             \/ lapse(x) \/ invitationExpires(x) \/ reinstate(x) \/ purge(x) \/ retryEmail(x)
      PROVE  status'[e] = "sent"
    BY <1>3 DEF TypeOK, Time, expireLease, backoffEnds, enqueue, lapse, Suppress, invitationExpires,
                reinstate, purge, retryEmail
<1>4. CASE UNCHANGED vars
    BY <1>4 DEF vars
<1>. QED
    BY <1>1, <1>2, <1>3, <1>4 DEF Next

-----------------------------------------------------------------------------
(* A submission under a lock is never overtaken.                           *)

\* The outbox of an instance is always the same one.
LEMMA QueueStays == [Next]_vars => queue' = queue
BY DEF Next, vars, Work, claim, sweep, begin, submit, recordFailure, discard, abort, submitUnconfirmed,
       crash, Time, expireLease, backoffEnds, enqueue, lapse, invitationExpires, reinstate, purge, retryEmail

\* What NoStaleSubmission says of worker w.
Current(w) ==
    SubmitsUnderLock /\ pc[w] = "submitting" =>
        eligible[email[w]] /\ status[email[w]] = "sending" /\ lease[email[w]] = w

\* A step of worker v leaves a submission of w under the lock alone, and starts one only if due.
LEMMA WorkCurrent ==
    ASSUME TypeOK, NoStaleSubmission, NEW w \in Workers, NEW v \in Workers,
           Work(v) \/ discard(v) \/ abort(v) \/ submitUnconfirmed(v) \/ crash(v), queue' = queue
    PROVE  Current(w)'
<1>. SUFFICES ASSUME SubmitsUnderLock, pc'[w] = "submitting"
              PROVE  eligible'[email'[w]] /\ status'[email'[w]] = "sending" /\ lease'[email'[w]] = w
    BY DEF Current, SubmitsUnderLock
<1>0. pc[w] = "submitting" =>
        /\ email[w] \in Emails /\ eligible[email[w]] /\ status[email[w]] = "sending" /\ lease[email[w]] = w
        /\ Locked(email[w]) /\ Swept[email[w]] = "sending" /\ ~Released(email[w]) /\ ~Claimable(email[w])
    <2>. SUFFICES ASSUME pc[w] = "submitting" PROVE
            /\ email[w] \in Emails /\ eligible[email[w]] /\ status[email[w]] = "sending" /\ lease[email[w]] = w
            /\ Locked(email[w]) /\ Swept[email[w]] = "sending" /\ ~Released(email[w]) /\ ~Claimable(email[w])
        OBVIOUS
    <2>1. email[w] \in Emails /\ Locked(email[w])
        BY DEF TypeOK, Locked
    <2>. QED
        BY <2>1, SweptKeeps DEF NoStaleSubmission
<1>1. ASSUME NEW x \in Emails, claim(v, x) PROVE Current(w)'
    BY <1>0, <1>1 DEF TypeOK, claim, Current, SubmitsUnderLock
<1>2. CASE sweep(v)
    BY <1>0, <1>2 DEF TypeOK, sweep
<1>3. CASE begin(v)
    BY <1>0, <1>3 DEF TypeOK, begin, Owned, Wanted, Suppress
<1>4. CASE submit(v)
    BY <1>0, <1>4 DEF TypeOK, submit, Owned
<1>5. CASE recordFailure(v)
    <2>1. CASE FailedRow(v, email[v])
        BY <1>0, <1>5, <2>1 DEF TypeOK, recordFailure, FailedRow, Owned
    <2>2. CASE ~FailedRow(v, email[v])
        BY <1>0, <1>5, <2>2 DEF TypeOK, recordFailure
    <2>. QED
        BY <2>1, <2>2
<1>6. CASE discard(v) \/ abort(v) \/ submitUnconfirmed(v) \/ crash(v)
    BY <1>0, <1>6 DEF TypeOK, discard, SubmitsUnderLock, abort, submitUnconfirmed, crash
<1>. QED
    BY <1>1, <1>2, <1>3, <1>4, <1>5, <1>6 DEF Work, Current, SubmitsUnderLock

\* Neither time nor what happens to the payment, fee, invitation or member reaches it.
LEMMA RowCurrent ==
    ASSUME TypeOK, NoStaleSubmission, NEW w \in Workers, NEW e \in Emails,
           \/ Time(e) \/ enqueue(e)
           \/ lapse(e) \/ invitationExpires(e) \/ reinstate(e) \/ purge(e) \/ retryEmail(e)
    PROVE  Current(w)'
<1>0. ASSUME SubmitsUnderLock, pc[w] = "submitting"
      PROVE  /\ eligible[email[w]] /\ status[email[w]] = "sending" /\ lease[email[w]] = w
             /\ Locked(email[w]) /\ email[w] \in Emails
    BY <1>0 DEF TypeOK, NoStaleSubmission, Locked
<1>1. CASE Time(e) \/ enqueue(e) \/ invitationExpires(e) \/ retryEmail(e)
    BY <1>0, <1>1 DEF TypeOK, Time, expireLease, backoffEnds, enqueue, invitationExpires, retryEmail, Current,
                      SubmitsUnderLock
<1>2. CASE lapse(e) \/ reinstate(e) \/ purge(e)
    BY <1>0, <1>2 DEF TypeOK, lapse, reinstate, purge, Suppress, Current, SubmitsUnderLock
<1>. QED
    BY <1>1, <1>2

\* NoStaleSubmission is kept by every step.
LEMMA StepCurrent == TypeOK /\ NoStaleSubmission /\ [Next]_vars => NoStaleSubmission'
<1>. SUFFICES ASSUME TypeOK, NoStaleSubmission, [Next]_vars, NEW w \in Workers
              PROVE  Current(w)'
    BY DEF NoStaleSubmission, Current, SubmitsUnderLock
<1>1. CASE UNCHANGED vars
    BY <1>1 DEF vars, NoStaleSubmission, Current, SubmitsUnderLock
<1>. QED
    BY <1>1, WorkCurrent, RowCurrent, QueueStays DEF Next

-----------------------------------------------------------------------------
(* Every acceptance by SMTP is accounted for.                              *)

\* There are finitely many submissions in flight.
LEMMA OrphansFinite == ASSUME NEW e PROVE IsFiniteSet(Orphans(e)) /\ Cardinality(Orphans(e)) \in Nat
<1>1. Orphans(e) \in SUBSET Workers
    BY DEF Orphans
<1>. QED
    BY <1>1, FS_Subset, FS_CardinalityType, OutboxAssumption

\* Under a lock a submission is the row's own, so there are no orphans.
LEMMA NoOrphansUnderLock ==
    ASSUME NoStaleSubmission, SubmitsUnderLock, NEW e
    PROVE  Orphans(e) = {}
BY DEF NoStaleSubmission, Orphans, Submitting, Owned

\* What keeps the account of row e: a step accepts nothing, or what it adds is covered.
Covered(e) ==
    \/ /\ submissions'[e] = submissions[e] /\ mishaps'[e] = mishaps[e]
       /\ Orphans(e)' \subseteq Orphans(e)
    \/ /\ submissions'[e] = submissions[e] + 1 /\ mishaps'[e] = mishaps[e] + 1
       /\ Orphans(e)' \subseteq Orphans(e)
    \/ /\ submissions'[e] = submissions[e] + 1 /\ mishaps'[e] = mishaps[e]
       /\ status[e] # "sent" /\ status'[e] = "sent"
       /\ Orphans(e)' \subseteq Orphans(e)
    \/ \E w \in Orphans(e) :
          /\ submissions'[e] = submissions[e] + 1 /\ mishaps'[e] = mishaps[e]
          /\ Orphans(e)' \subseteq Orphans(e) \ {w}
    \/ \E w \in Workers \cup {NoWorker} :
          /\ submissions'[e] = submissions[e] /\ mishaps'[e] = mishaps[e] + 1
          /\ Orphans(e)' \subseteq Orphans(e) \cup {w}

\* A covered step keeps the account.
LEMMA CoveredAccount ==
    ASSUME TypeOK, TypeOK', SubmissionsAccounted, NEW e \in Emails, Covered(e),
           status[e] = "sent" => status'[e] = "sent"
    PROVE  submissions'[e] + Cardinality(Orphans(e)') <= mishaps'[e] + Recorded(e)'
<1>. DEFINE c == Cardinality(Orphans(e))
            d == Cardinality(Orphans(e)')
<1>1. c \in Nat /\ d \in Nat /\ IsFiniteSet(Orphans(e)) /\ IsFiniteSet(Orphans(e)')
    <2>1. Orphans(e) \in SUBSET Workers /\ Orphans(e)' \in SUBSET Workers
        BY DEF Orphans
    <2>. QED
        BY <2>1, FS_Subset, FS_CardinalityType, OutboxAssumption
<1>2. /\ submissions[e] \in Nat /\ mishaps[e] \in Nat /\ submissions'[e] \in Nat /\ mishaps'[e] \in Nat
      /\ submissions[e] + c <= mishaps[e] + Recorded(e)
      /\ Recorded(e) \in 0..1 /\ Recorded(e)' \in 0..1 /\ Recorded(e) <= Recorded(e)'
    BY DEF TypeOK, SubmissionsAccounted, Recorded
<1>3. Orphans(e)' \subseteq Orphans(e) => d <= c
    BY <1>1, FS_Subset
<1>4. ASSUME NEW w \in Orphans(e), Orphans(e)' \subseteq Orphans(e) \ {w}
      PROVE  d + 1 <= c
    <2>1. IsFiniteSet(Orphans(e) \ {w}) /\ Cardinality(Orphans(e) \ {w}) = c - 1
        BY <1>1, FS_RemoveElement
    <2>2. d <= Cardinality(Orphans(e) \ {w})
        BY <2>1, <1>4, FS_Subset
    <2>. HIDE DEF c, d
    <2>. QED
        BY <1>1, <2>1, <2>2
<1>5. ASSUME NEW w, Orphans(e)' \subseteq Orphans(e) \cup {w}
      PROVE  d <= c + 1
    <2>1. IsFiniteSet(Orphans(e) \cup {w}) /\ Cardinality(Orphans(e) \cup {w}) \in {c, c + 1}
        BY <1>1, FS_AddElement
    <2>2. d <= Cardinality(Orphans(e) \cup {w})
        BY <2>1, <1>5, FS_Subset
    <2>. HIDE DEF c, d
    <2>. QED
        BY <1>1, <2>1, <2>2
<1>6. status[e] # "sent" /\ status'[e] = "sent" => Recorded(e) = 0 /\ Recorded(e)' = 1
    BY DEF Recorded
<1>. HIDE DEF c, d
<1>7. submissions'[e] + d <= mishaps'[e] + Recorded(e)'
    BY <1>1, <1>2, <1>3, <1>4, <1>5, <1>6 DEF Covered
<1>. QED
    BY <1>7 DEF d

\* Worker w becomes an orphan of row e by nothing but the end of its lease.
NoNewOrphans(e) ==
    \A w \in Workers : w \in Orphans(e)' => w \in Orphans(e)

\* No step of a worker orphans a submission: a lease that is not over cannot be taken away.
LEMMA OrphansOfWork ==
    ASSUME TypeOK, SubmittedAtOnce, ~SubmitsUnderLock, queue' = queue, NEW v \in Workers, NEW e \in Emails,
           Work(v) \/ discard(v) \/ abort(v) \/ submitUnconfirmed(v) \/ crash(v)
    PROVE  NoNewOrphans(e)
<1>. SUFFICES ASSUME NEW w \in Workers, w \in Orphans(e)', w \notin Orphans(e)
              PROVE  FALSE
    BY DEF NoNewOrphans
<1>1. pc'[w] = "submitting" /\ email'[w] = e /\ (~(status'[e] = "sending" /\ lease'[e] = w) \/ expired'[e])
    BY DEF Orphans, Submitting, Owned
<1>2. pc[w] = "submitting" /\ email[w] = e => status[e] = "sending" /\ lease[e] = w /\ ~expired[e]
    BY DEF Orphans, Submitting, Owned
<1>3. status[e] = "sending" /\ ~expired[e] => Swept[e] = "sending" /\ ~Released(e) /\ ~Claimable(e)
    BY SweptKeeps
<1>4. ASSUME NEW x \in Emails, claim(v, x) PROVE FALSE
    <2>1. CASE w = v
        BY <1>1, <1>4, <2>1, SweptStatus DEF TypeOK, claim
    <2>2. CASE w # v
        <3>1. pc[w] = "submitting" /\ email[w] = e /\ x # e
            BY <1>1, <1>2, <1>3, <1>4, <2>2 DEF TypeOK, claim
        <3>2. status'[e] = "sending" /\ lease'[e] = w /\ ~expired'[e]
            BY <1>2, <1>3, <1>4, <3>1, SweptStatus DEF TypeOK, claim
        <3>. QED
            BY <1>1, <3>2
    <2>. QED
        BY <2>1, <2>2
<1>5. CASE sweep(v)
    BY <1>1, <1>2, <1>3, <1>5 DEF TypeOK, sweep
<1>6. CASE begin(v)
    BY <1>6 DEF SubmittedAtOnce, begin
<1>7. CASE submit(v)
    BY <1>1, <1>2, <1>7 DEF TypeOK, submit, Owned
<1>8. CASE recordFailure(v)
    <2>1. CASE FailedRow(v, email[v])
        BY <1>1, <1>2, <1>8, <2>1 DEF TypeOK, recordFailure, FailedRow, Owned
    <2>2. CASE ~FailedRow(v, email[v])
        BY <1>1, <1>2, <1>8, <2>2 DEF TypeOK, recordFailure
    <2>. QED
        BY <2>1, <2>2
<1>9. CASE discard(v)
    BY <1>1, <1>2, <1>9 DEF TypeOK, discard, Owned, Suppress
<1>10. CASE abort(v) \/ submitUnconfirmed(v) \/ crash(v)
    BY <1>1, <1>2, <1>10 DEF TypeOK, abort, submitUnconfirmed, crash
<1>. QED
    BY <1>4, <1>5, <1>6, <1>7, <1>8, <1>9, <1>10 DEF Work

\* Nor does a parent record, an operator or the end of a backoff.
LEMMA OrphansOfRow ==
    ASSUME TypeOK, ~SubmitsUnderLock, queue' = queue, NEW x \in Emails, NEW e \in Emails,
           \/ backoffEnds(x) \/ enqueue(x)
           \/ lapse(x) \/ invitationExpires(x) \/ reinstate(x) \/ purge(x) \/ retryEmail(x)
    PROVE  NoNewOrphans(e)
<1>. SUFFICES ASSUME NEW w \in Workers, w \in Orphans(e)', w \notin Orphans(e)
              PROVE  FALSE
    BY DEF NoNewOrphans
<1>1. pc'[w] = "submitting" /\ email'[w] = e /\ (~(status'[e] = "sending" /\ lease'[e] = w) \/ expired'[e])
    BY DEF Orphans, Submitting, Owned
<1>2. pc[w] = "submitting" /\ email[w] = e => status[e] = "sending" /\ lease[e] = w /\ ~expired[e]
    BY DEF Orphans, Submitting, Owned
<1>3. queue = "recall"
    BY DEF SubmitsUnderLock
<1>. QED
    BY <1>1, <1>2, <1>3 DEF TypeOK, backoffEnds, enqueue, lapse, invitationExpires, reinstate, purge, retryEmail

\* A lease that ends during a submission is counted, and orphans that submission alone.
LEMMA ExpiryCovered ==
    ASSUME TypeOK, NoStaleSubmission', queue' = queue, NEW x \in Emails, NEW e \in Emails, expireLease(x)
    PROVE  Covered(e)
<1>1. CASE SubmitsUnderLock
    <2>1. Orphans(e)' = {}
        BY <1>1, NoOrphansUnderLock DEF SubmitsUnderLock, NoStaleSubmission, Orphans, Submitting, Owned
    <2>. QED
        BY <1>1, <2>1 DEF TypeOK, expireLease, Covered
<1>2. CASE ~SubmitsUnderLock /\ x = e /\ pc[lease[e]] = "submitting" /\ email[lease[e]] = e
    <2>1. submissions'[e] = submissions[e] /\ mishaps'[e] = mishaps[e] + 1
        BY <1>2 DEF TypeOK, expireLease
    <2>2. Orphans(e)' \subseteq Orphans(e) \cup {lease[e]}
        BY <1>2 DEF TypeOK, expireLease, Orphans, Submitting, Owned, SubmitsUnderLock
    <2>. QED
        BY <1>2, <2>1, <2>2 DEF TypeOK, Covered
<1>3. CASE ~SubmitsUnderLock /\ x = e /\ ~(pc[lease[e]] = "submitting" /\ email[lease[e]] = e)
    <2>1. submissions'[e] = submissions[e] /\ mishaps'[e] = mishaps[e]
        BY <1>3 DEF TypeOK, expireLease
    <2>2. Orphans(e)' \subseteq Orphans(e)
        BY <1>3 DEF TypeOK, expireLease, Orphans, Submitting, Owned, SubmitsUnderLock
    <2>. QED
        BY <2>1, <2>2 DEF Covered
<1>4. CASE ~SubmitsUnderLock /\ x # e
    <2>1. submissions'[e] = submissions[e] /\ mishaps'[e] = mishaps[e]
        BY <1>4 DEF TypeOK, expireLease
    <2>2. Orphans(e)' \subseteq Orphans(e)
        BY <1>4 DEF TypeOK, expireLease, Orphans, Submitting, Owned, SubmitsUnderLock
    <2>. QED
        BY <2>1, <2>2 DEF Covered
<1>. QED
    BY <1>1, <1>2, <1>3, <1>4

\* A recorded acceptance makes its row sent; an unrecorded one ends an orphan.
LEMMA SubmissionCovered ==
    ASSUME TypeOK, NoStaleSubmission, NEW w \in Workers, NEW e \in Emails, submit(w), NoNewOrphans(e)
    PROVE  Covered(e)
<1>1. Orphans(e)' \subseteq Orphans(e)
    BY DEF NoNewOrphans, Orphans
<1>2. mishaps'[e] = mishaps[e]
    BY DEF submit
<1>3. CASE e # email[w]
    BY <1>1, <1>2, <1>3 DEF TypeOK, submit, Covered
<1>4. CASE e = email[w] /\ Owned(w, e)
    <2>1. submissions'[e] = submissions[e] + 1 /\ status[e] = "sending" /\ status'[e] = "sent"
        BY <1>4 DEF TypeOK, submit, Owned
    <2>. QED
        BY <1>1, <1>2, <2>1 DEF Covered
<1>5. CASE e = email[w] /\ ~Owned(w, e)
    <2>1. w \in Orphans(e)
        BY <1>5 DEF Orphans, Submitting, submit
    <2>2. w \notin Orphans(e)' /\ submissions'[e] = submissions[e] + 1
        BY <1>5 DEF TypeOK, Orphans, Submitting, submit
    <2>. QED
        BY <1>1, <1>2, <2>1, <2>2 DEF Covered
<1>. QED
    BY <1>3, <1>4, <1>5

\* Every step is covered.
LEMMA StepCovered ==
    ASSUME OutboxInv, [Next]_vars, NoStaleSubmission', NEW e \in Emails
    PROVE  Covered(e)
<1>. TypeOK /\ NoStaleSubmission /\ SubmittedAtOnce
    BY DEF OutboxInv
<1>0. queue' = queue
    BY QueueStays
<1>1. CASE UNCHANGED vars
    BY <1>1 DEF vars, Covered, Orphans, Submitting, Owned, SubmitsUnderLock
<1>2. ASSUME NEW w \in Workers,
             Work(w) \/ discard(w) \/ abort(w) \/ submitUnconfirmed(w) \/ crash(w)
      PROVE  Covered(e)
    <2>1. NoNewOrphans(e)
        <3>1. CASE SubmitsUnderLock
            <4>1. Orphans(e)' = {}
                BY <1>0, <3>1 DEF SubmitsUnderLock, NoStaleSubmission, Orphans, Submitting, Owned
            <4>. QED
                BY <4>1 DEF NoNewOrphans
        <3>2. CASE ~SubmitsUnderLock
            BY <1>0, <1>2, <3>2, OrphansOfWork
        <3>. QED
            BY <3>1, <3>2
    <2>2. Orphans(e)' \subseteq Orphans(e)
        BY <2>1 DEF NoNewOrphans, Orphans
    <2>3. CASE submit(w)
        BY <2>1, <2>3, SubmissionCovered
    <2>4. CASE submitUnconfirmed(w) \/ crash(w)
        <3>1. \/ submissions'[e] = submissions[e] /\ mishaps'[e] = mishaps[e]
              \/ submissions'[e] = submissions[e] + 1 /\ mishaps'[e] = mishaps[e] + 1
            BY <2>4 DEF TypeOK, submitUnconfirmed, crash
        <3>. QED
            BY <2>2, <3>1 DEF Covered
    <2>5. CASE submissions' = submissions /\ mishaps' = mishaps
        BY <2>2, <2>5 DEF Covered
    <2>. QED
        BY <1>2, <2>3, <2>4, <2>5 DEF Work, claim, sweep, begin, recordFailure, discard, abort
<1>3. ASSUME NEW x \in Emails,
             \/ backoffEnds(x) \/ enqueue(x)
             \/ lapse(x) \/ invitationExpires(x) \/ reinstate(x) \/ purge(x) \/ retryEmail(x)
      PROVE  Covered(e)
    <2>1. Orphans(e)' \subseteq Orphans(e)
        <3>1. CASE SubmitsUnderLock
            BY <1>0, <3>1 DEF SubmitsUnderLock, NoStaleSubmission, Orphans, Submitting, Owned
        <3>2. CASE ~SubmitsUnderLock
            BY <1>0, <1>3, <3>2, OrphansOfRow DEF NoNewOrphans, Orphans
        <3>. QED
            BY <3>1, <3>2
    <2>2. submissions' = submissions /\ mishaps' = mishaps
        BY <1>3 DEF backoffEnds, enqueue, lapse, invitationExpires, reinstate, purge, retryEmail
    <2>. QED
        BY <2>1, <2>2 DEF Covered
<1>4. ASSUME NEW x \in Emails, expireLease(x) PROVE Covered(e)
    BY <1>0, <1>4, ExpiryCovered
<1>. QED
    BY <1>1, <1>2, <1>3, <1>4 DEF Next, Time

-----------------------------------------------------------------------------
(* The invariant, and the theorems.                                        *)

\* Nothing is submitted yet.
LEMMA InitOutbox == Init => OutboxInv
<1>. SUFFICES ASSUME Init PROVE OutboxInv
    OBVIOUS
<1>1. NoStaleSubmission /\ SubmittedAtOnce
    BY DEF Init, NoStaleSubmission, SubmittedAtOnce
<1>2. ASSUME NEW e \in Emails
      PROVE  submissions[e] + Cardinality(Orphans(e)) <= mishaps[e] + Recorded(e)
    <2>1. Orphans(e) = {}
        BY DEF Init, Orphans, Submitting
    <2>. QED
        BY <2>1, FS_EmptySet DEF Init, Recorded
<1>. QED
    BY <1>1, <1>2, InitTypes DEF OutboxInv, SubmissionsAccounted

\* No step leaves a recall worker between a claim and a second transaction.
LEMMA StepAtOnce == TypeOK /\ SubmittedAtOnce /\ [Next]_vars => SubmittedAtOnce'
<1>. SUFFICES ASSUME TypeOK, SubmittedAtOnce, [Next]_vars, ~SubmitsUnderLock, queue' = queue,
                     NEW w \in Workers, pc'[w] = "claimed"
              PROVE  FALSE
    BY QueueStays DEF SubmittedAtOnce, SubmitsUnderLock
<1>1. pc[w] # "claimed"
    BY DEF SubmittedAtOnce
<1>. QED
    BY <1>1 DEF TypeOK, Next, vars, Work, claim, sweep, begin, submit, recordFailure, discard, abort,
                submitUnconfirmed, crash, Time, expireLease, backoffEnds, enqueue, lapse, invitationExpires,
                reinstate, purge, retryEmail

\* The invariant is inductive ...
LEMMA StepOutbox == OutboxInv /\ [Next]_vars => OutboxInv'
<1>. SUFFICES ASSUME OutboxInv, [Next]_vars PROVE OutboxInv'
    OBVIOUS
<1>1. TypeOK' /\ NoStaleSubmission' /\ SubmittedAtOnce'
    BY StepTypes, StepCurrent, StepAtOnce DEF OutboxInv
<1>2. ASSUME NEW e \in Emails
      PROVE  submissions'[e] + Cardinality(Orphans(e)') <= mishaps'[e] + Recorded(e)'
    BY <1>1, StepCovered, StepSent, CoveredAccount DEF OutboxInv, SentStay
<1>3. SubmissionsAccounted'
    BY <1>2 DEF SubmissionsAccounted
<1>. QED
    BY <1>1, <1>3 DEF OutboxInv

\* ... so it holds in every reachable state.
LEMMA OutboxInvariant == Spec => []OutboxInv
BY InitOutbox, StepOutbox, PTL DEF Spec

\* Every column keeps its type; attempts never pass MaxAttempts, for every number of retries.
THEOREM OutboxTypes == Spec => []TypeOK
BY OutboxInvariant, PTL DEF OutboxInv

(***************************************************************************)
(* Whichever worker submits a reminder, a fee statement or an invitation   *)
(* does so for a row that is sending under its own lease, while the        *)
(* payment, the fee or the invitation still asks for it - for any number   *)
(* of overlapping runs, crashes and retries.                               *)
(***************************************************************************)
THEOREM SubmittedWhileWanted == Spec => []NoStaleSubmission
BY OutboxInvariant, PTL DEF OutboxInv

\* The account leaves one acceptance that is not a mishap: the recorded one.
LEMMA AccountBounds == OutboxInv => DuplicateNeedsMishap
<1>. SUFFICES ASSUME OutboxInv, NEW e \in Emails PROVE submissions[e] <= 1 + mishaps[e]
    BY DEF DuplicateNeedsMishap
<1>1. submissions[e] + Cardinality(Orphans(e)) <= mishaps[e] + Recorded(e)
    BY DEF OutboxInv, SubmissionsAccounted
<1>. QED
    BY <1>1, OrphansFinite DEF OutboxInv, TypeOK, Recorded

(***************************************************************************)
(* No message is accepted twice unless a crash, a lost answer or a recall  *)
(* lease that ran out in the middle of a submission explains each further  *)
(* acceptance: overlapping claims, sweeps, retries and reinstatements      *)
(* alone never duplicate an email.                                         *)
(***************************************************************************)
THEOREM DuplicatesExplained == Spec => []DuplicateNeedsMishap
BY OutboxInvariant, AccountBounds, PTL

(***************************************************************************)
(* A recorded submission is final: neither a late worker's failure, nor a  *)
(* sweep, nor a closed parent record, nor an operator's retry overwrites   *)
(* it.                                                                     *)
(***************************************************************************)
THEOREM SentStaysSent == Spec => SentIsFinal
<1>1. OutboxInv /\ [Next]_vars => [\A e \in Emails : status[e] = "sent" => status'[e] = "sent"]_vars
    BY StepSent DEF OutboxInv, SentStay
<1>. QED
    BY <1>1, OutboxInvariant, PTL DEF Spec, SentIsFinal
=============================================================================
