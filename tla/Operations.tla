----------------------------- MODULE Operations -----------------------------
(***************************************************************************)
(* The scheduled jobs and the operator alerts (modules/operations).  Every *)
(* API process (host) has a loop per job and one alert loop.  A job runs   *)
(* under a session advisory lock and records its result in                 *)
(* operations_job_status over the same connection; the alert cycle, under  *)
(* a lock of its own, reads that table, keeps a register of incidents and  *)
(* mails the operators.                                                    *)
(*                                                                         *)
(* The lock belongs to a connection, the work goes through others: a host  *)
(* that loses the connection goes on with the cycle in hand while another  *)
(* host takes the lock.  A loop that saw its connection fail retires until *)
(* the process is restarted.                                               *)
(*                                                                         *)
(* One job stands for all, and its signals for those of the queues, which  *)
(* enter the register the same way.  The minute between two cycles and the *)
(* four submissions a cycle may make only delay work and are left out.     *)
(***************************************************************************)
EXTENDS Integers, FiniteSets

CONSTANTS
    Hosts,          \* API processes
    NoHost,
    Operators,      \* operationsAlertRecipientUserIds
    Incidents,      \* ids of operations_incidents
    MaxAttempts,    \* submissions of one alert: 8
    MaxChanges,     \* bound on changes of the job's signal and of the operators' access
    MaxOutages,     \* bound on observations and SMTP probes that fail
    MaxLosses,      \* bound on lost lock connections
    MaxCrashes,     \* bound on process restarts
    MaxRetries,     \* bound on reviewed retries by an operator
    MaxEvents       \* bound on changes, outages, losses (as one) and restarts together

ASSUME OperationsAssumption ==
    /\ NoHost \notin Hosts
    /\ Incidents \subseteq Nat
    /\ MaxAttempts \in Nat \ {0}
    /\ {MaxChanges, MaxOutages, MaxLosses, MaxCrashes, MaxRetries, MaxEvents} \subseteq Nat

VARIABLES
    job,        \* the job's row in operations_job_status
    alertLock,  \* the host whose session holds the alert cycle's lock
    cycle,      \* each host's alert cycle
    incidents,  \* operations_incidents
    outbox,     \* operations_alert_outbox, by incident and operator
    eligible,   \* the operators that are active, with an unsuspended organization
    healthy,    \* operations_alert_status: the last cycle recorded no error
    faults,     \* how often each bounded event has happened
    relieved    \* history: open incidents whose signal has been absent meanwhile

alertVars == <<alertLock, cycle, incidents, outbox, healthy>>
vars      == <<job, alertLock, cycle, incidents, outbox, eligible, healthy, faults, relieved>>

-----------------------------------------------------------------------------
(***************************************************************************)
(* Types.                                                                  *)
(***************************************************************************)
jobCodes == {"JOB_NOT_OBSERVED", "JOB_FAILED", "JOB_STALE"}
unavailableSignal == "MONITOR_UNAVAILABLE"
SignalKeys == jobCodes \cup {unavailableSignal}

JobRow ==
    [status : {"none", "running", "succeeded", "failed"},
     succeeded : BOOLEAN,       \* last_success_at IS NOT NULL
     failing : BOOLEAN,         \* consecutive_failures > 0
     stale : BOOLEAN]           \* started_at or finished_at is 15 minutes old
IncidentRow == [key : SignalKeys, state : {"open", "resolved"}]
NoIncident  == [key |-> "none", state |-> "none"]
AlertRow ==
    [status : {"queued", "sending", "failed", "sent", "suppressed", "failed_terminal"},
     attempts : 0..MaxAttempts, lease : Hosts \cup {NoHost}, expired : BOOLEAN, due : BOOLEAN]
NoAlert  == [status |-> "none"]
QueuedAlert == [status |-> "queued", attempts |-> 0, lease |-> NoHost, expired |-> FALSE,
                due |-> TRUE]
CycleRow ==
    [at : {"idle", "observed", "synced", "delivering", "sending", "ending", "retired"},
     seen : SUBSET SignalKeys, complete : BOOLEAN, locked : BOOLEAN, error : BOOLEAN,
     row : (Incidents \X Operators) \cup {<<>>}]
IdleCycle ==
    [at |-> "idle", seen |-> {}, complete |-> FALSE, locked |-> FALSE, error |-> FALSE,
     row |-> <<>>]
Bound == [changes |-> MaxChanges, outages |-> MaxOutages, losses |-> MaxLosses,
          crashes |-> MaxCrashes, retries |-> MaxRetries]

\* Lost connections count once: one outage of the database can fail them all.
Events(count) ==
    count.changes + count.outages + count.crashes + (IF count.losses > 0 THEN 1 ELSE 0)

\* A bounded event of the environment happens.
Happens(what) ==
    /\ faults[what] < Bound[what]
    /\ faults' = [faults EXCEPT ![what] = @ + 1]
    /\ Events(faults') <= MaxEvents

-----------------------------------------------------------------------------
(***************************************************************************)
(* Jobs (jobs.ts, worker.ts).                                              *)
(***************************************************************************)
\* incidentSignals: the first of the codes that applies.
incidentSignals(j) ==
    IF ~j.succeeded THEN {"JOB_NOT_OBSERVED"}
    ELSE IF j.status = "failed" \/ j.failing THEN {"JOB_FAILED"}
    ELSE IF j.stale THEN {"JOB_STALE"} ELSE {}

\* What a step does to the row counts as a change when the monitor can see it.
WriteStatus(row) ==
    /\ job' = row
    /\ IF incidentSignals(row) = incidentSignals(job) THEN faults' = faults
       ELSE Happens("changes")

\* runTrackedJob begins: it has the job's lock, so a run that is still recorded as
\* running died or lost its connection, and with it the means to record its result.
startJob ==
    /\ WriteStatus([job EXCEPT !.status = "running", !.stale = FALSE])
    /\ UNCHANGED <<alertVars, eligible>>

\* The run that holds the lock returned or threw, and its result is recorded.
finishJob(ok) ==
    /\ job.status = "running"
    /\ WriteStatus([job EXCEPT !.status = IF ok THEN "succeeded" ELSE "failed",
                               !.succeeded = @ \/ ok, !.failing = ~ok, !.stale = FALSE])
    /\ UNCHANGED <<alertVars, eligible>>

\* Fifteen minutes pass since the row's time (told apart only where it is the signal).
statusAges ==
    /\ incidentSignals(job) = {}
    /\ WriteStatus([job EXCEPT !.stale = TRUE])
    /\ UNCHANGED <<alertVars, eligible>>

-----------------------------------------------------------------------------
(***************************************************************************)
(* The alert cycle (alerts.ts, alertWorker.ts).                            *)
(***************************************************************************)
\* runAlertCycle takes the lock, records the poll and observes; a failed observation
\* leaves the one signal that monitoring itself is unavailable.
observeIncidents(h, complete) ==
    /\ cycle[h].at = "idle" /\ alertLock = NoHost
    /\ alertLock' = h
    /\ healthy' = FALSE
    /\ cycle' = [cycle EXCEPT ![h] =
         [IdleCycle EXCEPT !.at = "observed", !.locked = TRUE, !.complete = complete,
                           !.error = ~complete,
                           !.seen = IF complete THEN incidentSignals(job)
                                    ELSE {unavailableSignal}]]
    /\ IF complete THEN faults' = faults ELSE Happens("outages")
    /\ UNCHANGED <<job, incidents, outbox, eligible>>

Open(i) == incidents[i].state = "open"

ResolvedByAny(c) ==
    {i \in Incidents : Open(i) /\ incidents[i].key \notin c.seen}

ResolvedByOthers(c) ==
    {i \in Incidents : c.complete /\ c.seen # {} /\ Open(i) /\ incidents[i].key \notin c.seen}

\* An incomplete observation cannot resolve previously observed incidents.
Resolved(c) ==
    {i \in Incidents : c.complete /\ Open(i) /\ incidents[i].key \notin c.seen}

MissingAny(c) == c.seen

\* The signals that have no open incident (the partial unique index on signal_key).
Missing(c) == {k \in c.seen : ~\E i \in Incidents : Open(i) /\ incidents[i].key = k}

\* The serial ids of operations_incidents not given out yet, least first.
NextIncident == {i \in Incidents : /\ incidents[i] = NoIncident
                                  /\ \A j \in 0..(i - 1) \cap Incidents : incidents[j] # NoIncident}

\* syncIncidents: one transaction, whether or not the host still has its lock.  An
\* observation of one job holds at most one signal.
syncIncidents(h) ==
    LET c == cycle[h] IN
    /\ c.at = "observed"
    /\ Missing(c) # {} => NextIncident # {}
    /\ incidents' = [i \in Incidents |->
         IF i \in NextIncident /\ Missing(c) # {}
         THEN [key |-> CHOOSE k \in Missing(c) : TRUE, state |-> "open"]
         ELSE IF i \in Resolved(c) THEN [incidents[i] EXCEPT !.state = "resolved"]
         ELSE incidents[i]]
    /\ outbox' = [io \in Incidents \X Operators |->
         IF outbox[io] = NoAlert /\ incidents'[io[1]].state = "open" /\ io[2] \in eligible
         THEN QueuedAlert ELSE outbox[io]]
    /\ cycle' = [cycle EXCEPT ![h].at = "synced", ![h].seen = {}, ![h].complete = FALSE]
    /\ UNCHANGED <<job, alertLock, eligible, healthy, faults>>

FailedAlertLate(row, due) ==
    [row EXCEPT !.status = IF row.attempts > MaxAttempts THEN "failed_terminal" ELSE "failed",
                !.lease = NoHost, !.expired = FALSE, !.due = due]

\* A submission that ended: the last permitted attempt is terminal.
FailedAlert(row, due) ==
    [row EXCEPT !.status = IF row.attempts >= MaxAttempts THEN "failed_terminal" ELSE "failed",
                !.lease = NoHost, !.expired = FALSE, !.due = due]

\* The SMTP probe; deliverAlerts begins by ending expired claims.
probeTransport(h, up) ==
    /\ cycle[h].at = "synced"
    /\ IF up
       THEN /\ cycle' = [cycle EXCEPT ![h].at = "delivering"]
            /\ outbox' = [io \in Incidents \X Operators |->
                 IF outbox[io].status = "sending" /\ outbox[io].expired
                 THEN FailedAlert(outbox[io], TRUE) ELSE outbox[io]]
            /\ faults' = faults
       ELSE /\ Happens("outages")
            /\ cycle' = [cycle EXCEPT ![h].at = "ending", ![h].error = TRUE]
            /\ outbox' = outbox
    /\ UNCHANGED <<job, alertLock, incidents, eligible, healthy>>

Claimable(io) ==
    /\ outbox[io].status \in {"queued", "failed"}
    /\ outbox[io].due /\ outbox[io].attempts < MaxAttempts

claimAlert(h, io) ==
    /\ cycle[h].at = "delivering" /\ Claimable(io)
    /\ outbox' = [outbox EXCEPT ![io].status = "sending", ![io].attempts = @ + 1,
                                ![io].lease = h, ![io].expired = FALSE]
    /\ cycle' = [cycle EXCEPT ![h].at = "sending", ![h].row = io]
    /\ UNCHANGED <<job, alertLock, incidents, eligible, healthy, faults>>

\* One turn of deliverAlerts ends: the turns stop when nothing can be claimed.
Turn(h, failed) ==
    cycle' = [cycle EXCEPT ![h].at = "delivering", ![h].row = <<>>, ![h].error = @ \/ failed]

Claimed(h) == LET row == outbox[cycle[h].row]
              IN  cycle[h].at = "sending" /\ row.status = "sending" /\ row.lease = h

\* The claim is checked again and the alert submitted, in one transaction that has
\* the incident and the operator locked.  A claim that was lost counts as an error.
submitAlert(h) ==
    LET io == cycle[h].row
        owned == Claimed(h) /\ ~outbox[io].expired
    IN
    /\ cycle[h].at = "sending"
    /\ outbox' = IF owned
         THEN [outbox EXCEPT ![io].status = IF Open(io[1]) /\ io[2] \in eligible
                                            THEN "sent" ELSE "suppressed",
                             ![io].lease = NoHost, ![io].expired = FALSE]
         ELSE outbox
    /\ Turn(h, ~owned)
    /\ UNCHANGED <<job, alertLock, incidents, eligible, healthy, faults>>

\* The submission threw: the attempt is recorded if the claim is still this one's.
failSubmission(h) ==
    LET io == cycle[h].row IN
    /\ cycle[h].at = "sending"
    /\ Happens("outages")
    /\ outbox' = IF Claimed(h) THEN [outbox EXCEPT ![io] = FailedAlert(@, FALSE)] ELSE outbox
    /\ Turn(h, TRUE)
    /\ UNCHANGED <<job, alertLock, incidents, eligible, healthy>>

HasAlert(status) == \E io \in Incidents \X Operators : outbox[io].status = status

CycleFailedNow(h) ==
    cycle[h].error \/ HasAlert("failed_terminal") \/ ~(Operators \subseteq eligible)

\* The error codes that end a cycle: its own trouble, a terminal alert, an operator
\* that cannot be reached, an alert that waits for its next attempt.
CycleFailed(h) ==
    \/ cycle[h].error
    \/ HasAlert("failed_terminal")
    \/ ~(Operators \subseteq eligible)
    \/ HasAlert("failed")

\* There is nothing more to claim: the result is recorded and the lock released, on the
\* lock's connection; a host whose connection failed records nothing and its loop retires.
concludeCycle(h) ==
    /\ \/ cycle[h].at = "ending"
       \/ cycle[h].at = "delivering" /\ ~\E io \in Incidents \X Operators : Claimable(io)
    /\ IF cycle[h].locked
       THEN /\ healthy' = ~CycleFailed(h)
            /\ alertLock' = NoHost
            /\ cycle' = [cycle EXCEPT ![h] = IdleCycle]
       ELSE /\ UNCHANGED <<healthy, alertLock>>
            /\ cycle' = [cycle EXCEPT ![h] = [IdleCycle EXCEPT !.at = "retired"]]
    /\ UNCHANGED <<job, incidents, outbox, eligible, faults>>

\* The alert loop's lock connection fails: between cycles the loop retires, in a cycle
\* the work in hand goes on without the lock.
loseAlertConnection(h) ==
    /\ cycle[h].at # "retired" /\ (cycle[h].at = "idle" \/ cycle[h].locked)
    /\ Happens("losses")
    /\ alertLock' = IF alertLock = h THEN NoHost ELSE alertLock
    /\ cycle' = [cycle EXCEPT ![h] = IF @.at = "idle" THEN [@ EXCEPT !.at = "retired"]
                                     ELSE [@ EXCEPT !.locked = FALSE]]
    /\ UNCHANGED <<job, incidents, outbox, eligible, healthy>>

-----------------------------------------------------------------------------
(***************************************************************************)
(* The reviewed retry (alertRecovery.ts) and the environment.              *)
(***************************************************************************)
retryOperatorAlert(io) ==
    /\ outbox[io].status = "failed_terminal"
    /\ Open(io[1]) /\ io[2] \in eligible
    /\ Happens("retries")
    /\ outbox' = [outbox EXCEPT ![io] = QueuedAlert]
    /\ UNCHANGED <<job, alertLock, cycle, incidents, eligible, healthy>>

\* A process dies with its work and its connections, and is started again.
restart(h) ==
    /\ cycle[h] # IdleCycle
    /\ Happens("crashes")
    /\ cycle' = [cycle EXCEPT ![h] = IdleCycle]
    /\ alertLock' = IF alertLock = h THEN NoHost ELSE alertLock
    /\ outbox' = [io \in Incidents \X Operators |->
         IF outbox[io] # NoAlert /\ outbox[io].lease = h
         THEN [outbox[io] EXCEPT !.lease = NoHost] ELSE outbox[io]]
    /\ UNCHANGED <<job, incidents, eligible, healthy>>

\* An operator's access is suspended or restored.
operatorChanges(o) ==
    /\ Happens("changes")
    /\ eligible' = IF o \in eligible THEN eligible \ {o} ELSE eligible \cup {o}
    /\ UNCHANGED <<job, alertVars>>

\* The five minutes of a claim are over; the wait before the next attempt is over.
leaseExpires(io) ==
    /\ outbox[io].status = "sending" /\ ~outbox[io].expired
    /\ outbox' = [outbox EXCEPT ![io].expired = TRUE]
    /\ UNCHANGED <<job, alertLock, cycle, incidents, healthy, eligible, faults>>

backoffEnds(io) ==
    /\ outbox[io].status = "failed" /\ ~outbox[io].due
    /\ outbox' = [outbox EXCEPT ![io].due = TRUE]
    /\ UNCHANGED <<job, alertLock, cycle, incidents, healthy, eligible, faults>>

-----------------------------------------------------------------------------
Init ==
    /\ job = [status |-> "none", succeeded |-> FALSE, failing |-> FALSE, stale |-> FALSE]
    /\ alertLock = NoHost
    /\ cycle = [h \in Hosts |-> IdleCycle]
    /\ incidents = [i \in Incidents |-> NoIncident]
    /\ outbox = [io \in Incidents \X Operators |-> NoAlert]
    /\ eligible = Operators
    /\ healthy = FALSE
    /\ faults = [what \in DOMAIN Bound |-> 0]
    /\ relieved = {}

cycleStep(h) ==
    \/ \E complete \in BOOLEAN : observeIncidents(h, complete)
    \/ syncIncidents(h)
    \/ \E up \in BOOLEAN : probeTransport(h, up)
    \/ \E io \in Incidents \X Operators : claimAlert(h, io)
    \/ submitAlert(h)
    \/ failSubmission(h)
    \/ concludeCycle(h)

Step ==
    \/ \E h \in Hosts : cycleStep(h) \/ loseAlertConnection(h) \/ restart(h)
    \/ \E io \in Incidents \X Operators :
         retryOperatorAlert(io) \/ leaseExpires(io) \/ backoffEnds(io)
    \/ \E o \in Operators : operatorChanges(o)
    \/ startJob \/ statusAges
    \/ \E ok \in BOOLEAN : finishJob(ok)

Next ==
    /\ Step
    /\ relieved' = {i \in Incidents : /\ incidents'[i].state = "open"
                                     /\ \/ i \in relieved
                                        \/ incidents'[i].key \notin incidentSignals(job')}

(***************************************************************************)
(* A timer starts every loop again until it retires, and the database's    *)
(* clock ends leases and waits.  Nothing is assumed of the jobs, nor that  *)
(* anybody restarts a process whose loop has retired.                      *)
(***************************************************************************)
Fairness ==
    /\ \A h \in Hosts : WF_vars(Next /\ cycleStep(h))
    /\ WF_vars(Next /\ \E io \in Incidents \X Operators : leaseExpires(io) \/ backoffEnds(io))

Spec == Init /\ [][Next]_vars /\ Fairness

-----------------------------------------------------------------------------
(***************************************************************************)
(* Properties.                                                             *)
(***************************************************************************)
\* Every table, lock and loop has the shape the code gives it, and no signal has two
\* open incidents.
TypeOK ==
    /\ job \in JobRow
    /\ alertLock \in Hosts \cup {NoHost}
    /\ cycle \in [Hosts -> CycleRow]
    /\ incidents \in [Incidents -> IncidentRow \cup {NoIncident}]
    /\ outbox \in [Incidents \X Operators -> AlertRow \cup {NoAlert}]
    /\ eligible \subseteq Operators
    /\ healthy \in BOOLEAN
    /\ \A what \in DOMAIN Bound : faults[what] \in 0..Bound[what]
    /\ relieved \subseteq Incidents
    /\ \A i, j \in Incidents : Open(i) /\ Open(j) /\ incidents[i].key = incidents[j].key => i = j

\* An incident is closed only after its signal really went away while it was open
\* (an ongoing signal has one open episode), whatever the cycles read and when they
\* were interrupted, as long as no cycle has outlived its lock.
ResolvedWasRelieved ==
    [][\A i \in Incidents :
         Open(i) /\ incidents'[i].state = "resolved" /\ faults.losses = 0 => i \in relieved]_vars

\* While the last cycle counts as healthy no alert is waiting for another attempt or
\* has been given up, unless a cycle outlived its lock.
HealthyHidesNothing ==
    healthy /\ faults.losses = 0 => ~HasAlert("failed") /\ ~HasAlert("failed_terminal")

\* Some host still has an alert loop.  One outage of the database can retire them all,
\* and then an operator has to restart a process (docs/runbooks/OPERATIONS_JOBS.md).
Watched == \E h \in Hosts : cycle[h].at # "retired"

\* As long as some host's alert loop goes on, a signal that persists is in the end an open
\* incident, and an operator who remains eligible has an alert of it that was submitted,
\* given up or suppressed while the operator was not eligible.
PersistentSignalReported ==
    \A o \in Operators :
        <>[](Watched /\ incidentSignals(job) # {} /\ o \in eligible)
          => <>[](\A k \in incidentSignals(job) : \E i \in Incidents :
                    /\ Open(i) /\ incidents[i].key = k
                    /\ outbox[<<i, o>>].status \in {"sent", "failed_terminal", "suppressed"})

\* As long as some host's alert loop goes on, once the signals stay away every incident is
\* closed, the one that monitoring was unavailable included.
RecoveryClosesIncidents ==
    <>[](Watched /\ incidentSignals(job) = {}) => <>[](\A i \in Incidents : ~Open(i))
=============================================================================
