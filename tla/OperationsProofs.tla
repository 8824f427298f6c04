-------------------------- MODULE OperationsProofs --------------------------
(***************************************************************************)
(* Theorems about Operations for every number of hosts, operators and      *)
(* incidents and all bounds on what may go wrong.                          *)
(***************************************************************************)
EXTENDS Operations, TLAPS

-----------------------------------------------------------------------------
(* The inductive invariant.                                                *)

\* What is counted of the environment.
FaultsCounted == faults \in [DOMAIN Bound -> Nat]

\* A cycle that is submitting has an alert in hand.
SendingHasRow == \A h \in Hosts : cycle[h].at = "sending" => cycle[h].row \in Incidents \X Operators

\* As long as no connection was lost, a cycle at work is the one that has the lock.
LockHolders ==
    faults.losses = 0 =>
        \A h \in Hosts : cycle[h].at # "idle" =>
            cycle[h].at # "retired" /\ cycle[h].locked /\ alertLock = h

\* The status is that of the last cycle only while no other is at work.
QuietWhileHealthy == healthy /\ faults.losses = 0 => \A h \in Hosts : cycle[h].at = "idle"

\* What a cycle has observed to be absent has been absent since the incident was opened:
\* nobody else opens incidents between its observation and its transaction.
AbsenceIsRelief ==
    faults.losses = 0 =>
        \A h \in Hosts, i \in Incidents :
            cycle[h].at = "observed" /\ cycle[h].complete /\ Open(i)
              /\ incidents[i].key \notin cycle[h].seen => i \in relieved

OpsInv ==
    /\ TypeOK /\ FaultsCounted /\ SendingHasRow /\ LockHolders /\ QuietWhileHealthy
    /\ AbsenceIsRelief /\ HealthyHidesNothing

-----------------------------------------------------------------------------
(* Events of the environment, and what is recorded beside every step.      *)

EventKinds == {"changes", "outages", "losses", "crashes", "retries"}

\* The bounds are numbers.
LEMMA Bounds == DOMAIN Bound = EventKinds /\ \A what \in EventKinds : Bound[what] \in Nat
BY OperationsAssumption DEF Bound, EventKinds

\* What a step may do to the counts: another event within its bound, or nothing.  A loss is
\* never forgotten.
Counted ==
    /\ faults' \in [DOMAIN Bound -> Nat]
    /\ \A what \in DOMAIN Bound : faults'[what] \in 0..Bound[what]
    /\ faults'.losses = 0 => faults.losses = 0

\* An event that happens is counted.
LEMMA HappensCounts ==
    ASSUME TypeOK, FaultsCounted, NEW what \in EventKinds, Happens(what)
    PROVE  Counted /\ (what = "losses" => faults'.losses # 0)
<1>. DEFINE n == faults[what]
<1>1. faults \in [EventKinds -> Nat] /\ \A k \in EventKinds : faults[k] \in 0..Bound[k]
    BY Bounds DEF TypeOK, FaultsCounted
<1>2. n \in Nat /\ n < Bound[what] /\ Bound[what] \in Nat /\ faults' = [faults EXCEPT ![what] = n + 1]
    BY <1>1, Bounds DEF Happens
<1>3. "losses" \in EventKinds
    BY DEF EventKinds
<1>4. faults' \in [EventKinds -> Nat] /\ faults'[what] = n + 1
      /\ \A k \in EventKinds \ {what} : faults'[k] = faults[k]
    BY <1>1, <1>2
<1>5. faults'[what] \in 0..Bound[what]
    BY <1>2, <1>4
<1>6. \A k \in EventKinds : faults'[k] \in 0..Bound[k]
    BY <1>1, <1>4, <1>5
<1>7. faults'["losses"] = 0 => faults["losses"] = 0
    BY <1>2, <1>3, <1>4
<1>8. what = "losses" => faults'["losses"] # 0
    BY <1>2, <1>4
<1>. QED
    BY <1>4, <1>6, <1>7, <1>8, Bounds DEF Counted

\* Nothing happens, nothing is counted.
LEMMA NothingCounts == TypeOK /\ FaultsCounted /\ faults' = faults => Counted
BY DEF TypeOK, FaultsCounted, Counted

\* The open incidents whose signal has been absent.
Relief ==
    relieved' = {i \in Incidents : /\ incidents'[i].state = "open"
                                   /\ \/ i \in relieved
                                      \/ incidents'[i].key \notin incidentSignals(job')}

\* It is recorded beside every step.
LEMMA NextRelieves == Next => Relief
BY DEF Next, Relief

\* What the monitor can see of a job are codes of incidents.
LEMMA SignalsOfJob == \A j : incidentSignals(j) \subseteq SignalKeys
BY DEF incidentSignals, SignalKeys, jobCodes

-----------------------------------------------------------------------------
(* Every step keeps the invariant.                                         *)

\* Nothing has run yet.
LEMMA InitHolds == Init => OpsInv
<1>. SUFFICES ASSUME Init PROVE OpsInv
    OBVIOUS
<1>1. faults \in [DOMAIN Bound -> Nat] /\ \A what \in DOMAIN Bound : faults[what] \in 0..Bound[what]
    BY Bounds DEF Init
<1>2. job \in JobRow /\ IdleCycle \in CycleRow
    BY DEF Init, JobRow, IdleCycle, CycleRow
<1>3. \A i \in Incidents : ~Open(i)
    BY DEF Init, Open, NoIncident
<1>4. TypeOK
    BY <1>1, <1>2, <1>3 DEF Init, TypeOK
<1>5. \A h \in Hosts : cycle[h].at = "idle"
    BY DEF Init, IdleCycle
<1>6. healthy = FALSE
    BY DEF Init
<1>. QED
    BY <1>1, <1>4, <1>5, <1>6
    DEF OpsInv, FaultsCounted, SendingHasRow, LockHolders, QuietWhileHealthy, AbsenceIsRelief,
        HealthyHidesNothing

\* The part about relief, for a step that writes no incident and observes nothing.
LEMMA ReliefKept ==
    ASSUME OpsInv, Relief, Counted, UNCHANGED incidents,
           \A h \in Hosts : cycle'[h].at = "observed" =>
               cycle[h].at = "observed" /\ cycle'[h].complete = cycle[h].complete
                                        /\ cycle'[h].seen = cycle[h].seen
    PROVE  AbsenceIsRelief'
BY DEF OpsInv, Relief, Counted, AbsenceIsRelief, Open

\* Types of what most steps leave alone or only count.
LEMMA TypesKept ==
    ASSUME OpsInv, Relief, Counted, UNCHANGED incidents,
           job' \in JobRow, alertLock' \in Hosts \cup {NoHost}, cycle' \in [Hosts -> CycleRow],
           outbox' \in [Incidents \X Operators -> AlertRow \cup {NoAlert}],
           eligible' \subseteq Operators, healthy' \in BOOLEAN
    PROVE  TypeOK' /\ FaultsCounted'
<1>1. incidents' \in [Incidents -> IncidentRow \cup {NoIncident}]
      /\ \A i, j \in Incidents :
           Open(i)' /\ Open(j)' /\ incidents'[i].key = incidents'[j].key => i = j
    BY DEF OpsInv, TypeOK, Open
<1>2. relieved' \subseteq Incidents
    BY DEF Relief
<1>3. DOMAIN Bound = DOMAIN Bound'
    BY DEF Bound
<1>. QED
    BY <1>1, <1>2, <1>3 DEF TypeOK, FaultsCounted, Counted, Bound

\* The alerts have the statuses they had, or others that still promise an answer.
LEMMA QuietKept ==
    ASSUME OpsInv, Counted, healthy' => healthy,
           \A io \in Incidents \X Operators : outbox'[io].status \in {"failed", "failed_terminal"}
               => outbox[io].status \in {"failed", "failed_terminal"}
    PROVE  HealthyHidesNothing'
BY DEF OpsInv, Counted, HealthyHidesNothing, HasAlert

\* A run begins or ends, or its result becomes old.
LEMMA JobKeeps ==
    ASSUME OpsInv, Relief, startJob \/ statusAges \/ \E ok \in BOOLEAN : finishJob(ok)
    PROVE  OpsInv'
<1>1. PICK row \in JobRow : WriteStatus(row)
    <2>1. job \in JobRow
        BY DEF OpsInv, TypeOK
    <2>. QED
        BY <2>1 DEF startJob, statusAges, finishJob, JobRow
<1>2. job' \in JobRow /\ UNCHANGED <<alertVars, eligible>>
    BY <1>1 DEF startJob, statusAges, finishJob, WriteStatus
<1>3. Counted
    <2>1. faults' = faults \/ Happens("changes")
        BY <1>1 DEF WriteStatus
    <2>. QED
        BY <2>1, HappensCounts, NothingCounts DEF OpsInv, EventKinds
<1>4. TypeOK' /\ FaultsCounted'
    BY <1>2, <1>3, TypesKept DEF OpsInv, TypeOK, alertVars
<1>5. AbsenceIsRelief' /\ HealthyHidesNothing'
    BY <1>2, <1>3, ReliefKept, QuietKept DEF alertVars
<1>6. SendingHasRow' /\ LockHolders' /\ QuietWhileHealthy'
    BY <1>2, <1>3 DEF OpsInv, Counted, SendingHasRow, LockHolders, QuietWhileHealthy, alertVars
<1>. QED
    BY <1>4, <1>5, <1>6 DEF OpsInv

\* An operator's access changes.
LEMMA OperatorKeeps ==
    ASSUME OpsInv, Relief, NEW o \in Operators, operatorChanges(o)
    PROVE  OpsInv'
<1>1. Counted
    BY HappensCounts DEF operatorChanges, OpsInv, EventKinds
<1>2. eligible' \subseteq Operators /\ UNCHANGED <<job, alertVars>>
    BY DEF operatorChanges, OpsInv, TypeOK
<1>3. TypeOK' /\ FaultsCounted'
    BY <1>1, <1>2, TypesKept DEF OpsInv, TypeOK, alertVars
<1>4. AbsenceIsRelief' /\ HealthyHidesNothing'
    BY <1>1, <1>2, ReliefKept, QuietKept DEF alertVars
<1>5. SendingHasRow' /\ LockHolders' /\ QuietWhileHealthy'
    BY <1>1, <1>2 DEF OpsInv, Counted, SendingHasRow, LockHolders, QuietWhileHealthy, alertVars
<1>. QED
    BY <1>3, <1>4, <1>5 DEF OpsInv

\* The reviewed retry queues the alert again; leases and waits end.
LEMMA AlertKeeps ==
    ASSUME OpsInv, Relief, NEW io \in Incidents \X Operators,
           retryOperatorAlert(io) \/ leaseExpires(io) \/ backoffEnds(io)
    PROVE  OpsInv'
<1>1. UNCHANGED <<job, alertLock, cycle, incidents, healthy, eligible>>
    BY DEF retryOperatorAlert, leaseExpires, backoffEnds
<1>2. Counted
    <2>1. faults' = faults \/ Happens("retries")
        BY DEF retryOperatorAlert, leaseExpires, backoffEnds
    <2>. QED
        BY <2>1, HappensCounts, NothingCounts DEF OpsInv, EventKinds
<1>3. outbox \in [Incidents \X Operators -> AlertRow \cup {NoAlert}]
    BY DEF OpsInv, TypeOK
<1>4. PICK row \in AlertRow :
         /\ outbox' = [outbox EXCEPT ![io] = row]
         /\ row.status \in {"failed", "failed_terminal"}
              => outbox[io].status \in {"failed", "failed_terminal"}
    <2>1. CASE retryOperatorAlert(io)
        <3>1. QueuedAlert \in AlertRow
            BY OperationsAssumption DEF QueuedAlert, AlertRow
        <3>. QED
            BY <2>1, <3>1 DEF retryOperatorAlert
    <2>2. CASE leaseExpires(io)
        <3>1. outbox[io] \in AlertRow
            BY <1>3, <2>2 DEF leaseExpires, NoAlert
        <3>2. [outbox[io] EXCEPT !.expired = TRUE] \in AlertRow
            BY <3>1 DEF AlertRow
        <3>3. outbox' = [outbox EXCEPT ![io] = [outbox[io] EXCEPT !.expired = TRUE]]
            BY <2>2 DEF leaseExpires
        <3>. QED
            BY <2>2, <3>1, <3>2, <3>3 DEF leaseExpires, AlertRow
    <2>3. CASE backoffEnds(io)
        <3>1. outbox[io] \in AlertRow
            BY <1>3, <2>3 DEF backoffEnds, NoAlert
        <3>2. [outbox[io] EXCEPT !.due = TRUE] \in AlertRow
            BY <3>1 DEF AlertRow
        <3>3. outbox' = [outbox EXCEPT ![io] = [outbox[io] EXCEPT !.due = TRUE]]
            BY <2>3 DEF backoffEnds
        <3>. QED
            BY <2>3, <3>1, <3>2, <3>3 DEF backoffEnds, AlertRow
    <2>. QED
        BY <2>1, <2>2, <2>3
<1>5. outbox' \in [Incidents \X Operators -> AlertRow \cup {NoAlert}]
    BY <1>3, <1>4
<1>6. \A x \in Incidents \X Operators : outbox'[x].status \in {"failed", "failed_terminal"}
               => outbox[x].status \in {"failed", "failed_terminal"}
    BY <1>3, <1>4
<1>7. TypeOK' /\ FaultsCounted'
    BY <1>1, <1>2, <1>5, TypesKept DEF OpsInv, TypeOK
<1>8. AbsenceIsRelief' /\ HealthyHidesNothing'
    BY <1>1, <1>2, <1>6, ReliefKept, QuietKept
<1>9. SendingHasRow' /\ LockHolders' /\ QuietWhileHealthy'
    BY <1>1, <1>2 DEF OpsInv, Counted, SendingHasRow, LockHolders, QuietWhileHealthy
<1>. QED
    BY <1>7, <1>8, <1>9 DEF OpsInv

\* A cycle begins, with what it observes.
LEMMA ObserveKeeps ==
    ASSUME OpsInv, Relief, NEW h \in Hosts, NEW complete \in BOOLEAN, observeIncidents(h, complete)
    PROVE  OpsInv'
<1>. DEFINE seen == IF complete THEN incidentSignals(job) ELSE {unavailableSignal}
<1>. DEFINE c == [IdleCycle EXCEPT !.at = "observed", !.locked = TRUE, !.complete = complete,
                                   !.error = ~complete, !.seen = seen]
<1>1. /\ cycle[h].at = "idle" /\ alertLock = NoHost /\ alertLock' = h /\ healthy' = FALSE
      /\ cycle' = [cycle EXCEPT ![h] = c]
      /\ UNCHANGED <<job, incidents, outbox, eligible>>
      /\ faults' = faults \/ Happens("outages")
    BY DEF observeIncidents
<1>2. seen \subseteq SignalKeys
    BY SignalsOfJob DEF SignalKeys, unavailableSignal
<1>. HIDE DEF seen
<1>3. c \in CycleRow /\ c.at = "observed" /\ c.locked /\ c.complete = complete /\ c.seen = seen
    BY <1>2 DEF IdleCycle, CycleRow
<1>. HIDE DEF c
<1>4. cycle \in [Hosts -> CycleRow]
    BY DEF OpsInv, TypeOK
<1>5. Counted
    BY <1>1, HappensCounts, NothingCounts DEF OpsInv, EventKinds
<1>6. TypeOK' /\ FaultsCounted'
    BY <1>1, <1>3, <1>4, <1>5, TypesKept DEF OpsInv, TypeOK
<1>7. faults'.losses = 0 => \A g \in Hosts : cycle[g].at = "idle"
    BY <1>1, <1>5, OperationsAssumption DEF OpsInv, LockHolders, Counted
<1>8. AbsenceIsRelief'
    <2>1. SUFFICES ASSUME faults'.losses = 0, NEW g \in Hosts, NEW i \in Incidents,
                          cycle'[g].at = "observed", cycle'[g].complete, Open(i)',
                          incidents'[i].key \notin cycle'[g].seen
                   PROVE  i \in relieved'
        BY DEF AbsenceIsRelief
    <2>2. g = h
        BY <1>1, <1>3, <1>4, <1>7, <2>1
    <2>3. cycle'[g].seen = incidentSignals(job')
        BY <1>1, <1>3, <1>4, <2>1, <2>2 DEF seen
    <2>. QED
        BY <2>1, <2>3 DEF Relief, Open
<1>9. HealthyHidesNothing' /\ QuietWhileHealthy'
    BY <1>1 DEF HealthyHidesNothing, QuietWhileHealthy
<1>10. SendingHasRow' /\ LockHolders'
    BY <1>1, <1>3, <1>4, <1>7 DEF OpsInv, SendingHasRow, LockHolders
<1>. QED
    BY <1>6, <1>8, <1>9, <1>10 DEF OpsInv

\* A step of a cycle at work that leaves incidents, lock and result alone.
LEMMA WorkKept ==
    ASSUME OpsInv, Relief, Counted, NEW h \in Hosts, NEW c \in CycleRow,
           cycle[h].at # "idle", cycle' = [cycle EXCEPT ![h] = c],
           c.at \notin {"idle", "retired", "observed"}, c.locked = cycle[h].locked,
           c.at = "sending" => c.row \in Incidents \X Operators,
           outbox' \in [Incidents \X Operators -> AlertRow \cup {NoAlert}],
           UNCHANGED <<job, alertLock, incidents, eligible, healthy>>
    PROVE  OpsInv'
<1>1. cycle \in [Hosts -> CycleRow]
    BY DEF OpsInv, TypeOK
<1>2. cycle' \in [Hosts -> CycleRow] /\ cycle'[h] = c /\ \A g \in Hosts \ {h} : cycle'[g] = cycle[g]
    BY <1>1
<1>3. TypeOK' /\ FaultsCounted'
    BY <1>2, TypesKept DEF OpsInv, TypeOK
<1>4. AbsenceIsRelief'
    BY <1>2, ReliefKept
<1>5. ~(healthy' /\ faults'.losses = 0)
    BY DEF OpsInv, Counted, QuietWhileHealthy
<1>6. HealthyHidesNothing' /\ QuietWhileHealthy'
    BY <1>5 DEF HealthyHidesNothing, QuietWhileHealthy
<1>7. SendingHasRow' /\ LockHolders'
    BY <1>2 DEF OpsInv, Counted, SendingHasRow, LockHolders
<1>. QED
    BY <1>3, <1>4, <1>6, <1>7 DEF OpsInv

\* A submission that ended leaves a well-formed row.
LEMMA FailedRow ==
    ASSUME NEW row \in AlertRow, NEW due \in BOOLEAN
    PROVE  FailedAlert(row, due) \in AlertRow
BY DEF FailedAlert, AlertRow

\* The SMTP probe, with the claims that had expired.
LEMMA ProbeKeeps ==
    ASSUME OpsInv, Relief, NEW h \in Hosts, NEW up \in BOOLEAN, probeTransport(h, up)
    PROVE  OpsInv'
<1>. DEFINE c == IF up THEN [cycle[h] EXCEPT !.at = "delivering"]
                 ELSE [cycle[h] EXCEPT !.at = "ending", !.error = TRUE]
<1>1. cycle[h] \in CycleRow /\ cycle[h].at = "synced"
    BY DEF OpsInv, TypeOK, probeTransport
<1>2. cycle' = [cycle EXCEPT ![h] = c]
    BY DEF probeTransport, OpsInv, TypeOK
<1>3. c \in CycleRow /\ c.at \in {"delivering", "ending"} /\ c.locked = cycle[h].locked
    BY <1>1 DEF CycleRow
<1>. HIDE DEF c
<1>4. Counted
    <2>1. faults' = faults \/ Happens("outages")
        BY DEF probeTransport
    <2>. QED
        BY <2>1, HappensCounts, NothingCounts DEF OpsInv, EventKinds
<1>5. outbox' \in [Incidents \X Operators -> AlertRow \cup {NoAlert}]
    <2>1. outbox \in [Incidents \X Operators -> AlertRow \cup {NoAlert}]
        BY DEF OpsInv, TypeOK
    <2>2. \A io \in Incidents \X Operators :
            outbox[io].status = "sending" => FailedAlert(outbox[io], TRUE) \in AlertRow
        <3>. SUFFICES ASSUME NEW io \in Incidents \X Operators, outbox[io].status = "sending"
                      PROVE  FailedAlert(outbox[io], TRUE) \in AlertRow
            OBVIOUS
        <3>1. outbox[io] \in AlertRow
            BY <2>1 DEF NoAlert
        <3>. QED
            BY <3>1, FailedRow
    <2>. QED
        BY <2>1, <2>2 DEF probeTransport
<1>6. UNCHANGED <<job, alertLock, incidents, eligible, healthy>>
    BY DEF probeTransport
<1>. QED
    BY <1>1, <1>2, <1>3, <1>4, <1>5, <1>6, WorkKept

\* An alert is claimed.
LEMMA ClaimKeeps ==
    ASSUME OpsInv, Relief, NEW h \in Hosts, NEW io \in Incidents \X Operators, claimAlert(h, io)
    PROVE  OpsInv'
<1>. DEFINE c == [cycle[h] EXCEPT !.at = "sending", !.row = io]
<1>. DEFINE n == outbox[io].attempts + 1
<1>. DEFINE row == [outbox[io] EXCEPT !.status = "sending", !.attempts = n, !.lease = h,
                                      !.expired = FALSE]
<1>1. cycle[h] \in CycleRow /\ cycle[h].at = "delivering"
    BY DEF OpsInv, TypeOK, claimAlert
<1>2. cycle' = [cycle EXCEPT ![h] = c]
    BY DEF claimAlert, OpsInv, TypeOK
<1>3. c \in CycleRow /\ c.at = "sending" /\ c.row = io /\ c.locked = cycle[h].locked
    BY <1>1 DEF CycleRow
<1>4. outbox \in [Incidents \X Operators -> AlertRow \cup {NoAlert}]
    BY DEF OpsInv, TypeOK
<1>5. outbox[io] \in AlertRow /\ outbox[io].attempts < MaxAttempts
    BY <1>4 DEF claimAlert, Claimable, NoAlert
<1>6. outbox' = [outbox EXCEPT ![io] = row]
    BY <1>4 DEF claimAlert
<1>. HIDE DEF row
<1>7. row \in AlertRow
    <2>1. n \in 0..MaxAttempts
        BY <1>5, OperationsAssumption DEF AlertRow
    <2>. HIDE DEF n
    <2>. QED
        BY <1>5, <2>1 DEF AlertRow, row
<1>8. outbox' \in [Incidents \X Operators -> AlertRow \cup {NoAlert}]
    BY <1>4, <1>6, <1>7
<1>9. Counted
    BY NothingCounts DEF OpsInv, claimAlert
<1>10. UNCHANGED <<job, alertLock, incidents, eligible, healthy>>
    BY DEF claimAlert
<1>. HIDE DEF c
<1>. QED
    BY <1>1, <1>2, <1>3, <1>8, <1>9, <1>10, WorkKept

\* A turn of the deliveries ends: the alert was submitted, or the submission threw.
LEMMA SubmitKeeps ==
    ASSUME OpsInv, Relief, NEW h \in Hosts, submitAlert(h) \/ failSubmission(h)
    PROVE  OpsInv'
<1>. DEFINE io == cycle[h].row
<1>1. cycle[h] \in CycleRow /\ cycle[h].at = "sending" /\ io \in Incidents \X Operators
    BY DEF OpsInv, TypeOK, SendingHasRow, submitAlert, failSubmission
<1>. HIDE DEF io
<1>2. PICK failed \in BOOLEAN : Turn(h, failed)
    BY DEF submitAlert, failSubmission, Claimed
<1>. DEFINE c == [cycle[h] EXCEPT !.at = "delivering", !.row = <<>>,
                                  !.error = cycle[h].error \/ failed]
<1>3. cycle' = [cycle EXCEPT ![h] = c]
    BY <1>2 DEF Turn, OpsInv, TypeOK
<1>4. c \in CycleRow /\ c.at = "delivering" /\ c.locked = cycle[h].locked
    BY <1>1 DEF CycleRow
<1>. HIDE DEF c
<1>5. outbox \in [Incidents \X Operators -> AlertRow \cup {NoAlert}]
    BY DEF OpsInv, TypeOK
<1>6. outbox' = outbox \/ \E row \in AlertRow : outbox' = [outbox EXCEPT ![io] = row]
    <2>1. Claimed(h) => outbox[io] \in AlertRow
        BY <1>1, <1>5 DEF Claimed, NoAlert, io
    <2>2. CASE submitAlert(h)
        <3>. DEFINE row == [outbox[io] EXCEPT
                 !.status = IF Open(io[1]) /\ io[2] \in eligible THEN "sent" ELSE "suppressed",
                 !.lease = NoHost, !.expired = FALSE]
        <3>1. Claimed(h) => row \in AlertRow
            BY <2>1 DEF AlertRow
        <3>2. outbox' = outbox \/ (Claimed(h) /\ outbox' = [outbox EXCEPT ![io] = row])
            BY <2>2, <1>5 DEF submitAlert, io
        <3>. QED
            BY <3>1, <3>2
    <2>3. CASE failSubmission(h)
        <3>1. \/ outbox' = outbox
              \/ Claimed(h) /\ outbox' = [outbox EXCEPT ![io] = FailedAlert(outbox[io], FALSE)]
            BY <2>3 DEF failSubmission, io
        <3>. QED
            BY <2>1, <3>1, FailedRow
    <2>. QED
        BY <2>2, <2>3
<1>7. outbox' \in [Incidents \X Operators -> AlertRow \cup {NoAlert}]
    BY <1>1, <1>5, <1>6
<1>8. Counted
    <2>1. faults' = faults \/ Happens("outages")
        BY DEF submitAlert, failSubmission
    <2>. QED
        BY <2>1, HappensCounts, NothingCounts DEF OpsInv, EventKinds
<1>9. UNCHANGED <<job, alertLock, incidents, eligible, healthy>>
    BY DEF submitAlert, failSubmission
<1>. QED
    BY <1>1, <1>3, <1>4, <1>7, <1>8, <1>9, WorkKept

\* The ids are given out in order, so at most one is next; it is of no incident.
LEMMA NextIsOne ==
    /\ \A i, j \in NextIncident : i = j
    /\ \A i \in NextIncident : ~Open(i)
<1>1. SUFFICES ASSUME NEW i \in NextIncident, NEW j \in NextIncident, i < j PROVE FALSE
    <2>1. \A i, j \in NextIncident : i \in Nat /\ j \in Nat
        BY OperationsAssumption DEF NextIncident
    <2>2. (\A i, j \in NextIncident : ~(i < j)) => \A i, j \in NextIncident : i = j
        BY <2>1
    <2>3. \A i \in NextIncident : ~Open(i)
        BY DEF NextIncident, Open, NoIncident
    <2>. QED
        BY <1>1, <2>2, <2>3
<1>2. i \in Incidents /\ j \in Incidents /\ i \in Nat /\ j \in Nat /\ incidents[i] = NoIncident
    BY OperationsAssumption DEF NextIncident
<1>3. i \in 0..(j - 1) \cap Incidents
    BY <1>1, <1>2
<1>. QED
    BY <1>2, <1>3 DEF NextIncident

\* What the transaction of a cycle does to an incident: the next one is opened for a signal
\* that has none open, those resolved were open, the others stay.
LEMMA SyncedIncident ==
    ASSUME OpsInv, NEW h \in Hosts, syncIncidents(h), NEW i \in Incidents
    PROVE  \/ incidents'[i] = incidents[i]
           \/ /\ i \in NextIncident
              /\ \E k \in Missing(cycle[h]) : incidents'[i] = [key |-> k, state |-> "open"]
              /\ \A j \in NextIncident : incidents'[j] = incidents'[i]
           \/ /\ i \in Resolved(cycle[h])
              /\ incidents'[i] = [incidents[i] EXCEPT !.state = "resolved"]
<1>. DEFINE c == cycle[h]
<1>. DEFINE k == CHOOSE k \in Missing(c) : TRUE
<1>1. Missing(c) # {} => k \in Missing(c)
    OBVIOUS
<1>. HIDE DEF k
<1>2. incidents' = [x \in Incidents |->
         IF x \in NextIncident /\ Missing(c) # {} THEN [key |-> k, state |-> "open"]
         ELSE IF x \in Resolved(c) THEN [incidents[x] EXCEPT !.state = "resolved"]
         ELSE incidents[x]]
    BY DEF syncIncidents, k
<1>3. NextIncident \subseteq Incidents
    BY DEF NextIncident
<1>. HIDE DEF c
<1>4. CASE i \in NextIncident /\ Missing(c) # {}
    <2>1. \A j \in NextIncident : incidents'[j] = [key |-> k, state |-> "open"]
        BY <1>2, <1>3, <1>4
    <2>. QED
        BY <1>1, <1>4, <2>1 DEF c
<1>5. CASE ~(i \in NextIncident /\ Missing(c) # {}) /\ i \in Resolved(c)
    BY <1>2, <1>5 DEF c
<1>6. CASE ~(i \in NextIncident /\ Missing(c) # {}) /\ i \notin Resolved(c)
    BY <1>2, <1>6
<1>. QED
    BY <1>4, <1>5, <1>6

\* The incidents and their alerts follow the observation.
LEMMA SyncKeeps ==
    ASSUME OpsInv, Relief, NEW h \in Hosts, syncIncidents(h)
    PROVE  OpsInv'
<1>. DEFINE c == [cycle[h] EXCEPT !.at = "synced", !.seen = {}, !.complete = FALSE]
<1>1. cycle \in [Hosts -> CycleRow] /\ cycle[h].at = "observed"
    BY DEF OpsInv, TypeOK, syncIncidents
<1>2. cycle' = [cycle EXCEPT ![h] = c] /\ UNCHANGED <<job, alertLock, eligible, healthy, faults>>
    BY <1>1 DEF syncIncidents
<1>3. c \in CycleRow /\ c.at = "synced" /\ c.locked = cycle[h].locked
    BY <1>1 DEF CycleRow
<1>. HIDE DEF c
<1>4. Counted
    BY <1>2, NothingCounts DEF OpsInv
<1>5. incidents' \in [Incidents -> IncidentRow \cup {NoIncident}]
    <2>1. incidents \in [Incidents -> IncidentRow \cup {NoIncident}]
        BY DEF OpsInv, TypeOK
    <2>2. \A k \in Missing(cycle[h]) : [key |-> k, state |-> "open"] \in IncidentRow
        BY <1>1 DEF Missing, CycleRow, IncidentRow
    <2>3. ASSUME NEW i \in Resolved(cycle[h])
          PROVE  [incidents[i] EXCEPT !.state = "resolved"] \in IncidentRow
        <3>1. i \in Incidents /\ incidents[i] \in IncidentRow
            BY <2>1 DEF Resolved, Open, NoIncident
        <3>. QED
            BY <3>1 DEF IncidentRow
    <2>4. ASSUME NEW i \in Incidents
          PROVE  incidents'[i] \in IncidentRow \cup {NoIncident}
        <3>1. CASE incidents'[i] = incidents[i]
            BY <2>1, <3>1
        <3>2. CASE \E k \in Missing(cycle[h]) : incidents'[i] = [key |-> k, state |-> "open"]
            BY <2>2, <3>2
        <3>3. CASE i \in Resolved(cycle[h]) /\ incidents'[i] = [incidents[i] EXCEPT !.state = "resolved"]
            BY <2>3, <3>3
        <3>. QED
            BY <3>1, <3>2, <3>3, SyncedIncident
    <2>5. incidents' = [i \in Incidents |-> incidents'[i]]
        BY DEF syncIncidents
    <2>. QED
        BY <2>4, <2>5
<1>6. ASSUME NEW i \in Incidents, Open(i)'
      PROVE  \/ Open(i) /\ incidents'[i] = incidents[i]
             \/ i \in NextIncident /\ \E k \in Missing(cycle[h]) : incidents'[i].key = k
    <2>1. CASE incidents'[i] = incidents[i]
        BY <1>6, <2>1 DEF Open
    <2>2. CASE /\ i \in NextIncident
               /\ \E k \in Missing(cycle[h]) : incidents'[i] = [key |-> k, state |-> "open"]
        BY <2>2
    <2>3. CASE i \in Resolved(cycle[h]) /\ incidents'[i] = [incidents[i] EXCEPT !.state = "resolved"]
        <3>1. incidents[i] \in IncidentRow
            BY <2>3 DEF Resolved, Open, NoIncident, OpsInv, TypeOK
        <3>2. incidents'[i].state = "resolved"
            BY <2>3, <3>1 DEF IncidentRow
        <3>. QED
            BY <1>6, <3>2 DEF Open
    <2>. QED
        BY <2>1, <2>2, <2>3, SyncedIncident
<1>7. \A i, j \in Incidents :
        Open(i)' /\ Open(j)' /\ incidents'[i].key = incidents'[j].key => i = j
    <2>. SUFFICES ASSUME NEW i \in Incidents, NEW j \in Incidents, Open(i)', Open(j)',
                         incidents'[i].key = incidents'[j].key
                  PROVE  i = j
        OBVIOUS
    <2>1. Open(i) /\ Open(j) /\ incidents[i].key = incidents[j].key => i = j
        BY DEF OpsInv, TypeOK
    <2>2. \A k \in Missing(cycle[h]), x \in Incidents : Open(x) => incidents[x].key # k
        BY DEF Missing
    <2>. QED
        BY <1>6, <2>1, <2>2, NextIsOne
<1>8. outbox' \in [Incidents \X Operators -> AlertRow \cup {NoAlert}]
    <2>1. QueuedAlert \in AlertRow
        BY OperationsAssumption DEF QueuedAlert, AlertRow
    <2>. QED
        BY <2>1 DEF syncIncidents, OpsInv, TypeOK
<1>9. cycle' \in [Hosts -> CycleRow] /\ cycle'[h] = c /\ \A g \in Hosts \ {h} : cycle'[g] = cycle[g]
    BY <1>1, <1>2, <1>3
<1>10. TypeOK' /\ FaultsCounted'
    BY <1>2, <1>4, <1>5, <1>7, <1>8, <1>9 DEF OpsInv, TypeOK, Relief, FaultsCounted, Counted, Bound
<1>11. ~(healthy' /\ faults'.losses = 0)
    BY <1>1, <1>2 DEF OpsInv, QuietWhileHealthy
<1>12. HealthyHidesNothing' /\ QuietWhileHealthy'
    BY <1>11 DEF HealthyHidesNothing, QuietWhileHealthy
<1>13. SendingHasRow' /\ LockHolders'
    BY <1>1, <1>2, <1>3, <1>9 DEF OpsInv, SendingHasRow, LockHolders
<1>14. AbsenceIsRelief'
    <2>1. faults'.losses = 0 => \A g \in Hosts : cycle'[g].at # "observed"
        BY <1>1, <1>2, <1>3, <1>9 DEF OpsInv, LockHolders
    <2>. QED
        BY <2>1 DEF AbsenceIsRelief
<1>. QED
    BY <1>10, <1>12, <1>13, <1>14 DEF OpsInv

\* A cycle ends: with the lock it records its result, without it the loop retires.
LEMMA ConcludeKeeps ==
    ASSUME OpsInv, Relief, NEW h \in Hosts, concludeCycle(h)
    PROVE  OpsInv'
<1>1. cycle \in [Hosts -> CycleRow] /\ cycle[h].at \in {"ending", "delivering"}
    BY DEF OpsInv, TypeOK, concludeCycle
<1>2. UNCHANGED <<job, incidents, outbox, eligible, faults>>
    BY DEF concludeCycle
<1>3. PICK c \in CycleRow :
         /\ cycle' = [cycle EXCEPT ![h] = c]
         /\ c.at = IF cycle[h].locked THEN "idle" ELSE "retired"
    <2>. DEFINE c == IF cycle[h].locked THEN IdleCycle ELSE [IdleCycle EXCEPT !.at = "retired"]
    <2>1. cycle' = [cycle EXCEPT ![h] = c]
        BY DEF concludeCycle
    <2>2. c \in CycleRow /\ c.at = IF cycle[h].locked THEN "idle" ELSE "retired"
        BY DEF IdleCycle, CycleRow
    <2>. HIDE DEF c
    <2>. QED
        BY <2>1, <2>2
<1>4. Counted
    BY <1>2, NothingCounts DEF OpsInv
<1>5. cycle' \in [Hosts -> CycleRow] /\ cycle'[h] = c /\ \A g \in Hosts \ {h} : cycle'[g] = cycle[g]
    BY <1>1, <1>3
<1>6. alertLock' \in Hosts \cup {NoHost} /\ healthy' \in BOOLEAN
    <2>1. CycleFailed(h) \in BOOLEAN
        <3>1. cycle[h].error \in BOOLEAN
            BY <1>1 DEF CycleRow
        <3>. QED
            BY <3>1 DEF CycleFailed, HasAlert
    <2>. QED
        BY <2>1 DEF concludeCycle, OpsInv, TypeOK
<1>7. TypeOK' /\ FaultsCounted'
    BY <1>2, <1>4, <1>5, <1>6, TypesKept DEF OpsInv, TypeOK
<1>8. AbsenceIsRelief'
    BY <1>2, <1>3, <1>4, <1>5, ReliefKept
<1>9. ASSUME faults'.losses = 0
      PROVE  /\ \A g \in Hosts : cycle'[g].at = "idle"
             /\ healthy' => ~HasAlert("failed")' /\ ~HasAlert("failed_terminal")'
    <2>1. faults.losses = 0 /\ cycle[h].locked /\ alertLock = h
        BY <1>1, <1>4, <1>9 DEF OpsInv, LockHolders, Counted
    <2>2. \A g \in Hosts \ {h} : cycle[g].at = "idle"
        BY <2>1 DEF OpsInv, LockHolders
    <2>3. healthy' = ~CycleFailed(h)
        BY <2>1 DEF concludeCycle
    <2>. QED
        BY <1>2, <1>3, <1>5, <2>1, <2>2, <2>3 DEF CycleFailed, HasAlert
<1>10. HealthyHidesNothing' /\ QuietWhileHealthy' /\ LockHolders'
    BY <1>9 DEF HealthyHidesNothing, QuietWhileHealthy, LockHolders
<1>11. SendingHasRow'
    BY <1>3, <1>5 DEF OpsInv, SendingHasRow
<1>. QED
    BY <1>7, <1>8, <1>10, <1>11 DEF OpsInv

\* The connection of an alert loop fails.
LEMMA LossKeeps ==
    ASSUME OpsInv, Relief, NEW h \in Hosts, loseAlertConnection(h)
    PROVE  OpsInv'
<1>. DEFINE c == IF cycle[h].at = "idle" THEN [cycle[h] EXCEPT !.at = "retired"]
                 ELSE [cycle[h] EXCEPT !.locked = FALSE]
<1>1. cycle \in [Hosts -> CycleRow] /\ cycle[h] \in CycleRow
    BY DEF OpsInv, TypeOK
<1>2. cycle' = [cycle EXCEPT ![h] = c]
    BY <1>1 DEF loseAlertConnection
<1>3. c \in CycleRow /\ c.at = "sending" => c.row = cycle[h].row /\ cycle[h].at = "sending"
    BY <1>1 DEF CycleRow
<1>4. c \in CycleRow
    BY <1>1 DEF CycleRow
<1>. HIDE DEF c
<1>5. UNCHANGED <<job, incidents, outbox, eligible, healthy>> /\ alertLock' \in Hosts \cup {NoHost}
    BY DEF loseAlertConnection, OpsInv, TypeOK
<1>6. Counted /\ faults'.losses # 0
    BY HappensCounts DEF loseAlertConnection, OpsInv, EventKinds
<1>7. cycle' \in [Hosts -> CycleRow]
    BY <1>1, <1>2, <1>4
<1>8. TypeOK' /\ FaultsCounted'
    BY <1>5, <1>6, <1>7, TypesKept DEF OpsInv, TypeOK
<1>9. HealthyHidesNothing' /\ QuietWhileHealthy' /\ LockHolders' /\ AbsenceIsRelief'
    BY <1>6 DEF HealthyHidesNothing, QuietWhileHealthy, LockHolders, AbsenceIsRelief
<1>10. SendingHasRow'
    BY <1>1, <1>2, <1>3, <1>4 DEF OpsInv, SendingHasRow
<1>. QED
    BY <1>8, <1>9, <1>10 DEF OpsInv

\* A process dies and is started again.
LEMMA RestartKeeps ==
    ASSUME OpsInv, Relief, NEW h \in Hosts, restart(h)
    PROVE  OpsInv'
<1>1. cycle \in [Hosts -> CycleRow] /\ IdleCycle \in CycleRow /\ IdleCycle.at = "idle"
    BY DEF OpsInv, TypeOK, IdleCycle, CycleRow
<1>2. /\ cycle' = [cycle EXCEPT ![h] = IdleCycle] /\ UNCHANGED <<job, incidents, eligible, healthy>>
      /\ alertLock' = IF alertLock = h THEN NoHost ELSE alertLock
    BY DEF restart
<1>3. cycle' \in [Hosts -> CycleRow] /\ cycle'[h] = IdleCycle
      /\ \A g \in Hosts \ {h} : cycle'[g] = cycle[g]
    BY <1>1, <1>2
<1>4. Counted
    BY HappensCounts DEF restart, OpsInv, EventKinds
<1>5. /\ outbox' \in [Incidents \X Operators -> AlertRow \cup {NoAlert}]
      /\ \A io \in Incidents \X Operators : outbox'[io].status = outbox[io].status
    <2>1. outbox \in [Incidents \X Operators -> AlertRow \cup {NoAlert}]
        BY DEF OpsInv, TypeOK
    <2>2. \A row \in AlertRow : /\ [row EXCEPT !.lease = NoHost] \in AlertRow
                                /\ [row EXCEPT !.lease = NoHost].status = row.status
        BY DEF AlertRow
    <2>3. outbox' = [io \in Incidents \X Operators |->
             IF outbox[io] # NoAlert /\ outbox[io].lease = h
             THEN [outbox[io] EXCEPT !.lease = NoHost] ELSE outbox[io]]
        BY DEF restart
    <2>4. \A io \in Incidents \X Operators : /\ outbox'[io] \in AlertRow \cup {NoAlert}
                                             /\ outbox'[io].status = outbox[io].status
        BY <2>1, <2>2, <2>3
    <2>. QED
        BY <2>3, <2>4
<1>6. TypeOK' /\ FaultsCounted'
    BY <1>2, <1>3, <1>4, <1>5, TypesKept DEF OpsInv, TypeOK
<1>7. AbsenceIsRelief'
    BY <1>1, <1>2, <1>3, <1>4, ReliefKept
<1>8. HealthyHidesNothing'
    BY <1>2, <1>4, <1>5, QuietKept
<1>9. SendingHasRow' /\ LockHolders' /\ QuietWhileHealthy'
    BY <1>1, <1>2, <1>3, <1>4
    DEF OpsInv, Counted, SendingHasRow, LockHolders, QuietWhileHealthy
<1>. QED
    BY <1>6, <1>7, <1>8, <1>9 DEF OpsInv

-----------------------------------------------------------------------------
(* Every step, and the theorems.                                           *)

\* The invariant is kept by every step.
LEMMA StepHolds == OpsInv /\ [Next]_vars => OpsInv'
<1>. SUFFICES ASSUME OpsInv, [Next]_vars PROVE OpsInv'
    OBVIOUS
<1>1. CASE UNCHANGED vars
    BY <1>1 DEF vars, OpsInv, TypeOK, FaultsCounted, SendingHasRow, LockHolders, QuietWhileHealthy,
       AbsenceIsRelief, HealthyHidesNothing, HasAlert, Open, Bound
<1>2. CASE Next
    <2>1. Relief
        BY <1>2, NextRelieves
    <2>2. ASSUME NEW h \in Hosts, cycleStep(h) \/ loseAlertConnection(h) \/ restart(h) PROVE OpsInv'
        BY <2>1, <2>2, ObserveKeeps, SyncKeeps, ProbeKeeps, ClaimKeeps, SubmitKeeps, ConcludeKeeps,
           LossKeeps, RestartKeeps DEF cycleStep
    <2>. QED
        BY <1>2, <2>1, <2>2, AlertKeeps, OperatorKeeps, JobKeeps DEF Next, Step
<1>. QED
    BY <1>1, <1>2

\* The invariant holds in every state.
THEOREM SpecOpsInv == Spec => []OpsInv
BY InitHolds, StepHolds, PTL DEF Spec

(***************************************************************************)
(* The register, the alerts and the cycles are always well-formed, and no  *)
(* signal ever has two open incidents, however many hosts run cycles at    *)
(* once, with their lock or without.                                       *)
(***************************************************************************)
THEOREM OperationsTypes == Spec => []TypeOK
<1>1. OpsInv => TypeOK
    BY DEF OpsInv
<1>. QED
    BY <1>1, SpecOpsInv, PTL

(***************************************************************************)
(* While the last cycle counts as healthy, no alert waits for another      *)
(* attempt or was given up, unless a cycle outlived its lock.              *)
(***************************************************************************)
THEOREM HealthIsHonest == Spec => []HealthyHidesNothing
<1>1. OpsInv => HealthyHidesNothing
    BY DEF OpsInv
<1>. QED
    BY <1>1, SpecOpsInv, PTL

(***************************************************************************)
(* An incident is closed only after its signal went away while it was      *)
(* open, as long as no cycle has outlived its lock.                        *)
(***************************************************************************)
THEOREM ResolutionFollowsRelief == Spec => ResolvedWasRelieved
<1>1. ASSUME OpsInv, [Next]_vars, NEW i \in Incidents, Open(i), incidents'[i].state = "resolved",
             faults.losses = 0
      PROVE  i \in relieved
    <2>1. incidents' # incidents
        BY <1>1 DEF Open
    <2>2. PICK h \in Hosts : syncIncidents(h)
        BY <1>1, <2>1 DEF Next, Step, vars, cycleStep, observeIncidents, probeTransport, claimAlert,
           submitAlert, failSubmission, concludeCycle, loseAlertConnection, restart, alertVars,
           retryOperatorAlert, leaseExpires, backoffEnds, operatorChanges, startJob, statusAges, finishJob
    <2>3. i \notin NextIncident
        BY <1>1, NextIsOne
    <2>4. i \in Resolved(cycle[h])
        BY <1>1, <2>2, <2>3, SyncedIncident DEF Open
    <2>5. cycle[h].at = "observed"
        BY <2>2 DEF syncIncidents
    <2>. QED
        BY <1>1, <2>4, <2>5 DEF Resolved, OpsInv, AbsenceIsRelief
<1>2. OpsInv /\ [Next]_vars
        => [\A i \in Incidents :
              Open(i) /\ incidents'[i].state = "resolved" /\ faults.losses = 0 => i \in relieved]_vars
    BY <1>1
<1>. QED
    BY <1>2, SpecOpsInv, PTL DEF Spec, ResolvedWasRelieved
=============================================================================
