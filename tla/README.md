# A TLA+ verification of CocoaTrace

CocoaTrace is a marketplace for cocoa batches: cooperatives register harvests,
allocate them to holdings, publish listings, receive offers, conclude contracts,
pay, ship, accept delivery and, when needed, recall. The API (`src/api`) is an
Express program over PostgreSQL that serves many requests at once, on several
hosts, beside jobs that send emails, delete stored objects, present documents
and alert operators. `src/web` is its user interface.

This directory models the parts where concurrency, failure and accounting meet:
the stock ledger, the life of a trade with its money, goods and fee, recalls,
the email outboxes, the evidence store, the operator alerts, and the accounts
and sessions. TLC checks the models on small instances; TLAPS proves for every
instance the safety properties of all of them, but one that is out of its reach,
and the refinements of the stock ledger and of the trade.
`PROJECT.json` ties each definition to the lines it models, lists what is hard
to test in this code at its line, and names the mutation that breaks each
property.

## 1. Inventory of the system

| Component | State | Operations | Interacts with | Hard behaviour | What makes it correct |
|---|---|---|---|---|---|
| Inventory ledger | `harvest_batches`, `batch_holdings`, `listings`, `trade_offers`, `custody_transfers`, contracts' stock side | register, allocate, publish, edit, renew, withdraw, offer, accept, reject, withdraw offer, transfer, split, settle, cancel | recall, trade | partial acceptance rewrites four tables; reads before locks; expiry by the clock | stock is not created, published beyond what there is, or sold twice |
| Payments | terms, instalments, proof, security, issues, document sets | propose, agree, submit, confirm, reject, reverse, present, dispute | triggers from transport, documents and delivery; settles the trade | several callers of the settlement; reversal after confirmation; a job beside the parties | the trade settles once, when everything is paid and accepted; documents are released only against money, credit or security |
| Transport and delivery acceptance | arrangement, milestones, exceptions, acceptance, discrepancy | arrange, record, acknowledge an exceptional dispatch, accept, report, resolve | payments, fee, settlement | milestones reported out of order | goods leave only under their conditions or a recorded exception |
| Platform fees and refunds | fee, consent, submission, credit, refund | consent, submit, review, write off, credit, refund | dispatch, payments, settlement, cancellation | refund races money and goods | a refund and a started trade exclude each other |
| Contract cancellation, settlement | cancellation requests, contract status | request, reject, approve; settle | all of the above | facts change while the request waits | cancelled only if nothing has moved |
| Trade guidance | none of its own | next step of each party | reads all of the trade | restates the guards in other words | asks for what would be accepted; somebody is always asked |
| Recall holds, response and trace | holds, participants, recoveries, notices; genealogy | trace, activate, acknowledge, recover, resolve | blocks trading, queues emails, reads evidence | activation and resolution race trading, each other and evidence cleanup | exact scope; resolved only when all answered and all stock is accounted for |
| Email outboxes | four outbox tables with lease, attempts, backoff | enqueue, claim, submit, fail, sweep, purge, retry | recall, reminders, invitations, fee statements | overlapping workers, crash between SMTP and commit, expiring leases | duplicates only after a loss; nobody ineligible is mailed; every row ends |
| Evidence uploads, cleanup and scan | `evidence_upload_intents`, `evidence_items`, `evidence_object_cleanup`, the object store | create intent, upload, scan, complete, sweep, delete, retry, rescan | object store, scanner | provider and database cannot commit together; timeouts with unknown outcome | clean evidence keeps its bytes; every object is charged, kept or deleted |
| Scheduled jobs and alerts | job status, incidents, alert outbox, cycle result | run, observe, sync, deliver, conclude, retry | all queues | hosts take over from each other; lost lock connections, which retire loops; mail outage | no incident closed unseen; no persistent signal unreported while a loop is left |
| Accounts: sessions, passwords, MFA, access, invitations, applications | users, organizations, sessions, tokens, passkeys, invitations | log in and out, reset, register keys, recover, suspend, restore, change roles, invite, apply | every request | what was read before a transaction is stale in it | sessions and invitations end with what they stand on; reviewers remain |
| Document review, sourcing, support | review states, requests | review, replace; open, close | documents of a trade | stale review | – |
| Catalog, trust, public pages | none of their own | queries | read the tables above | – | – |
| HTTP layer, configuration, shutdown, migrations, web | none that trade depends on | validation, wiring | all | – | – |

## 2. Modules

| Module | What it is |
|---|---|
| `Tables` | a database table as a function from ids to rows; insertion; the `SUM(quantity)` of a set of rows |
| `Inventory` | the inventory ledger, recall holds and the stock side of contracts |
| `StockLedger`, `InventoryLedger` | the abstract ledger (who has how much free, which agreements hold some) and the refinement mapping to it |
| `InventoryProofs` | the inductive invariant of `Inventory`, and what no step of it may do |
| `StockProofs` | its quantities: the invariant of the sums, and the refinement of `StockLedger` |
| `DealTables` | the rows of one trade, its payment plans, incoterms, and the settlement every part can trigger |
| `Payments`, `Transport`, `Fees` | the operations of those parts, each extending the one before |
| `Deal` | delivery acceptance and cancellation, the whole specification and its properties |
| `NextAction` | the guidance: what each party is asked to do in each state of `Deal` |
| `Exchange`, `DealExchange` | what a trade promises its two parties, and the refinement mapping to it |
| `DealProofs` | the inductive invariant of `Deal`, its safety properties and the refinement; that the guidance asks somebody, and only for what is accepted |
| `LotTrace` | the two traces of a recall, as pure functions |
| `Recall`, `RecallProofs` | recalls from activation to resolution, over the stock they hold |
| `EmailOutbox`, `EmailOutboxProofs` | the four outboxes, their workers and the SMTP server |
| `EvidenceUpload`, `EvidenceProofs` | uploads, cleanup, maintenance scan and the object store |
| `Operations`, `OperationsProofs` | jobs, incidents and operator alerts on several hosts |
| `Accounts`, `AccountsProofs` | users, organizations, sessions, passwords, passkeys, access decisions and invitations |
| `MC...` | instances of these for TLC |

`DealTables`, `Payments`, `Transport`, `Fees`, `Deal` form one specification: they
share the rows of a trade, and an action of one may settle the trade, make the
fee due or start an instalment, which are rows of another. `Inventory` and `Deal`
meet in the contract: `Inventory` lets a contract be settled or cancelled
whenever its *stock* allows, which is more than `Deal` does, and `Deal` keeps of
the stock whether the holding is committed, released or handed over. `Recall`
has the steps of `Inventory` a recall sees, with the parties each holding
touches.

### Inventory

Every variable is a table of the database (`source` is `harvest_batches`, `held`
the batches under a recall hold), except `withdrawing`, which is what a process
remembers: `withdrawTradeOffer` reads the holding of an offer before it locks
anything, so it is two actions, `discoverWithdrawal` and `withdrawTradeOffer`,
and anything may happen between them. Every other operation is one transaction
that locks batch, holding and listing rows before it reads them, so it is one
action. The trailing `reconcileHoldingListings`, which shrinks listings to
what is left and rejects offers no longer covered, is part of each action that
calls it (`Reconcile`). The source orders the listings it trims; the model
orders them by `ListingIds`, which are therefore naturals.

Time is `expireListing` and `lapseOffer`: a deadline passes, nothing is written.
Payment, transport and delivery conditions of settlement and cancellation are
left to `Deal`: the closing actions may happen in any order that the *stock*
conditions allow, which is more than the program does, so the safety properties
carry over. Quantities are grams; `SumQuantity` is the cardinality of the
set of grams the rows hold, which equals the sum and needs no recursion.

### Deal and its parts

One trade, from the accepted offer on (`Init` is what `createFulfillment`
inserts, under any plan and fee policy). The variables are its rows: `contract`,
`payment`, `items` (instalments by type), `proofs`, `issue`, `shipment`,
`delivery`, `cancellation`, `fee`, `holding`; `documents` stands for the set of
required documents being validated, clean and stored, `recalled` for a hold on
the batch. The actions have the names of the functions they translate. Each is
one transaction under the lock of the contract row, settlement included: the
four callers of `completeTradeIfReady` (receipt, issue resolution, milestone,
acceptance) call the operator of that name with the rows they have just written. The scheduled `reconcileDocumentSets` selects trades by
one condition (`DocumentSetCandidate`, the SQL) and presents by another
(`presentDocumentSet`); it is one action beside the seller's own.

Milestones are reported in the order `milestoneOrder` allows under the incoterm,
by the party `milestoneParty` names, and may be skipped, as in the code;
`crossesDispatchBoundary` decides where the dispatch conditions are checked, and
`acknowledgeException` is the recorded exception. Time is in `creditExpires`.
Recall and documents change by themselves (`recallChanges`, `documentsChange`).

Refused requests, idempotent repeats, currencies, precision, references and
audit rows are left out; amounts are whole minor units and a deposit is any
member of `Deposits`, which in the theorems is any set of amounts.

### NextAction

`NextEntry(party, requester)` is `buildTradeActions` for one deal, rule by rule
in the order of `closeout.ts`, `commercial.ts` and `fulfillment.ts`, over the facts
`loadTradeActions` selects. `Accepts(step)` is the guard of the operation the entry
points to: the named operator its action starts with (`Payable`, `Confirmable`,
`Presentable`, `Recordable`, `Acceptable`, ...), so that the rule and the guard
are compared and neither is written down twice. On the instance of run `deal` each
of these guards holds exactly where its action is `ENABLED`. The organization that
requested a cancellation is not in the rows of `Deal`, so properties quantify over it.

### Recall and LotTrace

`LotTrace` computes the forward trace with quantities in exact fractions (the
code in floating point, with the threshold of one milligram below which it
stops) as a fold over the queue, within the budget of `TRACE_LIMITS`, and the
trace back; `ReachedFrom` and `DrawnFrom` define the same scopes by routes, without a
queue. An organization activates a recall of lots it is connected to, or of any if its
actor may manage all recalls (`Authorities`). `Recall` activates a notice with the result: holds on every holding
and lot in scope, and the organizations that must answer, taken once from the
database at that time. Holders acknowledge and record recoveries. Resolution
takes two steps: `preflightEvidence` probes the store without a lock
(`request`), and `resolveRecallResponse` runs later, when the evidence may have
been rejected or deleted (`evidence` changes by itself) and stock may have moved
(`acceptTransfer`, `acceptOffer`, `completeTradeIfReady`, `approveCancellation`).

### EmailOutbox

One row `e` of one outbox: `queue` picks which, since the recall queue submits
after releasing its lock and the others submit while holding it. A worker claims
(with a lease), submits, and records; between any two of these it may crash, its
lease may expire, another worker may sweep, or the recipient may stop
being eligible. `mishaps` counts the acceptances whose commit was lost, and
`submissions` what the SMTP server accepted; both are history, read only by
properties. The queue's retry limit is `MaxAttempts`.

### EvidenceUpload

An upload request is a process with a program counter (`upload`) through claim,
quarantine write, mark, scan, reservation, read, copy, removal and completion;
each step is a transaction or a provider call. A provider call may succeed,
fail, or time out; a write that timed out may be applied much later (`lateWrite`).
A commit may be unconfirmed. `row` is the cleanup ledger, `stored` what the
provider holds, `late` the objects a delayed write brought back after the
client gave up. Objects have size one, so bytes are counted as objects.

### Operations

Every host has an alert loop (`cycle[h]`): observe, sync incidents, probe SMTP,
claim and submit alerts, conclude. Each is a transaction of its own; the loop's
lock belongs to a connection that can be lost while the work goes on
(`loseAlertConnection`), after which another host may run a cycle beside it.
`startJob` and `finishJob` are one job and its result, `statusAges` its deadline.
`relieved` is history: the open incidents whose signal has been absent since.

### Accounts

Every action is a transaction; `requests` bounds those that begin something. A
login that compared a password before its transaction, and a reset that hashed
one, are a choice among the values the password may have had (`LoginHashes`).
Passkey challenges are a field of the session. Decisions by two reviewers
(recovery, privileged suspension and restoration) require two distinct fresh,
assured sessions of platform administrators, locked in the same transaction
(`Reviewed`); the count of remaining administrators in the code is then implied,
as `ReviewersRemain` proves.

## 3. Runs

| Run | Checks | Bounds | States |
|---|---|---|---|
| `inventory_offers` | `CommittedForOneContract`, `ContractsMatchOffers`, `NothingPublishedUnderRecall`, `OfferDecidedOnce`, `RecalledStockStays` | 2 offers, 2 holdings, 2 listings, 1 transfer, 2 g | 1,077,323 |
| `inventory_ledger` | `SourceNotOverallocated`, `ReservationsFit`, `PromisesKept`, `ImplementsLedger` | 3 holdings, 2 listings, 1 offer, 1 transfer, 2 g | 113,735 |
| `deal` | `PaymentAddsUp`, `ReadyIsSettled`, `ReleaseIsJustified`, `DispatchIsCovered`, `RefundOnlyUnstarted`, `CancelledIsClean`, `AskedIsAccepted`, `SomebodyIsAsked`, `ReadySetIsPresented`, `ImplementsExchange` | 3 plans, FCA, deposit 1 of 2, milestones `handed_over` and `delivered`, 1 exception | 1,211,456 |
| `recall` | `SafetyReconciles`, `ScopeIsExact`, `ResolutionCoversEveryone`, `ResolvedOnStoredEvidence`, `DisposedNeverTraded` | 2 recalls, 3 genealogies of 3 lots, 2 holdings, 3 organizations | 1,082,658 |
| `email_outbox` | `DuplicateNeedsMishap`, `NoStaleSubmission`, `SentIsFinal`, `EveryEmailResolved` | 1 row, 2 workers, 3 attempts, 2 crashes, 1 retry, 3 queues | 77,522 |
| `evidence_upload` | `CleanEvidenceIsStored`, `EvidenceMatchesIntent`, `EveryObjectResolved` | 1 intent, 2 workers, 2 attempts, 1 crash | 345,488 |
| `evidence_quota` | `StorageWithinQuota` | 1 intent, 1 legacy object, quota 2, 1 retry | 1,268,685 |
| `operations` | `TypeOK`, `HealthyHidesNothing`, `ResolvedWasRelieved`, `PersistentSignalReported`, `RecoveryClosesIncidents` | 2 hosts, 1 operator, 2 attempts, 2 of the changes (2), outages (1), losses (2, as one), crashes (1) | 383,342 |
| `accounts` | `SessionsAreCurrent`, `AdministratorsRemain`, `PendingInvitationsHold` | 5 addresses, 3 organizations, 3 sessions, 2 keys, 1 token, 1 invitation, 3 requests | 216,563 |
| `inventory_quarantine`, `evidence_accounting`, `deal_late_terms` | one documented statement each; see Findings | as small as the trace allows | – |

Why these bounds are enough to be interesting:

* two offers of one gram on a listing of two, and two listings of one holding,
  are the least that make acceptances compete, leave a remainder listing and
  make reconciliation reject the other offer; a holding is split by a
  partial sale into the second id. A third holding lets a transfer
  and a sale both take part of one;
* the three plans of the trade have a deposit before dispatch, security, and
  payment on delivery, and so every kind of trigger but documents against
  payment, whose trigger `deposit_balance` has too. Two milestones suffice since milestones
  may be skipped: the first passes the dispatch boundary, the second delivers.
  The fee is enrolled in the newest policy, the one with guards. A larger
  exploration (all plans and milestones, each of six incoterms) found nothing in
  several million states before it was stopped; the theorems have no bounds;
* the chain and the diamond are the least genealogies with a lot reached in two
  steps and one reached in two ways. In the third, a diamond below a lot of a kilogram,
  two milligrams of a gram of suspect material reach the middle lot and one milligram the
  last by each route: the threshold leaves that lot out. Two recalls overlap on one batch;
* the outbox rows of one table do not interact, so one row and two workers show
  every race of claim, lease and record; two crashes and a retry let each of
  three attempts fail differently. `fee_statement` takes the same path as
  `payment_reminder` and is left out of the run;
* one upload has two objects, which with two cleanup workers gives every race
  between request, sweep and deletion; the quota run adds a legacy object so
  that the quota of two is reached and exceeded reservations are refused;
* two hosts are what taking over the alert lock needs. Two events let each fault meet
  one of another kind. Lost connections count as one event, as one outage of the database
  can fail both: so the run has the states in which both loops have retired, a signal that
  appears or goes away then, and a restart after them;
* three platform administrators are one more than the two reviewers a decision needs,
  two of them signed in; the third is who a decision is about. Three requests
  begin a decision, a login or reset beside it, and what follows.

Symmetry is over opaque ids only (never over listing ids, which are ordered) and
never in a run with a liveness property. In `accounts` it ranges over the three
platform administrators and the sessions, which only the initial state tells apart. The runs
but `operations` say `CHECK_DEADLOCK FALSE`: a system whose rows are all settled,
or whose finite ids or requests are used up, may rest.

### Fairness

`Inventory`, `Recall` and `Accounts` have none: users need not act.

* `EmailOutbox` has weak fairness of a worker's step, because the jobs are
  scheduled again and again and each SMTP call has a deadline, and of the clock
  (leases end, backoff ends).
  A crashed worker is started again, and so is one whose loop retired after a lost lock
  connection (`operations/worker.ts`): that somebody restarts its process is assumed.
* `EvidenceUpload` has weak fairness of a running request, whose provider calls
  have deadlines, of the stale sweep, of the cleanup worker and of the clock.
  For the sweep and the worker, which are scheduled jobs, a restart is assumed in the same way.
* `Deal` has weak fairness of `reconcileDocumentSets` alone, which the scheduler
  starts every 15 seconds (`ReadySetIsPresented`). A lost lock connection retires a
  job's loop until its process restarts; the assumption includes that it does.
  The parties need do nothing.
* `Operations` has weak fairness of each host's cycle, started by a timer, and of
  the clock. Nothing is assumed of the jobs, and here no restart: a lost lock connection
  retires a host's alert loop for good, one outage of the database all of them, and
  `docs/runbooks/OPERATIONS_JOBS.md` tells the operator to restart. `PersistentSignalReported`
  and `RecoveryClosesIncidents` therefore speak of behaviours in which some loop is left
  (`Watched`). Without that condition TLC refutes both.

Nothing is assumed of the network, of SMTP or of the provider: they may fail
whenever they are called, and the bound on attempts is what ends the retrying.
Crashes and operator retries are bounded by `MaxCrashes` and `MaxRetries`.

### Findings

Each is a statement of the repository's documents, checked as a property that
TLC refutes.

* `QuarantineSurvivesSettlement`: settlement does not look at recall holds, so a
  batch recalled after delivery was accepted is released by the last payment.
* `EveryObjectAccounted`: a write applied by the provider after its deadline
  leaves a stored object that is neither charged nor in any backlog.
  `StorageWithinQuota` holds of everything else.
* `DeliveryCollects`: when the goods were dispatched exceptionally and delivered
  before terms are agreed, the instalment of `pay_after_delivery` waits for a
  trigger that has passed; nobody can submit it and the trade cannot settle.

Three further differences from the documents are recorded as hazards: an expired
listing stays active and its stock may be published again (what the market can
see does fit, `ReservationsFit`); settlement writes no custody record when an
earlier accepted transfer of this holding to this buyer exists, even of another
part; and "Any non-zero suspect contribution places the full commingled descendant lot in
recall scope" (`recallTrace.ts:390`, likewise the comment at 295), while line 294 drops
contributions of up to a milligram, each on its own, even when their sum is more.
`ScopeIsExact` states the scope as the code computes it.

### The guidance and the fee

`AskedIsAccepted` permits two refusals. `FeeRefuses`: the guidance looks at the
platform fee only before pickup (`closeout.ts`), while the dispatch check at
loading looks again: when finance's credit ends in between, the seller is asked
for a milestone that is refused. And while a refund of the fee is
under way the parties are still asked for payments that wait for its decision.

`ReferenceMissed`: a transport document's reference is needed to present the
documents (docs/runbooks/PAYMENT_DOCUMENT_RULES.md:19) but not to depart, and
`updateArrangement` refuses once the shipment is delivered. When the milestones
reach delivery before anybody recorded it, the seller is asked to complete a
document set that cannot be completed any more; what falls due against the documents
is never due, and the trade stays unpaid. `SomebodyIsAsked` counts this as asked.

`SomebodyIsAsked` leaves out the states of `DeliveryCollects`, and those in
which nobody can act (`Held`): a recall, a payment issue, a fee payment under review.

## 4. What is proved

Each module of proofs has one inductive invariant, shown to hold initially and to be
kept by every step, with a lemma per action or group of actions, and its theorems
follow from it. TLC checked each invariant on an instance first. The theorems hold for
all values of the constants that satisfy the module's assumptions, which say
what the constants are (finite sets of ids, numbers, the state at the start) and nothing of
how the program behaves.

| Theorem | Property | Theorem | Property |
|---|---|---|---|
| `CommitmentIsExclusive` | `CommittedForOneContract` | `SubmittedWhileWanted` | `NoStaleSubmission` |
| `ContractsAreTheAcceptedOffers` | `ContractsMatchOffers` | `DuplicatesExplained` | `DuplicateNeedsMishap` |
| `RecallUnpublishes` | `NothingPublishedUnderRecall` | `SentStaysSent` | `SentIsFinal` |
| `DecisionsAreFinal` | `OfferDecidedOnce` | `CleanEvidenceKept` | `CleanEvidenceIsStored` |
| `RecallFreezesStock` | `RecalledStockStays` | `EvidenceOfCompleted` | `EvidenceMatchesIntent` |
| `NeverOverallocated` | `SourceNotOverallocated` | `QuotaHolds` | `StorageWithinQuota` |
| `ReservationsAlwaysFit` | `ReservationsFit` | `SessionsStayCurrent` | `SessionsAreCurrent` |
| `PromisesAlwaysKept` | `PromisesKept` | `ReviewersRemain` | `AdministratorsRemain` |
| `StockIsConserved` | `ImplementsLedger` | `InvitationsStayGood` | `PendingInvitationsHold` |
| `PaymentsAddUp` | `PaymentAddsUp` | `HoldsAreComplete` | `SafetyReconciles` |
| `ReadyTradesSettle` | `ReadyIsSettled` | `EverybodyAnswered` | `ResolutionCoversEveryone` |
| `DocumentsReleasedOnTerms` | `ReleaseIsJustified` | `EvidenceAtResolution` | `ResolvedOnStoredEvidence` |
| `DispatchesCovered` | `DispatchIsCovered` | `DisposedStaysOut` | `DisposedNeverTraded` |
| `RefundsExcludeTrading` | `RefundOnlyUnstarted` | `OperationsTypes` | `TypeOK` |
| `CancellationsClean` | `CancelledIsClean` | `HealthIsHonest` | `HealthyHidesNothing` |
| `TradeImplementsExchange` | `ImplementsExchange` | `ResolutionFollowsRelief` | `ResolvedWasRelieved` |
| `TradesNeverWait` | `SomebodyIsAsked` | `AskedWillBeAccepted` | `AskedIsAccepted` |

The type invariants of `Inventory`, `Deal`, `EmailOutbox`, `EvidenceUpload` and
`Accounts` are theorems too (`TypeCorrect`, `TradeTypes`, `OutboxTypes`,
`EvidenceTypes`, `AccountTypes`); that of `Recall` is part of `SpecRecallInv`. Two more,
`TradeKeepsStock` and `NobodyGivesForNothing`, state what no run checks as such; they
are in the subsections on the ledger and the trade.

### The stock ledger

`InventoryProofs`, for any finite sets of batches, organizations and ids and any
`MaxGrams` (`InventoryAssumption`, `MaxGramsAssumption`), proves

    IInv == TypeOK /\ ForeignKeys /\ CommittedForOneContract
                   /\ ContractsMatchOffers /\ NothingPublishedUnderRecall

None of the parts is inductive alone. `ForeignKeys` says that the rows named by
listings, offers, transfers and contracts exist: without it an update of a
holding could be an update outside the table. A contract stays matched to its
offer only because accepted offers are never decided again; a holding is
committed for one contract only because a contract exists exactly for an
accepted offer; and nothing is published under recall only because the
publishing actions and acceptance ask for an available holding of a batch not
held, which needs the foreign key from listing to holding.

The argument has one lemma per group of actions (`AllocateKeeps`,
`PublishKeeps`, `RecallKeeps`, `OffersKeep`, `MoveKeeps`, `CloseKeeps`,
`AcceptKeeps`), each with one step per conjunct the group can disturb; lemmas
on `Insert` and on `Reconcile` (it changes no seller, holding or batch, only
shrinks and only rejects) carry the common part. The action properties are
restated as a formula about one step (`DecisionsStand`, `StockStays`) and
proved for every group: rejections touch pending offers only, and each action
that changes an existing holding changes one, of a batch not held or of the
contract it settles.

### The quantities

`StockProofs` adds to `IInv`

    StockInv == PositiveQuantities /\ \A h \in DOMAIN holdings : Sound(h)

where `Sound(h)` says that what is published of `h` to the market and requested for
transfer fits into it (`Fits`), that its publications are of its holder's and cover
each of their pending offers (`Advertised`), and that its transfer requests are
from its holder to another (`Requested`). The three are kept together only: an acceptance
commits stock because the offer was covered, and reconciliation brings the
rest down to what is left because nothing was for zero.

A sum is the number of grams its rows hold, so facts about sums are facts about
finite sets (`GramsFinite` and the lemmas after it): rows that do not change keep
their part, a row moved out takes its quantity along. No lemma needs induction over
rows. Reconciliation gives each listing what those ahead of it leave of the budget; all
fit because the last one that is left anything does, with those ahead of it. That
there is a last one (`LastId`) follows from strict inclusion being well-founded on finite
sets.

### The ledger it implements

`StockIsConserved` proves `Spec => ImplementsLedger`: every step allocates from a
source with as much left, moves stock within a batch from one organization to
another, commits it to an agreement, carries the agreement out, calls it off, or moves nothing,
as `StockLedger` says. `FreeApart` and `FreeChange` split the free stock of an
organization into the rows a step changes and the rest; there is one lemma per kind of
movement (`AllocateLedger`, `AcceptLedger`, `TransferLedger`, `SplitLedger`,
`SettleLedger`, `CancelLedger`, `NothingMoves`). `IInv` is used on both sides
of the step, and `StockInv` for what is moved to be there.

Of the rows themselves `TradeKeepsStock` says the same: the live holdings of a batch
keep their sum in every step that does not add one holding, of the batch's
holder, and no step lowers it. It rests on `AllocationKept`: the rows that replace a
live holding add up to it.

### The trade

`DealProofs`, for any total, any set of deposits up to it, any fee, plans,
fee policies, incoterm, arrangements and milestones (`DealAssumption`), proves

    IInv == TypeOK /\ ItemsOfPlan /\ PaidUnderTerms /\ IssueNamesItem
                   /\ AcceptedIsClear /\ SettledIsDelivered
                   /\ the six safety invariants about money, goods and fee

where `ItemsOfPlan` ties the instalments to the plan, `PaidUnderTerms` says that
money and documents move only under agreed terms, `IssueNamesItem` that a
reversal has a paid instalment to reverse, `AcceptedIsClear` that an accepted
delivery was delivered and has no open discrepancy, and `SettledIsDelivered`
what a settled trade has behind it. A reversal keeps `PaymentAddsUp` only with
`IssueNamesItem`; `ReadyIsSettled` is kept by each step because what makes the
trade ready is one of the four conditions whose writers call
`completeTradeIfReady`, which the lemma `Completion` describes once. There is one
lemma `...Keeps` per action, a step of which treats each conjunct the action
can disturb, and `NextHolds` puts them together. In the refinement
every step of the workflow moves money, moves goods, accepts, settles or cancels as
`Exchange` allows, or changes nothing the parties exchange; it has one lemma
per group of actions (`PaymentRefines`, `TransportRefines`, `FeeRefines`,
`ClosingRefines`) and uses `IInv` on both sides of a step. `ExchangeIsFair` proves of
`Exchange` alone that nobody gives for nothing (`FairToBoth`) and that a closed
exchange never changes (`ClosedForGood`); with the refinement that is
`NobodyGivesForNothing`, of every trade.

### The guidance

`TradesNeverWait` leaves out held trades and the late terms of the finding. It adds to `IInv`

    GInv == OpenKeepsStock /\ NoTriggerMissed /\ DocumentsComeFirst /\ PaidIsSettled

Under agreed terms no instalment waits for an agreement or a presentation that
has happened (`NoTriggerMissed`), what documents make due is neither due nor paid
before they are presented (`DocumentsComeFirst`, which an agreement and a
verified security need to keep `PaidIsSettled`), and a request whose instalments
are all paid is settled (`PaidIsSettled`). The lemmas `Guidance...` show that every group of
actions keeps it. The theorem then follows the rules of the guidance in their
order: where the last one would have both parties wait, either the dispatch
conditions are unmet, which needs an instalment of the agreement that is not
paid and hence one to pay or verify (`NothingDueDispatches`), or the trade is
delivered and accepted, is then fully paid, and has settled
(`NothingLeftSettles`, from `ReadyIsSettled`). The instance on which TLC checked
`GInv` has all five plans and deposits of nothing, half and the whole price.

`AskedWillBeAccepted` is the other direction: what is asked for is accepted. It adds

    AInv == PrerequisitesStand /\ DisputedIsDelivered /\ EstimateUntilConsent
                               /\ SecurityAskedFor

The milestone the guidance names can be reported only because the current one is on
record and so is the evidence it required, which no report takes back
(`PrerequisitesStand`, kept by `PrerequisitesLast`); a discrepancy is one of delivered
goods; in an open trade a fee whose terms the seller has not accepted is still an
estimate; and terms with bank security wait for it. `MilestoneSequence` compares the
guidance's order of milestones with the workflow's, and `CloseoutAccepted`,
`CommerceAccepted` and `FulfilmentAccepted` follow the three groups of rules.

### Recalls

`RecallProofs`, for any genealogy and any outcome a holder may record, proves

    RecallInv == RowsOK /\ BuyerIsParty /\ DisposalHeld /\ EveryoneAsked
                        /\ CleanIsStored /\ SafetyReconciles

A contract about held stock may still settle or be cancelled, so a recall is
answered by everybody only because whoever may receive stock was a party of
one of its contracts at activation, and asked then (`BuyerIsParty`, `EveryoneAsked`).
Stock of a resolved recall stays out of trade because what was returned or
destroyed is never released, whichever of two overlapping recalls is resolved first
(`DisposalHeld`). `RecallAssumption` says that the stock at the start has positive
quantities (`trade_holding_quantity_valid`) and that committed stock is committed to a
party of its contracts. What the traces compute is not needed: activation is proved for every scope.

### The email outboxes

`EmailOutboxProofs`, for any rows, workers, queue and bounds, proves

    OutboxInv == TypeOK /\ NoStaleSubmission /\ SubmittedAtOnce /\ SubmissionsAccounted

`SubmissionsAccounted` compares a row's submissions with what explains them: that it
is recorded as sent, the mishaps, and the submissions under way whose claim has been taken
over or may be (`Orphans`, counted as the cardinality of a set of workers). A
second submission is therefore impossible while no commit was lost and no lease ended under it.

### Evidence

`EvidenceProofs`, for any finite sets of intents, legacy evidence and workers and
any quota, proves

    EvidenceInv == TypeOK /\ UploadEvidence /\ RegisteredOnce /\ EvidenceMatchesIntent
                          /\ ClaimedIsGivenUp /\ RequestKnows /\ CleanEvidenceIsStored
                          /\ StoredIsCounted /\ CountedFits

Bytes of clean evidence are deleted by nobody because a cleanup worker holds a
row that was given up (`ClaimedIsGivenUp`) and what is given up stays so; the
request may complete because it knows what it wrote (`RequestKnows`). The quota
holds since whatever is stored in time is either kept or charged
(`StoredIsCounted`), and a reservation finds room for what it registers
(`CountedFits`). Late writes are excepted, as in the finding.

### Accounts

`AccountsProofs`, for any users, organizations and requests (`NamesAssumption`,
`HoldersAssumption` on the state at the start), proves

    AccountsInv == Rows /\ SessionsAreCurrent /\ PendingInvitationsHold /\ TwoRemain

Every action that takes something away from a user ends the sessions and closes the
invitations that stand on it; the lemmas `LeftAlone`, `LettersHold` and `Remains` say what
may change without that. Two administrators remain since a decision
about one needs two others, who are usable when it commits.

### Operations

`OperationsProofs`, for any hosts, operators and incidents and all bounds, proves

    OpsInv == TypeOK /\ FaultsCounted /\ SendingHasRow /\ LockHolders
                     /\ QuietWhileHealthy /\ AbsenceIsRelief /\ HealthyHidesNothing

As long as no connection was lost, a cycle at work is the one whose host has the lock
(`LockHolders`); so nobody opens an incident between an observation and
the transaction that acts on it, and what was observed to be absent
has been absent while the incident was open (`AbsenceIsRelief`). That a signal has at most one open
incident, part of `TypeOK`, needs no lock: it is the index that `Missing` stands for.

### Only model-checked

* Liveness: `ReadySetIsPresented`, `EveryEmailResolved`, `EveryObjectResolved`,
  `PersistentSignalReported`, `RecoveryClosesIncidents`. The prover does not handle
  fairness. Of the first, `ReadySetIsCandidate` proves the part that is about a state: the
  job's query selects every set that is ready to be presented.
* `ScopeIsExact`: the traces of `LotTrace` are recursive functions over a queue, whose results
  for every genealogy would need induction over data. It compares them with `ReachedFrom`
  and `DrawnFrom` where a recall names one suspect lot and no lot gave more than it had, so
  that no lot is full before all its routes have contributed.

## 5. Not modelled

* Document review: the decisions on single documents. `Deal` sees a set that is complete or
  not, `Recall` evidence that is usable or not; both let it change at any time.
* Sourcing requests, support, pilot feedback: life cycles of single rows without effect on
  stock or money.
* Rate limits, security events, audit rows: counters and logs in single statements.
* Catalog, trust assessment, public pages, exports, dashboards, notifications:
  read-only projections of the tables; about a third of the API's lines.
* HTTP layer, validation, configuration, shutdown, migrations, scripts: no state
  the trade depends on. Constraints the migrations create appear as guards.
* The web application, nearly half of all lines: it renders what the API returns and
  keeps no state the API relies on. The map therefore covers a
  modest share of the repository, and most of the transactional part of `src/api/src`.
* The order of row locks: transactions are atomic here, so that they do not
  deadlock is not shown. PostgreSQL ends a cycle by failing one transaction,
  which then changes nothing.
* Of modelled components: evidence files on the old local path, contact notes of
  a recall, estimates of arrival, the entries of the guidance for pending offers,
  what the single jobs do beside the alert cycle (they are in the modules of their
  subjects), and the retirement of a job's loop after a lost connection.
* Rounding: the traces compute in exact fractions, so a contribution that floating point
  moves across the threshold of a milligram is not seen.

## 6. Plan

1. `DocumentReview`: decisions with the probe before their transaction, and
   replacement, composed with the document sets of `Deal`.
2. `LockOrder`: the row locks each transaction takes, in order; no deadlock.
