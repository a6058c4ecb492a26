# A TLA+ model of the RFID inventory and replenishment platform

The platform turns RFID reads into an inventory per store, SKU and zone, and the
inventory into replenishment tasks. It is a FastAPI service with PostgreSQL and three
worker processes; every state that matters is in the database, apart from the evidence
the event worker keeps in memory. What makes it hard is the interleaving of
transactions of different processes, each at READ COMMITTED, with retries, quarantine,
restarts and operators' repairs.

Line numbers below refer to `src/src/abacus/` unless a path says otherwise.

## 1. Inventory of the system

| Component | State | Operations | Hard because |
|---|---|---|---|
| Inventory projection (`services/streaming_inventory.py`, `event_worker.py`) | `current_item_state`, `inventory_transition_outbox`, `inventory_projection`, reconciliation marker per store | emit a transition, apply its deltas, count a failed attempt, quarantine, rebuild | the rebuild is several statements, each with a snapshot of its own; a poison transition is skipped and later deltas build on it |
| Evidence memory (`RecentObservationState`, `infer_stable_zone`) | recent event ids, one window of reads per EPC, both bounded | remember, add, checkpoint, restore, decide | it is not part of the transaction it accompanies |
| RFID ingress, processing, quarantine, replay (`services/rfid_ingress.py`, `process_observation`, `event_worker.py`) | event ledger, batches and their links, raw outbox, quarantine, item rows | accept a batch, process an event, fail, quarantine, replay | duplicate delivery, late binding of tags, a commit whose acknowledgement is lost, a restarted worker |
| Business events (`accept_authoritative_removal`) | item row, idempotency row | remove an item | races with reads of the same item |
| Replenishment tasks (`services/replenishment.py`, `_attribute_replenishment_move`) | tasks, evidence rows | evaluate, patch, attribute a move | read, then compare-and-set, by several users, an evaluation and the event worker |
| Durable jobs and catalog imports (`services/jobs.py`, `services/catalog.py`, `catalog_worker.py`) | jobs with lease and owner, imports | accept, claim, renew, validate, promote, report, reconcile | an expired lease puts two workers on one import; a worker may die anywhere |
| Catalog parsing | staged rows | parse, compare, write | sequential, data |
| Store connectivity (`services/connectivity.py`, `_update_connectivity`) | one row per store: status and time of the newest receipt, newest live event, oldest buffered event, reconciliation marker | apply a receipt, apply an observation, require reconciliation | the API and the worker apply the same receipt, in any order and again after a replay |
| Replenishment policies (`services/replenishment.py`) | versions and rules | create, clone, patch, activate, select a rule | activations, patches and clones at the same time, with locks on tenant, policy and version |
| Identity, grants, audit (`services/identity.py`) | users with `token_version`, roles, store assignments, compatibility grants, audit records | seed, create, suspend, replace access, roles or stores | reads before locks; two halves of the access; the last administrator |
| Authentication sessions (`services/identity.py`) | refresh-token families | log in, rotate, detect reuse, log out | a change of access commits between the transactions of a login |
| Login throttle (`security.py`) | windows per account and address, in memory | reserve, finish, expire | clock read before the lock, attempts that outlive their window, table at capacity |
| Hosted supervisor (`processes/hosted.py`) | phase of the start | seed, serve, restart | a seed runs on what administrators have changed since |
| Onboarding, devices, tenant isolation, HTTP layer, scripts | | | no control of their own beyond inserts under unique constraints |

How they interact: the API writes batches (ledger, links, raw outbox) and answers 202.
The event worker takes the raw outbox in acceptance order, one event per transaction;
a decision that moves an item writes the item row and one row of the transition outbox
in that same transaction and attributes the move to an active task. The same worker
then applies the transition outbox to the projection, one transition per transaction.
Evaluation reads the projection and writes tasks. Catalog workers bind tags to SKUs,
which the event worker reads. An operator replays quarantined events and rebuilds the
projection. Every accepted batch and every processed observation also updates the row that
decides whether the store is LIVE, and a quarantined transition marks it. Every request but
the login carries a token of a session, which a change of its user's access ends.

The properties that make each part correct are stated in section 3, the hazards
they are aimed at are listed with their lines in `PROJECT.json`.

## 2. Modules

| Module | Models | One action is |
|---|---|---|
| `InventoryProjection` | item rows, transition outbox, worker, quarantine, rebuild | a committed transaction; a statement of the rebuild |
| `RecentObservations` | evidence memory and the stable-zone decision, as operators | |
| `RfidPipeline` (extends `RecentObservations`) | ledger, batches, raw outbox, worker with its memory, quarantine, replay, bindings, device status | a transaction with what the worker does to its memory around it |
| `ReplenishmentTasks` | evaluation, patches, attribution, for one SKU in one store | a read, or a write that follows it |
| `TaskBoard` | what the task operations promise together, abstract | an operation, as if atomic |
| `CatalogJobs` | jobs, leases, workers, imports | a transaction |
| `PolicyVersions` | policy versions and rules, the requests on them with their locks, rule selection | a step of a request between two points where it may wait |
| `StoreConnectivity` | the connectivity row of one store, receipts and observations | a transaction |
| `IdentityAccess` | users, access, sessions, seeding and restart, with the row locks | a step of a request between two points where it may wait; a deployment command |
| `LoginThrottle` | the throttle table and the threads using it | a locked section, or the reading of the clock before it |
| `...Proofs` | the theorems about `InventoryProjection`, `RfidPipeline`, `ReplenishmentTasks` (with `TaskBoard`), `CatalogJobs`, `PolicyVersions`, `StoreConnectivity`, `IdentityAccess` and `LoginThrottle`, a module each | |
| `MC...` | small instances, symmetry sets, fixed functions | |

`PROJECT.json` maps every definition to the lines it models. Definitions introduced by
"Mutant:" are plausible mistakes in the operator that follows them; no specification
uses them, they show that the properties notice such a mistake.

### InventoryProjection

`loc`, `version`, `removed` are the item row. `outbox[e][v]` is the transition that took
item `e` to state version `v`; of its payload only the two deltas remain. `proj` is the
projection and `marked` the stores with `inventory_reconciliation_required_at`. A bucket
is a (store, SKU, zone); a missing row and quantity 0 are the same, since both react
alike to a delta. `rebuildPc`, `snapshot`, `reconciling` are the open rebuild: nothing it
writes is visible before its commit. While one is open its advisory lock stops
`PublishTransition`, but neither the producers of transitions nor the second transaction
that counts a failed attempt and, at the limit, quarantines (`event_worker.py:255-330`).

The constant `RebuildOutlastsRetries` separates two questions. If TRUE, a transition may
be emitted, use up all its attempts and be quarantined between the scan and the commit of
one rebuild. If FALSE, a rebuild is shorter than that. With TRUE the run
`InventoryProjectionRace` exhibits finding 1; everything else is checked and proved with
FALSE, apart from the two theorems that need no such assumption.

### RecentObservations and RfidPipeline

`RecentObservations` holds the memory as a pair of bounded sequences (oldest first) and
translates `remember`, `add`, `checkpoint`, `restore` and `infer_stable_zone`. Signal
strength only breaks ties between equally often read zones, so a tie is a choice. `Filter`
is `SelectSeq` written with positions, so that it can be reasoned about; `MCRfidPipeline`
assumes, and TLC evaluates, that the two agree.

In `RfidPipeline`, `ledger` and `outcome` are the event row, `links` and `batch` the
batches that delivered it, `accepted` and `outbox` the inbox. `BeginPass` is the worker's
query, `Handle` one event of the pass: a rejection, an ignored event (duplicate, late,
removed), an ambiguous decision, a refresh in the same zone, a move, or a failure. Every
transaction takes a flag `ack`: FALSE means that it was committed and the worker was told
otherwise, so the memory is rolled back and the row is not. `AttemptFails` and
`AttemptsExhausted` are the except branch, `AttemptUncounted` is that branch failing too;
`HalfDone` is what the attempt may have done to the memory when it raised, and
`ForgetAttempt` its restore.
A rejection keeps the reason in `outcome`; `quarantine` keeps the reason of the first one,
as the unique row does.

`MovesFollowTheNewestEvidence` compares the evidence of a move with what was processed
before the step. The read that triggers a move may be newer than that evidence and of another
zone: with `ConfirmationReads = 1` three reads of three zones can put the item in the
zone of the second while handling the third. The code does not promise more, and the runs with two
zones do not show it.

Left out: an EPC has one binding that starts at some instant (no rebinding, no closing by a
FULL import); the answers of `_resolve_effective_assignment` other than inactive are one
reason; row locks beyond what the atomicity of a transaction gives.

### ReplenishmentTasks and TaskBoard

The task rows with their optimistic `version`; `evaluation` is what a running evaluation
has read, `patch[u]` what user `u` has read and asks for. The evaluation's row lock on the
store admits one at a time; one that reads no shortage changes nothing whatever happens
next and is not an action. `MoveConfirmed` is `_attribute_replenishment_move`: the candidate
tasks, the preference among them and the evidence row; a move without a candidate changes
nothing. Moves are observed at any time up to `MaxFutureSkew`
(`rfid_max_future_skew_seconds`) ahead of the clock, as `process_observation` accepts them.
The clock only moves between transactions and is bounded by `MaxTime`. One rule is selected
throughout. The partial unique index on active tasks is `IndexAllows`.

The UPDATE of a PATCH compares with the version the client sent
(`services/replenishment.py:1224`), a number from 1, and nothing compares that number with
the row on which the request was checked (`services/replenishment.py:1142`). So a request
carries two versions in the model, the client's (`version`) and that of the row read
(`read`):

* A version older than the row read is a conflict whatever happens next, and is left out.
* With the version of the row read, the UPDATE takes effect only on the row it was checked
  against.
* With a version ahead of it, the UPDATE takes effect if other commits have brought the
  row to that version by then, and that row was not checked. The
  history variable `guesses` counts these per task. `Guessing` is the set of users whose
  requests may do this and `MaxAhead` how far ahead they are.

`TaskBoard` is the same board without reads that grow old, versions or locks: a task is
opened when none is active, grows up to the target while it is open, is claimed once, and
ends by completion or by a manager; `Overrule` is a request by a version ahead of the row,
counted in the field `overruled`. `ImplementsTaskBoard` says that `ReplenishmentTasks`
implements it, with the board read off the rows and `guesses`. It contains that at most one
task is active, that no task is ever larger than the target, and that an overruling request
leaves the other tasks and every quantity alone; and, for a task that is not overruled, that a
claim is never taken over and that a status moves only along the lifecycle.
`ClaimsWhatWasSeen` and the times in `VerifiedByEvidence` make the same exception, for the
same requests and no others.

What an overruling request does to its own task is a gap between the code and its
documentation: "The lifecycle is `OPEN → CLAIMED → IN_PROGRESS → COMPLETED`, with
`CANCELED` and `EXPIRED` terminal alternatives" (`src/README.md:314-315`), and the version
increment is there to "make a concurrent claim fail its optimistic compare-and-set"
(`services/replenishment.py:1041-1043`). Two users read a task OPEN at version 1 and
one of them asks to claim version 2: the other's claim brings the row to version 2, the first
one's UPDATE matches, and the claim is taken over. In the same way a task that was
canceled in between is claimed, or a quantity the request has not seen. With the version
the user has been shown, as a client is expected to send it, none of this happens.

An observation ahead of the clock counts for a task in progress without regard to the
deadline, because the deadline is written on completion. With a verification window
(at least 60 seconds) shorter than the skew (up to a day) such a move may lie after the
deadline of the task it verifies, by at most the difference of the two; with the defaults,
900 and 300 seconds, it does not. `VerifiedByEvidence` states the bound.

Observation: the number required is computed from floor, open task and backroom
(`services/replenishment.py:123`), and the quantity of the open task is not taken off the
backroom. With less in the backroom than is missing on the floor, repeated evaluations
of an unchanged inventory let an OPEN task grow up to the target. `src/README.md`
documents the formula as it is, so this is not a finding; the target is the bound that
does hold.

### CatalogJobs

An import and its job have one id. A worker goes `idle`, `claimed`, `validating`,
`staged`, `validated`, `promoted` or `raised`; `dead` is a process that is gone (its
replacement has another worker id and is another element of `Worker`). `saw` is the import
object in the worker's SQLAlchemy session: sessions are created with
`expire_on_commit=False` and `promote_catalog_import` queries without `populate_existing`,
so the status it checks under the row lock is the one loaded by `db.refresh` after the
validation. `CatalogStale` exhibits what follows from it, finding 3. `TerminalImportIsFinal`
shows that this is the only way an import is applied twice or its result changes: it
excepts a worker that promotes what it has validated itself, and nothing else.

The status PROCESSING of an import is set and left within one transaction and is not a
state here. What a file contains is its verdict.

### PolicyVersions

A version is the pair of its policy and its number; `request[c]` is where the request of
client `c` stands, which also says what it has locked: `patching` and `activating` hold
the version, `waiting` and `activating` the tenant, `cloning` and `cloned` the policy.
Rules keep their optional columns, and `RulePrecedence`, `RulesOverlap` and
`SelectPolicyRule` are the functions of the same names; `SelectPolicyRule` is the set of
best rules, and the code raises if it has two elements. Labels are taken up to case, as
`casefold` compares them.

The unique index on active versions and the unique constraint on version numbers are left
out on purpose: the properties hold without them, so their 409 answers do not occur.
An insert takes a `FOR KEY SHARE` lock on the tenant row for its foreign key, which
conflicts with the `FOR UPDATE` of an activation. So a patch that holds a version can wait
for an activation of that version, which waits for the patch (`Deadlocked`); PostgreSQL
aborts one of the two, which the client sees as a 500. Nothing in the repository says that
this cannot happen, so it is a hazard and not a finding.

### StoreConnectivity

`row` is the `store_connectivity` row, `receipt[b]` the batch `b` as a receipt of the
gateway's status: stamped with a time before the API waits for any lock (`Stamp`), then
committed. So receipts may commit in another order than their times. `Process` is
`_update_connectivity` for one observation of a committed batch: any observation, any
number of times, as overlapping batches and replays allow. A device may be moved between
stores, so the worker can be the first to apply a batch (`AcceptElsewhere`). `newestLive`
and `newestBuffered` are history.

The docstring of `_apply_connectivity_observation` says that it works "without making
same-receipt results order-dependent" (`services/streaming_inventory.py:586`). That is so
for the backlog marker but not to the second for `last_live_event_at`, whose write is
throttled: which of two close events it keeps depends on the order. The most it can lag is
the flush interval, and `SettledReceiptIsLive` is stated with the live window less that.

### IdentityAccess

One tenant, its users with both halves of their access (canonical rows and compatibility
grants, whose missing half is derived as in `_load_canonical_access`), and the sessions. A
request is a record with the values it has read; `tenantLock` and `userLock` are the
`FOR UPDATE` locks, and a row that references the tenant and its author waits for them
(`CanReference`), as the foreign keys make it. A wait may always end in an abort
(`LockWaitAborted`): a request that replaces the stores of a user locks the user without
the tenant, and its audit record can meet a suspension that has them the other way round
(`services/identity.py:1460`).

A login is three steps: the password check on the user it reads, the `UPDATE` of the
user's row with its commit, and the session made from the user read again. A session stands for the
family of one login, with a counter of its refreshes. The reuse of an old refresh token
revokes the rows of the family that existed when its `UPDATE` began; one inserted while
it waits is not among them and stays usable (`ReuseRevokes`, `services/identity.py:652`).

The hosted supervisor seeds the administrator and the public reviewer before it starts the
API, so seeding and requests do not overlap; `make seed` beside a running API is not
modelled. A restart after the configured administrator was demoted while another one holds
the grant ends with `bootstrap_admin_exists`: the phase `failed`, from which only another
restart leads. `cli.py:53` calls the command idempotent, which it is for the state it leaves.

Left out: passwords, status of tenant and stores, lifetimes of tokens (they only end a
session sooner), read-only endpoints, audit records of logins.

### LoginThrottle

`entries` is the table; a window keeps an identity because a reservation refers to the
object and not to its key (`IsSameWindow`). `begin_attempt` reads the clock before it takes
the lock, so a thread works with a time up to `MaxLag` old (`thread[t].lag`). Times are
ages, so the clock is unbounded and the state space is finite all the same: an age beyond
`Window + MaxLag` is expired for every thread. `kept` is history.

## 3. Runs

All bounds are CONSTANTS of the modules: versions, attempts, restarts, replays, batches,
tasks, the clock. States are distinct states.

| Run | Instance | States | Properties |
|---|---|---|---|
| `InventoryProjection` | 2 items, 2 stores with one bucket each, 2 versions, 2 attempts, fair | 73,000 | type; `UnmarkedProjectionExact`; `DrainedProjectionExact`; `UnmarkedNeverUnderflows`; `QuarantineFailsClosed`; `SettlesInVersionOrder`; `EveryTransitionSettles` |
| `InventoryProjectionRace` | the same with `RebuildOutlastsRetries` | violation | `DrainedProjectionExact` |
| `RfidPipeline` | 1 item, 2 reads in 2 zones, 2 batches, device suspended at any time, binding at 3, 1 restart, 2 replays, fair | 264,000 | type; `LedgerMatchesOutbox`; `BatchesTellTheTruth`; `ProcessedIsFinal`; `EveryEventSettles` |
| `RfidEvidence` | 2 items, 4 reads, 2 reads to confirm, memory limits 1 | 530,000 | `NeverItsOwnDuplicate`; `RestoreUndoes`; `LocationIsConfirmed`; `MovesFollowTheNewestEvidence` |
| `RfidReplay` | 2 reads, device on and off, binding at 1 or 3, 2 replays | violation | `ReplayUsesCurrentBinding` |
| `ReplenishmentTasks` | 2 tasks, a picker and a manager, 2 moves, stock 0 or 1, target 2, window 1, skew 2, clock to 1, versions to 5, the picker's up to 1 ahead | 3,399,000 | type; `VerifiedByEvidence`; `ImplementsTaskBoard`; `ClaimsWhatWasSeen` |
| `CatalogJobs` | 1 import, 3 workers, 2 attempts, fair | 18,000 | type; `CompletedMeansDone`; `TerminalImportIsFinal`; `AttemptsAreOwned`; `ImportSettles` |
| `CatalogStale` | 1 import, 2 workers | violation | `OnlyReadyIsPromoted` |
| `PolicyVersions` | 2 requests at a time, 2 policies of 2 versions, 3 rule lists, fair | 38,000 | type; `UnambiguousSelection`; `DiscoveryShowsWhatIsEvaluated`; `ClonedNumberIsFree`; `ActiveVersionsImmutable`; `RequestsEnd` |
| `IdentityAccess` | the administrator and one more user, 1 store, 2 requests at a time, 1 login, 1 refresh, token versions to 3, 1 restart | 2,530,000 | type; `AdminRemains`; `SessionsCarryCurrentAccess`; `ChangesAreAudited` |
| `LoginThrottle` | 1 address, 2 accounts, 3 threads, window 2, limits 2, 2 entries, lag 1 | 925,000 | `CountersAreExact`; `TableIsBounded` |
| `StoreConnectivity` | 3 receipts, clock to 3, buffer age 1, flush 2, windows 2 and 3 | 1,030,000 | `NewestReceiptDecides`; `LiveIsHonest`; `SettledReceiptIsLive` |

Why these are enough to be interesting: two items and two stores let a quarantined
transition disturb the bucket another item moves through, and two versions let a second
transition wait behind a failing one, while a rebuild is open in between. Two reads in
different zones at different instants give late, repeated and contradicting evidence,
two batches give overlapping delivery. With limits of 1 every event evicts, and the read
of the second item evicts the window of the first between its reads; the newest read of the
first item comes before or after its two older ones, in another zone. Two replays let an
event be replayed, processed and asked for again, across a suspension and the binding.
Two attempts reach retry and exhaustion. Three workers are a stale one, its successor and
a third that reconciles or replaces a dead one. Two users, each between read and write,
race with an evaluation; the second task is the one opened after the first has ended, whose
evidence window overlaps the first one's, and two moves can verify one or each. The skew is
longer than the window, so a move can lie after the deadline of the task it verifies. One
version ahead is enough for the picker to take over a claim or to revive a canceled task,
also beside a task opened since, which the index refuses; the manager sends the version
read, and the proofs cover every user and every distance. Five versions are one for each
step of the lifecycle and one for a move or for growth. The rule
lists overlap across policies by a rule without a size, tie with themselves, and one is
refused by validation; two versions let one retire the other, and longer histories and more
requests are covered by the proofs. Two users are two administrators who suspend or demote
each other, or one that changes the other during its login; a third would add no pair of
rights. Version 3 is a user created, changed and changed again; the restart lets the
seeds run on what has become of their accounts. Two entries are filled by one address and
one account, so the second account meets a full table; three threads are two with windows
of their own generation and one that removes them. Three receipts are an old, a current and
one more that commits late; the windows of 2 and 3 seconds make every status reachable by
age, and the flush interval of 2 is the boundary of the live window.

Deadlock is checked where the system cannot stop (`InventoryProjection`, `CatalogJobs`,
`PolicyVersions`, `LoginThrottle`: rebuilds, polls, requests and attempts go on for ever).
In the other runs the bounded inputs run out and nothing is left to do, so it is not.

### Fairness

* `InventoryProjection`: weak fairness of the worker on each item, because the loop in
  `event_worker.py` visits every active tenant for ever and each pass takes the earliest
  pending transition of every EPC; weak fairness of an open rebuild, which
  `statement_timeout` ends. Nothing is assumed of the producers, nor that an attempt
  succeeds.
* `RfidPipeline` (in the run of that name): weak fairness of a new pass and strong fairness of handling its first
  event. An outage (`AttemptUncounted`) may interrupt the pass over and over, but outages
  end, so an event that is at the head again and again is eventually handled or counted as failed.
* `CatalogJobs`: a worker that is alive goes on; a lease nobody renews runs out; and
  strong fairness of a due job being taken by some worker, because `claim_jobs` takes
  the oldest first.

* `PolicyVersions`: a request goes on when it need not wait, and row locks are granted in
  turn, so it is not passed over for ever (strong fairness); the deadlock detector runs. No
  request is assumed to be made. A clone at the bound on versions is rolled back.

### Findings

1. `InventoryProjectionRace`: a transition that is committed after the rebuild's second
   look at the outbox and quarantined before the rebuild commits is declared reconciled
   although the counts do not contain it (`services/streaming_inventory.py:1169-1183`).
2. `RfidReplay`: an event first quarantined for its device and later rejected as
   UNKNOWN_EPC can never be recovered by a binding, because `process_observation` looks at
   the reason of the first quarantine (`services/streaming_inventory.py:812`).
3. `CatalogStale`: a worker whose lease expired between validation and promotion promotes
   an import its successor has completed (`services/catalog.py:1273`).

## 4. Proofs

Every invariant and every action property of the passing runs is a theorem, for all values of
the constants that satisfy the named assumptions of the modules. Only the liveness
properties are model-checked alone.

`InventoryProjectionProofs` proves, for any finite set of items, any stores, buckets,
version and attempt bounds:

| Theorem | States | Assumes |
|---|---|---|
| `TypeCorrect` | `Spec => []TypeOK` | the module's assumptions |
| `VersionOrder` | `Spec => SettlesInVersionOrder` | the module's assumptions |
| `ProjectionExact` | `UnmarkedProjectionExact` always holds | and `~RebuildOutlastsRetries` |
| `DrainedExact` | `DrainedProjectionExact` always holds | the same |
| `NeverUnderflows` | `UnmarkedNeverUnderflows` always holds | the same |
| `FailsClosed` | `QuarantineFailsClosed` always holds | the same |

`TypeOK` is not inductive: that `attempts` stays within its limit needs that a pending row is
below it. `OutboxInv` adds three facts about the outbox of one item: rows exist exactly up
to the item's version (`RowsMatchVersion`), the pending ones are the latest
(`PendingIsSuffix`), and each transition starts where its predecessor ended, the last
one ending where the item is (`TransitionsChain`). From these, the source of the earliest
pending transition is where the projection believes the item to be, and settling that
transition moves the belief to its target and no other item's.

`ProjectionInv` adds `UnmarkedProjectionExact`, `QuarantineFailsClosed` and
`SnapshotSound`: what an open rebuild has written is what the projection should hold,
provided nothing was pending at its second look, and it has noted every quarantined row.
Emitting a transition changes no count, publishing changes two by the deltas,
quarantining changes those of stores it marks, and the commit of a rebuild replaces the
projection by a sound snapshot, which is why all marks may go. The step that fails
without the assumption is `QuarantineTransition` after the scan.

`PolicyVersionsProofs` proves `TypeCorrect`, `SelectionUnambiguous`
(`[]UnambiguousSelection`), `ActiveImmutable` (`ActiveVersionsImmutable`), `DiscoveryExact`
(`[]DiscoveryShowsWhatIsEvaluated`) and `CloneNeverConflicts` (`[]ClonedNumberIsFree`) for
any numbers of requests, policies, versions and rules, from `PolicyAssumption` alone. Two
arguments meet. The lemma `TieMeansOverlap` is about the functions: two rules that rank
equally for some item in some store are found to overlap by a check that knows no item.
The invariant `IInv` is about the locks: what a request has checked under its locks still
holds (`CheckedStands`) because no lock has two holders (`LocksExclude`), so the active
versions are pairwise apart (`ActiveApart`); a policy with a retired version has an active
one (`StaysLive`); and version numbers have no gaps, so the number a clone has read is the
next one (`NumbersInOrder`). Without `LocksExclude`, `CheckedStands` would not be inductive, and with it the
others fall.

`RfidPipelineProofs` is about any finite set of events with any EPCs, zones and times, any
batches, and any settings of the memory.

| Theorem | States | Invariant |
|---|---|---|
| `TypeCorrect` | `[]TypeOK` | `RestOK` |
| `LedgerAgrees` | `[]LedgerMatchesOutbox` | `LedgerInv` |
| `ProcessedStays` | `ProcessedIsFinal` | `LedgerInv` |
| `BatchesAreRight` | `[]BatchesTellTheTruth` | `BatchInv` |
| `AttemptsLeaveNoTrace` | `[]RestoreUndoes` | `MemoryOK` |
| `NoOwnDuplicate` | `[]NeverItsOwnDuplicate` | `DuplicateInv` |
| `LocationsAreConfirmed` | `[]LocationIsConfirmed` | `EvidenceInv` |
| `MovesAreRecent` | `MovesFollowTheNewestEvidence` | `EvidenceInv` and the watermark of an item |

`LedgerInv` relates the ledger and the outbox row of one event: a row exists with the event, waits
while the event is pending, and has attempts left as long as it waits. Batches need more than
their own property: the status of a batch is that of its counters, and the counters are sums
over links, so `BatchInv` says that a link copies the ledger and that a recount after any
change of one link is again the sum. `MemoryOK` is the shape of the memory: different ids
and one window for each EPC, both within their limits. It is what the restore needs, because
`restore` finds by EPC what `add` had evicted or replaced, and puts the oldest entry back in
front. `DuplicateInv` adds that an id in the memory is of an event that is settled, or that carries
the mark of a replay (`SettledIds`); without the mark a replayed event would meet its own
id. `EvidenceInv` adds that all reads in the memory are different processed reads of
their window's EPC, so that enough of them are evidence, and an item's zone is one they
confirmed; restarts, rollbacks and evictions only take reads away.

`ReplenishmentTasksProofs`, for any tasks, users and moves:

| Theorem | States | Invariant |
|---|---|---|
| `TypeCorrect` | `[]TypeOK` | `BoardInv` |
| `ImplementsBoard` | `ImplementsTaskBoard`: every step is a step of `TaskBoard` or a stutter | `BoardInv` |
| `ClaimsSeen` | `ClaimsWhatWasSeen` | `BoardInv` |
| `VerifiedInTime` | `[]VerifiedByEvidence` | `EvidenceInv` |

Everything rests on the version of a row. `ReadsStand` says that what a patch has checked
stands as long as the row has the version it read, which holds because every change of a
row takes a new version, an overruling one too: its UPDATE writes a version above the one it
matched. A patch that commits by another version is a guess by definition, is counted,
and what remains to prove of it is that the index leaves one task active. The evaluation
works under the lock of its store, so what it read of active tasks still holds when it
writes; `RowsExist` says that a row it creates has been neither written nor overruled
before. `EvidenceInv` adds which times a task has in which status (`TimesFollowStatus`, for tasks that were
not overruled), and that a patch which has seen a task's current row took its clock after
every move verified for it was recorded (`MovesWereSeen`), so that the deadline it writes
is before such a move by no more than the skew exceeds the window. No assumption relates
window and skew, nor limits `Guessing`.

`CatalogJobsProofs`, for any jobs and any finite number of workers:

| Theorem | States | Invariant |
|---|---|---|
| `TypeCorrect` | `[]TypeOK` | `JobInv` |
| `CompletedJobsAreDone` | `[]CompletedMeansDone` | `JobInv` |
| `OneOwner` | a job in processing is owned by the worker of its last attempt, which is at it or dead | `JobInv` |
| `ResultsAreFinal` | `TerminalImportIsFinal` | `JobInv` |
| `OwnersReport` | `AttemptsAreOwned` | `JobInv` |

`StagesTell` is what a worker may believe whose lease has run out long ago: the status of an
import only moves forward, so "at least staged" and "at least promoted" outlive the lease.
`Budgeted` bounds the state: the rows of an import are applied at most once per attempt,
counting the applications done and the workers that may still do one, which is
why the number of workers has to be finite. That is also the bound on how often the stale
session of finding 3 can apply an import.

`StoreConnectivityProofs`, for any number of receipts and any windows with
`LiveWindow < StaleWindow`: `TypeCorrect`, `NewestDecides` (`[]NewestReceiptDecides`),
`LiveOnEvidence` (`[]LiveIsHonest`) and `EvidenceMakesLive` (`[]SettledReceiptIsLive`), all
from `RowInv`. `RowFollows` says that the row is as new as everything applied and copies one
of its newest receipts, whatever the order; `RowKeepsEvidence` that the throttled
`last_live_event_at` lags the newest live event by the flush interval at most, and that
buffered evidence is held against the store until a live event of its receipt or a
newer one; `SettledRow` that nothing older takes back what a live event of the one newest
drained receipt has said.

`LoginThrottleProofs`, for any finite sets of threads, addresses and accounts and any
limits: `TypeCorrect`, `ExactCounters` (`[]CountersAreExact`) and `BoundedTable`
(`[]TableIsBounded`), from `ThrottleInv`. The two properties need each other and
`IsTable`: a new window has an id that neither the table nor any attempt in flight has, so
the attempts of an evicted or expired window are not counted to the one that replaces it.
Such an id exists because the sets are finite, and `MaxEntries` is at least 2 because one
attempt needs two entries.

`IdentityAccessProofs`, for any users, stores and requests, any finite bounds and any
grants the earlier API may have left:

| Theorem | States | Invariant |
|---|---|---|
| `TypeCorrect` | `[]TypeOK` | `BaseInv` |
| `AuditTrail` | `ChangesAreAudited` | `BaseInv` |
| `AnAdministratorRemains` | `[]AdminRemains` | `AdminInv` |
| `SessionsAreCurrent` | `[]SessionsCarryCurrentAccess` | `SessionInv` |

`BaseInv` joins the rows, the locks and the requests. Every user's rows fit together (`Fits`):
the canonical roles and the grants agree on who is an administrator, so the two ways the
code asks for one give the same answer. What a request has checked under the lock of its
target is still true when it commits (`CheckedStands`), because a step of another request
keeps the locks of all others (`Moves`) and writes only the rows of a user it has locked or
creates (`ActorWrites`). `ChangesAreAudited` then is a fact about three commits and two
seeds; the case that needs an argument is a request that asks for the access the user has
already, where rows may be written and no version taken: the lemma `SameAccess` shows that what a
user may do is the same whether it is read from the grants or from the canonical rows made of them.
`AdminInv` adds that who is about to take an administrator away has seen another active one
(`AdminChecked`). That stays true because both would hold the tenant lock, and because a
request without it (a change of stores, a creation) takes nobody's role. Across restarts
the antecedent of `AdminStays` is that some user is an administrator, suspended or not, which is what the
seed looks for. `SessionInv` says of every live session, and of a login about to open one, that
its version is not ahead of the user's, and that its access is the user's as long as the
versions are equal; `RotationStands` in `BaseInv` that a session is refreshed by one request at a
time and found as it was left.

The constants are assumed to be as the code has them: counts, windows and limits are
natural numbers, a first version fits below its bound (`MaxVersion` at least 1), and sets
that are counted are finite.

Only model-checked: `EveryTransitionSettles`, `EveryEventSettles`, `ImportSettles` and
`RequestsEnd`, because liveness under fairness is beyond the proof system, and the three
runs that exhibit findings. `TypeOK` of `StoreConnectivity` and of `LoginThrottle` is proved
and in no run.

## 5. Not modelled

* Catalog parsing and the comparison of rows: sequential data transformations, present as
  the verdict on a file.
* Onboarding and device registry: one transaction per request that inserts rows or fails,
  decided by unique constraints of PostgreSQL. Its effect on the other components, the
  status and the store of a device, is in `RfidPipeline` and `StoreConnectivity` as steps of the
  environment. Its flushes lie outside the `try` block that turns a violated constraint
  into a 409 (`services/onboarding.py:271`), so of two identical imports at once the second is answered 500.
* Row level security: enforced by PostgreSQL; the modules model one tenant.
* The HTTP layer and the schemas: parsing of requests and layout of answers.
* The signals, migrations and termination limits of the supervisor, and the scripts.
* The lock order of the event worker and the replay (`services/rfid_ingress.py:329`): they
  can deadlock in PostgreSQL, which aborts one of them; for the worker that is a failed
  attempt, which the model has.
* The idempotency table of business events: a repeated request changes nothing.

## 6. Plan

The safety properties stated so far are proved. What would add most from here:

1. Abstract specifications that say in a few lines what a component promises: the location
   of an item (it changes only by confirmed evidence, and never after a removal), which
   `RfidPipeline` would implement; exactly-once work, which `CatalogJobs` would implement
   outside its known window; a policy as one evaluated version, which `PolicyVersions` would
   implement.
2. `RequestsEnd`, `EveryEventSettles`, `EveryTransitionSettles` and `ImportSettles` stay with
   TLC. Their safety halves (a counter that only grows up to its limit, a queue whose head
   leaves it) can be stated as action properties and proved.
3. The parts of section 5 that have control of their own: device rotation and the
   idempotency table.
