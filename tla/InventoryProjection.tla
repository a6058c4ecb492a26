------------------------- MODULE InventoryProjection -------------------------
(***************************************************************************)
(* The derived inventory projection of one tenant: the authoritative row   *)
(* of every physical item (current_item_state), the transition outbox that *)
(* its changes are written to in the same transaction, the event worker    *)
(* that applies the outbox to inventory_projection, the quarantine of a    *)
(* transition that cannot be applied, and the operator's rebuild of the    *)
(* projection from the item rows.                                          *)
(*                                                                         *)
(* One action is one committed transaction, except the rebuild, whose      *)
(* statements each take their own READ COMMITTED snapshot: it is a         *)
(* sequence of actions, and what it wrote becomes visible at its commit.   *)
(*                                                                         *)
(* An inventory bucket is one (store, SKU, zone); an absent projection row *)
(* and a row of quantity 0 react alike to every delta, so both are 0.      *)
(***************************************************************************)
EXTENDS Integers, FiniteSets

CONSTANTS
    Epc,                    \* physical items
    Store,
    Bucket,                 \* (store, SKU, zone) triples
    StoreOf,                \* the store a bucket belongs to
    NoLocation,             \* NULL store_id and zone_id
    MaxVersion,             \* bound on state_version (unbounded in the code)
    MaxAttempts,            \* settings.worker_max_attempts
    RebuildOutlastsRetries  \* may a transition use up its attempts between a
                            \* rebuild's scan of the items and its commit?

ASSUME ItemsAssumption == IsFiniteSet(Epc)
ASSUME BucketAssumption ==
    /\ StoreOf \in [Bucket -> Store]
    /\ NoLocation \notin Bucket
ASSUME BoundsAssumption ==
    /\ MaxVersion \in Nat
    /\ MaxAttempts \in Nat \ {0}
    /\ RebuildOutlastsRetries \in BOOLEAN

Location == Bucket \cup {NoLocation}
Version == 1..MaxVersion
Status == {"absent", "pending", "published", "quarantined"}

\* One inventory_transition_outbox row: minus and plus are the buckets of its
\* -1 and +1 deltas, NoLocation when the transition has no such delta.
Transition == [status: Status, minus: Location, plus: Location,
               attempts: 0..MaxAttempts, reconciled: BOOLEAN]

NoTransition == [status |-> "absent", minus |-> NoLocation,
                 plus |-> NoLocation, attempts |-> 0, reconciled |-> FALSE]

NoRows == [b \in Bucket |-> 0]

VARIABLES
    loc,        \* current_item_state (store_id, sku_id, zone_id)
    version,    \* current_item_state.state_version, 0 when there is no row
    removed,    \* authoritative_removal_event_id is set
    outbox,     \* inventory_transition_outbox
    proj,       \* inventory_projection.quantity
    marked,     \* stores with inventory_reconciliation_required_at set
    rebuildPc,  \* the rebuild transaction's next statement, "idle" when none
    snapshot,   \* the projection rows the open rebuild has written
    reconciling \* the outbox rows the open rebuild has set reconciled_at on

items == <<loc, version, removed>>
rebuild == <<rebuildPc, snapshot, reconciling>>
vars == <<items, outbox, proj, marked, rebuild>>

RebuildPc == {"idle", "checked", "scanned", "verified", "reconciled"}

TypeOK ==
    /\ loc \in [Epc -> Location]
    /\ version \in [Epc -> 0..MaxVersion]
    /\ removed \in [Epc -> BOOLEAN]
    /\ outbox \in [Epc -> [Version -> Transition]]
    /\ proj \in [Bucket -> Nat]
    /\ marked \subseteq Store
    /\ rebuildPc \in RebuildPc
    /\ snapshot \in [Bucket -> Nat]
    /\ reconciling \subseteq Epc \X Version

Init ==
    /\ loc = [e \in Epc |-> NoLocation]
    /\ version = [e \in Epc |-> 0]
    /\ removed = [e \in Epc |-> FALSE]
    /\ outbox = [e \in Epc |-> [v \in Version |-> NoTransition]]
    /\ proj = NoRows
    /\ marked = {}
    /\ rebuildPc = "idle"
    /\ snapshot = NoRows
    /\ reconciling = {}

-----------------------------------------------------------------------------
(* The outbox as the worker's queries see it.                               *)

\* Over the outbox rows of one EPC, indexed by state_version.
PendingRows(rows) == {v \in Version : rows[v].status = "pending"}

Earliest(rows, v) ==
    /\ v \in PendingRows(rows)
    /\ \A w \in PendingRows(rows) : v <= w

Pending(e) == PendingRows(outbox[e])

NothingPending == \A e \in Epc : Pending(e) = {}

\* Mutants: any pending version of the EPC; none behind a quarantined one.
AnyPending(e, v) == v \in Pending(e)

EarliestUnpublished(e, v) ==
    /\ v \in Pending(e)
    /\ \A w \in Version : w < v => outbox[e][w].status = "published"

\* The worker only ever picks the smallest pending version of an EPC. Its list
\* is read before the transitions are applied one by one; a listed row that is
\* still pending is still the earliest, since later versions are larger.
EarliestPending(e, v) == Earliest(outbox[e], v)

\* The group-by count of current_item_state.
ItemCount(b) == Cardinality({e \in Epc : loc[e] = b})

-----------------------------------------------------------------------------
(* Producers of transitions: the item row and the outbox row commit together*)

EmitTransition(e, target) ==
    /\ version[e] < MaxVersion
    /\ version' = [version EXCEPT ![e] = @ + 1]
    /\ loc' = [loc EXCEPT ![e] = target]
    /\ outbox' = [outbox EXCEPT ![e][version[e] + 1] =
                    [status |-> "pending", minus |-> loc[e], plus |-> target,
                     attempts |-> 0, reconciled |-> FALSE]]

\* process_observation reaches a stable decision that differs from the row in
\* SKU, store or zone. Every earlier outcome leaves this component's state
\* alone; an authoritatively removed item is never located again.
ProcessObservation(e, b) ==
    /\ ~removed[e]
    /\ loc[e] # b
    /\ EmitTransition(e, b)
    /\ UNCHANGED <<removed, proj, marked, rebuild>>

\* accept_authoritative_removal past its 404 and 409 answers.
AcceptAuthoritativeRemoval(e) ==
    /\ version[e] > 0
    /\ ~removed[e]
    /\ loc[e] # NoLocation
    /\ EmitTransition(e, NoLocation)
    /\ removed' = [removed EXCEPT ![e] = TRUE]
    /\ UNCHANGED <<proj, marked, rebuild>>

-----------------------------------------------------------------------------
(* The event worker.                                                        *)

\* Mutant: the bucket the item leaves keeps it.
PlusOnly(t, b) == IF t.plus = b THEN 1 ELSE 0

\* quantity_delta of a transition on one bucket. The two buckets differ, since
\* a transition is emitted only when the bucket changes.
Delta(t, b) == (IF t.plus = b THEN 1 ELSE 0) - (IF t.minus = b THEN 1 ELSE 0)

\* apply_inventory_deltas raises rather than take a quantity below zero.
Applicable(t) == \A b \in Bucket : proj[b] + Delta(t, b) >= 0

\* publish_attempts += 1, with the row's status after the attempt.
Attempted(t, status) ==
    [t EXCEPT !.status = status, !.attempts = t.attempts + 1]

\* One worker transaction: lock the row, take the tenant's advisory lock,
\* apply both deltas, publish. The advisory lock is held by an open rebuild.
PublishTransition(e, v) ==
    /\ EarliestPending(e, v)
    /\ rebuildPc = "idle"
    /\ Applicable(outbox[e][v])
    /\ proj' = [b \in Bucket |-> proj[b] + Delta(outbox[e][v], b)]
    /\ outbox' = [outbox EXCEPT ![e][v] = Attempted(outbox[e][v], "published")]
    /\ UNCHANGED <<items, marked, rebuild>>

\* Mutant: only the store the item has arrived in.
CurrentStoreId(e, v) == {StoreOf[b] : b \in {loc[e]} \cap Bucket}

\* Stores named by the transition's deltas and by the item's current row. Deltas the
\* producers in the repository write can be read; of others the code takes what it can.
TransitionStoreIds(e, v) ==
    {StoreOf[b] : b \in {outbox[e][v].minus, outbox[e][v].plus, loc[e]} \cap Bucket}

\* Mutant: one attempt too many.
AttemptFailsLate(e, v) ==
    /\ EarliestPending(e, v)
    /\ outbox[e][v].attempts + 1 <= MaxAttempts
    /\ outbox' = [outbox EXCEPT ![e][v] = Attempted(outbox[e][v], "pending")]
    /\ UNCHANGED <<items, proj, marked, rebuild>>

\* The except branch: the attempt raised and was rolled back (a schema-invalid
\* payload, a quantity below zero, a lock or statement timeout, a lost
\* connection), and a second transaction that takes no advisory lock counts it.
AttemptFails(e, v) ==
    /\ EarliestPending(e, v)
    /\ outbox[e][v].attempts + 1 < MaxAttempts
    /\ outbox' = [outbox EXCEPT ![e][v] = Attempted(outbox[e][v], "pending")]
    /\ UNCHANGED <<items, proj, marked, rebuild>>

\* The same branch at the attempt limit.
QuarantineTransition(e, v) ==
    /\ EarliestPending(e, v)
    /\ outbox[e][v].attempts + 1 >= MaxAttempts
    /\ RebuildOutlastsRetries \/ rebuildPc \in {"idle", "checked"}
    /\ outbox' = [outbox EXCEPT ![e][v] = Attempted(outbox[e][v], "quarantined")]
    /\ marked' = marked \cup TransitionStoreIds(e, v)
    /\ UNCHANGED <<items, proj, rebuild>>

-----------------------------------------------------------------------------
(* rebuild_inventory_projection, statement by statement.                    *)

\* Advisory lock, then pending_before.
RebuildBegin ==
    /\ rebuildPc = "idle"
    /\ NothingPending
    /\ rebuildPc' = "checked"
    /\ UNCHANGED <<items, outbox, proj, marked, snapshot, reconciling>>

\* Delete the projection and write it again from the item rows.
RebuildScan ==
    /\ rebuildPc = "checked"
    /\ rebuildPc' = "scanned"
    /\ snapshot' = [b \in Bucket |-> ItemCount(b)]
    /\ UNCHANGED <<items, outbox, proj, marked, reconciling>>

\* Mutant: no second look at the outbox.
RebuildTrustsFirstLook ==
    /\ rebuildPc = "scanned"
    /\ rebuildPc' = "verified"
    /\ UNCHANGED <<items, outbox, proj, marked, snapshot, reconciling>>

\* pending_after, on a fresh snapshot.
RebuildVerify ==
    /\ rebuildPc = "scanned"
    /\ NothingPending
    /\ rebuildPc' = "verified"
    /\ UNCHANGED <<items, outbox, proj, marked, snapshot, reconciling>>

\* UPDATE of the quarantined rows that are not reconciled yet.
RebuildReconcile ==
    /\ rebuildPc = "verified"
    /\ rebuildPc' = "reconciled"
    /\ reconciling' = {ev \in Epc \X Version :
                        /\ outbox[ev[1]][ev[2]].status = "quarantined"
                        /\ ~outbox[ev[1]][ev[2]].reconciled}
    /\ UNCHANGED <<items, outbox, proj, marked, snapshot>>

\* UPDATE of every store_connectivity row, which locks out a quarantine until
\* the commit that follows it.
RebuildCommit ==
    /\ rebuildPc = "reconciled"
    /\ rebuildPc' = "idle"
    /\ proj' = snapshot
    /\ outbox' = [e \in Epc |-> [v \in Version |->
                    IF <<e, v>> \in reconciling
                    THEN [outbox[e][v] EXCEPT !.reconciled = TRUE]
                    ELSE outbox[e][v]]]
    /\ marked' = {}
    /\ snapshot' = NoRows
    /\ reconciling' = {}
    /\ UNCHANGED items

\* pending_after found a row, or the operator's connection or a timeout ended
\* the transaction: everything it wrote is rolled back.
RebuildAbort ==
    /\ rebuildPc # "idle"
    /\ rebuildPc' = "idle"
    /\ snapshot' = NoRows
    /\ reconciling' = {}
    /\ UNCHANGED <<items, outbox, proj, marked>>

Worker(e) ==
    \E v \in Version :
        \/ PublishTransition(e, v)
        \/ AttemptFails(e, v)
        \/ QuarantineTransition(e, v)

RebuildStep == RebuildScan \/ RebuildVerify \/ RebuildReconcile
                \/ RebuildCommit \/ RebuildAbort

Next ==
    \/ \E e \in Epc, b \in Bucket : ProcessObservation(e, b)
    \/ \E e \in Epc : AcceptAuthoritativeRemoval(e)
    \/ \E e \in Epc, v \in Version :
        \/ PublishTransition(e, v)
        \/ AttemptFails(e, v)
        \/ QuarantineTransition(e, v)
    \/ RebuildBegin
    \/ RebuildScan
    \/ RebuildVerify
    \/ RebuildReconcile
    \/ RebuildCommit
    \/ RebuildAbort

Spec == Init /\ [][Next]_vars

\* The worker loop visits every active tenant forever and, in a pass, every
\* EPC's earliest pending transition; a rebuild transaction ends, at the latest
\* by statement_timeout.
FairSpec == Spec /\ (\A e \in Epc : WF_vars(Worker(e))) /\ WF_vars(RebuildStep)

-----------------------------------------------------------------------------
(* Properties.                                                              *)

\* Where the projection, having seen the settled versions of an item, believes
\* it to be: the source of its earliest pending transition.
ProjectedLoc(rows, here) ==
    IF PendingRows(rows) = {} THEN here
    ELSE rows[CHOOSE v \in Version : Earliest(rows, v)].minus

ProjectedAt(e) == ProjectedLoc(outbox[e], loc[e])

ProjectedCount(b) == Cardinality({e \in Epc : ProjectedAt(e) = b})

\* In a store that is not marked for reconciliation the projection (written by
\* apply_inventory_deltas and by rebuild_inventory_projection) differs from the
\* item rows exactly by the transitions still pending: none is lost, none is
\* applied twice, whatever is quarantined elsewhere and whenever a rebuild runs.
UnmarkedProjectionExact ==
    \A b \in Bucket : StoreOf[b] \notin marked => proj[b] = ProjectedCount(b)

\* What the inventory of an unmarked store promises its readers: once the outbox
\* has drained, the projected quantity is the number of items there.
DrainedProjectionExact ==
    NothingPending =>
        \A b \in Bucket : StoreOf[b] \notin marked => proj[b] = ItemCount(b)

\* "inventory projection would become negative" can only be raised for a bucket
\* of a store that is already marked: a transition between sound stores applies.
UnmarkedNeverUnderflows ==
    \A e \in Epc, v \in Version :
        EarliestPending(e, v) =>
            \A b \in Bucket :
                StoreOf[b] \notin marked => proj[b] + Delta(outbox[e][v], b) >= 0

\* _quarantine_transition fails closed: until a rebuild has reconciled it, every
\* store a quarantined transition touches stays marked.
QuarantineFailsClosed ==
    \A e \in Epc, v \in Version :
        (outbox[e][v].status = "quarantined" /\ ~outbox[e][v].reconciled) =>
            \A b \in {outbox[e][v].minus, outbox[e][v].plus} \cap Bucket :
                StoreOf[b] \in marked

\* The transitions of one item settle (are published or quarantined) in
\* state_version order, so a delta never overtakes the one it builds on.
SettlesInVersionOrder ==
    [][\A e \in Epc, v \in Version :
        (outbox[e][v].status = "pending" /\ outbox'[e][v].status # "pending") =>
            \A w \in Version : w < v => outbox[e][w].status # "pending"]_vars

\* Every transition the worker is given is published or quarantined in the end,
\* poison payloads and rebuilds that hold the advisory lock notwithstanding.
EveryTransitionSettles ==
    \A e \in Epc, v \in Version :
        outbox[e][v].status = "pending" ~> outbox[e][v].status # "pending"

-----------------------------------------------------------------------------
(* The inductive invariant behind UnmarkedProjectionExact.                  *)

\* A row exists for every version up to the item's, and its two sides differ.
RowsMatchVersion ==
    \A e \in Epc, v \in Version :
        /\ v <= version[e] <=> outbox[e][v].status # "absent"
        /\ v <= version[e] => outbox[e][v].minus # outbox[e][v].plus
        /\ outbox[e][v].status = "pending" => outbox[e][v].attempts < MaxAttempts

\* Versions settle in order, so the pending ones are the latest.
PendingIsSuffix ==
    \A e \in Epc : \E n \in 0..version[e] : Pending(e) = (n + 1)..version[e]

\* Each transition starts where the one before it ended; the last one ended
\* where the item is.
TransitionsChain ==
    \A e \in Epc, v \in Version :
        /\ v = version[e] => outbox[e][v].plus = loc[e]
        /\ v < version[e] => outbox[e][v].plus = outbox[e][v + 1].minus

\* What an open rebuild has written is still what the projection should hold.
SnapshotSound ==
    /\ (rebuildPc = "scanned" /\ NothingPending) =>
            \A b \in Bucket : snapshot[b] = ProjectedCount(b)
    /\ rebuildPc \in {"verified", "reconciled"} =>
            \A b \in Bucket : snapshot[b] = ProjectedCount(b)
    /\ rebuildPc = "reconciled" =>
            \A e \in Epc, v \in Version :
                (outbox[e][v].status = "quarantined" /\ ~outbox[e][v].reconciled)
                    => <<e, v>> \in reconciling

OutboxInv == TypeOK /\ RowsMatchVersion /\ PendingIsSuffix /\ TransitionsChain

ProjectionInv ==
    OutboxInv /\ UnmarkedProjectionExact /\ QuarantineFailsClosed /\ SnapshotSound

=============================================================================
