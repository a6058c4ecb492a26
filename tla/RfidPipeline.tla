---------------------------- MODULE RfidPipeline ----------------------------
(***************************************************************************)
(* The RFID pipeline of one tenant, from the batches a device posts to the *)
(* location of the items: the event ledger, the batches that delivered an  *)
(* event and their counters, the raw outbox in acceptance order, the single*)
(* event worker with its in-memory evidence (RecentObservations), the      *)
(* quarantine and its replay by an operator.                               *)
(*                                                                         *)
(* One action is one database transaction together with what the worker    *)
(* does to its memory around it. The transition a move emits is modelled   *)
(* in InventoryProjection. Answers that change nothing (the 403, 404 and   *)
(* 409 paths, a replay of an event that is pending or processed) are steps *)
(* that leave every variable unchanged.                                    *)
(***************************************************************************)
EXTENDS RecentObservations

CONSTANTS
    Batch,        \* batch ids; bounds the number of requests accepted
    Requests,     \* the event ids a device may post together, in request order
    Time,         \* instants a binding may become effective at
    DeviceStates, \* the states the device may change to: active (TRUE), suspended
    TooFarAhead,  \* events observed beyond the allowed clock skew
    MaxAttempts,  \* settings.worker_max_attempts
    MaxRestarts,  \* bound on worker restarts
    MaxReplays    \* bound on the replays the operator requests

ASSUME PipelineAssumption ==
    /\ Requests \subseteq Seq(Event)
    /\ \A es \in Requests : /\ es # <<>>
                           /\ \A i, j \in DOMAIN es : es[i] = es[j] => i = j
    /\ MaxRestarts \in Nat /\ MaxReplays \in Nat
    /\ DeviceStates \subseteq BOOLEAN
    /\ IsFiniteSet(Event)
    /\ MaxAttempts \in Nat \ {0}
    /\ Time \subseteq Nat \ {0}
    /\ TooFarAhead \subseteq Event

Final == {"PROCESSED", "REJECTED"}
EventStatus == {"PENDING"} \cup Final
BatchStatus == {"ACCEPTED", "PROCESSING", "COMPLETED", "COMPLETED_WITH_ERRORS"}
\* INACTIVE_DEVICE is any answer of _resolve_effective_assignment.
Reason == {"OBSERVED_AT_TOO_FAR_IN_FUTURE", "INACTIVE_DEVICE", "UNKNOWN_EPC",
           "PROCESSING_ATTEMPTS_EXHAUSTED"}
Disposition == {"DUPLICATE", "LATE", "REMOVED_ITEM_OBSERVED", "AMBIGUOUS",
                "PROCESSED", "REPLAY_QUEUED"}

None == "none"

VARIABLES
    ledger,      \* rfid_observation_event.processing_status
    outcome,     \* its disposition, for QUARANTINED its rejection_reason
    quarantine,  \* rfid_quarantine.reason of the event's only row
    accepted,    \* rfid_observation_outbox in acceptance_sequence order
    outbox,      \* per event: published_at and publish_attempts, and for a row
                 \* with replayed_from_quarantine_id what the event had been
                 \* rejected for when the replay was queued
    links,       \* rfid_observation_batch_event.processing_status
    batch,       \* rfid_observation_batch
    item,        \* current_item_state: zone, last_observed_at, removed
    binding,     \* effective_from of the EPC's active binding
    deviceActive,
    memory,      \* the worker's RecentObservationState
    todo,        \* the rest of the worker's raw_ids
    restarts,
    replays

ledgerVars == <<ledger, outcome, quarantine, links, batch>>
envVars == <<binding, deviceActive, restarts, replays>>
vars == <<ledgerVars, accepted, outbox, item, envVars, memory, todo>>

Row == [published: BOOLEAN, attempts: 0..MaxAttempts, replayed: Reason \cup {None}]
Item == [zone: Zone \cup {NoZone}, lastObserved: Nat, removed: BOOLEAN]
Counters == [status: BatchStatus \cup {None}, accepted: Nat,
             processed: Nat, rejected: Nat]

NewRow == [published |-> FALSE, attempts |-> 0, replayed |-> None]
NoItem == [zone |-> NoZone, lastObserved |-> 0, removed |-> FALSE]
NoBatch == [status |-> None, accepted |-> 0, processed |-> 0, rejected |-> 0]

TypeOK ==
    /\ ledger \in [Event -> EventStatus \cup {None}]
    /\ outcome \in [Event -> Disposition \cup Reason \cup {None}]
    /\ quarantine \in [Event -> Reason \cup {None}]
    /\ accepted \in Seq(Event) /\ todo \in Seq(Event)
    /\ outbox \in [Event -> Row]
    /\ links \in [Batch -> [Event -> EventStatus \cup {None}]]
    /\ batch \in [Batch -> Counters]
    /\ item \in [Epc -> Item]
    /\ binding \in [Epc -> Time \cup {0}]
    /\ deviceActive \in BOOLEAN
    /\ memory.ids \in Seq(Event) /\ Len(memory.ids) <= MaxEventIds
    /\ memory.windows \in Seq([epc: Epc, reads: Seq(Event)])
    /\ Len(memory.windows) <= MaxEpcs
    /\ restarts \in 0..MaxRestarts /\ replays \in 0..MaxReplays

Init ==
    /\ ledger = [e \in Event |-> None]
    /\ outcome = [e \in Event |-> None]
    /\ quarantine = [e \in Event |-> None]
    /\ accepted = <<>> /\ todo = <<>>
    /\ outbox = [e \in Event |-> NewRow]
    /\ links = [b \in Batch |-> [e \in Event |-> None]]
    /\ batch = [b \in Batch |-> NoBatch]
    /\ item = [c \in Epc |-> NoItem]
    /\ binding = [c \in Epc |-> 0]
    /\ deviceActive = TRUE
    /\ memory = EmptyMemory
    /\ restarts = 0 /\ replays = 0

-----------------------------------------------------------------------------
(* Batches and the events they delivered.                                   *)

LinksIn(ls, status) == Cardinality({e \in Event : ls[e] = status})

Counted(bt, ls) == [bt EXCEPT !.processed = LinksIn(ls, "PROCESSED"),
                              !.rejected = LinksIn(ls, "REJECTED")]

\* The counters and the status of a batch, recomputed from its links.
Recounted(bt, ls) ==
    LET c == Counted(bt, ls)
        accounted == c.processed + c.rejected
    IN  IF accounted = c.accepted
        THEN [c EXCEPT !.status = IF c.rejected > 0 THEN "COMPLETED_WITH_ERRORS"
                                  ELSE "COMPLETED"]
        ELSE IF accounted > 0 THEN [c EXCEPT !.status = "PROCESSING"]
        ELSE c

\* Mutant: finalizes the event on one of its batches only.
RelinkedOnce(e, status) ==
    [b \in Batch |->
        IF links[b][e] = None \/ b # CHOOSE x \in Batch : links[x][e] # None
        THEN links[b] ELSE [links[b] EXCEPT ![e] = status]]

\* The event's status on every batch that delivered it.
Relinked(e, status) ==
    [b \in Batch |-> IF links[b][e] = None THEN links[b]
                     ELSE [links[b] EXCEPT ![e] = status]]

\* _advance_batch: finalize the event and every batch that delivered it.
AdvanceBatch(e, status, disposition) ==
    /\ ledger' = [ledger EXCEPT ![e] = status]
    /\ outcome' = [outcome EXCEPT ![e] = disposition]
    /\ links' = Relinked(e, status)
    /\ batch' = [b \in Batch |-> IF links[b][e] = None THEN batch[b]
                                 ELSE Recounted(batch[b], links'[b])]

\* _quarantine keeps the row of the event's first quarantine.
Quarantine(e, reason) ==
    /\ quarantine' = [quarantine EXCEPT ![e] = IF @ = None THEN reason ELSE @]
    /\ AdvanceBatch(e, "REJECTED", reason)

-----------------------------------------------------------------------------
(* accept_observation_batch.                                                *)

\* The rows of new events get their place in acceptance order before the
\* transaction commits, so a batch that commits later may sort earlier.
AcceptObservationBatch(b, es, at) ==
    LET new == Filter(es, {e \in Event : ledger[e] = None})
        after == [e \in Event |-> IF e \in Entries(new) THEN "PENDING" ELSE ledger[e]]
    IN  /\ batch[b] = NoBatch
        /\ at <= Len(accepted)
        /\ new = <<>> => at = 0
        /\ ledger' = after
        /\ accepted' = SubSeq(accepted, 1, at) \o new
                        \o SubSeq(accepted, at + 1, Len(accepted))
        /\ links' = [links EXCEPT ![b] =
                        [e \in Event |-> IF e \in Entries(es) THEN after[e] ELSE None]]
        /\ batch' = [batch EXCEPT ![b] =
                        Recounted([NoBatch EXCEPT !.status = "ACCEPTED",
                                                  !.accepted = Len(es)],
                                  links'[b])]
        /\ UNCHANGED <<outcome, quarantine, outbox, item, envVars, memory, todo>>

-----------------------------------------------------------------------------
(* The raw phase of the event worker.                                       *)

Unpublished(e) == e \in Entries(accepted) /\ ~outbox[e].published

\* raw_ids: the unpublished rows, read once at the start of a pass.
BeginPass ==
    /\ todo = <<>>
    /\ todo' = Filter(accepted, {e \in Event : Unpublished(e)})
    /\ todo' # <<>>
    /\ UNCHANGED <<ledgerVars, accepted, outbox, item, envVars, memory>>

\* Mutant: counts the attempt and forgets published_at.
PublishCountsOnly(e) == outbox' = [outbox EXCEPT ![e].attempts = @ + 1]

Publish(e) == outbox' = [outbox EXCEPT ![e].published = TRUE, ![e].attempts = @ + 1]

\* The worker's memory with e remembered and, once windows changed, its read.
Touched(e, windows) ==
    [ids |-> RememberEvent(memory.ids, e), windows |-> windows]

RolledBack(e, m) == Restore(m, e, Checkpoint(memory, e))

\* The end of e's transaction. When the commit is not acknowledged although it
\* took place, the worker restores its memory, finds the row published and
\* leaves the pass.
EndTransaction(e, windows, acknowledged) ==
    /\ Publish(e)
    /\ todo' = IF acknowledged THEN Tail(todo) ELSE <<>>
    /\ memory' = IF acknowledged THEN Touched(e, windows)
                 ELSE RolledBack(e, Touched(e, windows))
    /\ UNCHANGED <<accepted, envVars>>

\* An outcome that leaves the item and the evidence alone.
NoEvidence(e, acknowledged) ==
    /\ EndTransaction(e, memory.windows, acknowledged)
    /\ UNCHANGED item

-----------------------------------------------------------------------------
(* process_observation, one action per kind of outcome.                     *)

\* e is the row the worker has just locked. One whose event is final would be
\* published as it is; LedgerMatchesOutbox says that there is none.
Working(e) == todo # <<>> /\ Head(todo) = e /\ ledger[e] = "PENDING"

Replayed(e) == outbox[e].replayed # None

Duplicate(e) == IsDuplicate(memory.ids, e, Replayed(e))

EventTimeBinding(e) ==
    LET from == binding[EpcOf[e]] IN from # 0 /\ from <= ObservedAt[e]

\* The current binding, for the replay of a row quarantined as UNKNOWN_EPC.
ReplayBinding(e) ==
    /\ binding[EpcOf[e]] # 0
    /\ Replayed(e)
    /\ quarantine[e] = "UNKNOWN_EPC"

Bound(e) == EventTimeBinding(e) \/ ReplayBinding(e)

RejectionReason(e) ==
    CASE e \in TooFarAhead -> "OBSERVED_AT_TOO_FAR_IN_FUTURE"
      [] e \notin TooFarAhead /\ ~deviceActive -> "INACTIVE_DEVICE"
      [] e \notin TooFarAhead /\ deviceActive /\ ~Bound(e) -> "UNKNOWN_EPC"
      [] OTHER -> None

ObserveRejected(e, ack) ==
    /\ Working(e)
    /\ ~Duplicate(e)
    /\ RejectionReason(e) # None
    /\ Quarantine(e, RejectionReason(e))
    /\ NoEvidence(e, ack)

Resolved(e) == ~Duplicate(e) /\ RejectionReason(e) = None

\* Mutant: trusts the throttled timestamp of the item alone.
ItemWatermark(c) == item[c].lastObserved

\* processed_observation_watermark and the item's own, 0 when neither exists.
Watermark(c) ==
    Latest({0, item[c].lastObserved} \cup
           {ObservedAt[e] : e \in {x \in Event : EpcOf[x] = c /\ ledger[x] = "PROCESSED"}})

Late(e) == ObservedAt[e] < Watermark(EpcOf[e])

\* Processed without a look at the evidence, and why.
Ignored(e, disposition) ==
    \/ disposition = "DUPLICATE" /\ Duplicate(e)
    \/ disposition = "LATE" /\ Resolved(e) /\ Late(e)
    \/ disposition = "REMOVED_ITEM_OBSERVED" /\ Resolved(e) /\ ~Late(e)
            /\ item[EpcOf[e]].removed

ObserveIgnored(e, ack) ==
    /\ Working(e)
    /\ \E d \in Disposition :
            Ignored(e, d) /\ AdvanceBatch(e, "PROCESSED", d)
    /\ NoEvidence(e, ack)
    /\ UNCHANGED quarantine

\* e is the newest observation of an item that is still in stock.
Current(e) ==
    /\ Working(e)
    /\ Resolved(e)
    /\ ~Late(e)
    /\ ~item[EpcOf[e]].removed

\* Evidence from before an event-time binding does not count.
EvidenceStart(e) == IF EventTimeBinding(e) THEN binding[EpcOf[e]] ELSE 0

Evidence(e) == Retained(memory.windows, e, EvidenceStart(e))
EvidenceAdded(e) == Add(memory.windows, e, EvidenceStart(e))

\* last_observed_at is refreshed when the last refresh was received long enough
\* ago, which the model leaves open; there is nothing to refresh without a row.
Refreshed(it, at) ==
    {it} \cup (IF it.lastObserved = 0 THEN {}
               ELSE {[it EXCEPT !.lastObserved = Latest({@, at})]})

\* The decisions infer_stable_zone can reach that the watermark has not overtaken.
Decisions(e) ==
    {z \in StableZones(Evidence(e)) \ {NoZone} :
        DecidedAt(Evidence(e), z) >= Watermark(EpcOf[e])}

SeenUntil(e, z) == Latest({ObservedAt[e], DecidedAt(Evidence(e), z)})

\* No decision, or one that the watermark has overtaken.
ObserveAmbiguous(e, ack) ==
    LET c == EpcOf[e] IN
    /\ Current(e)
    /\ StableZones(Evidence(e)) # Decisions(e)
    /\ \E it \in Refreshed(item[c], ObservedAt[e]) :
            item' = [item EXCEPT ![c] = it]
    /\ AdvanceBatch(e, "PROCESSED", "AMBIGUOUS")
    /\ EndTransaction(e, EvidenceAdded(e), ack)
    /\ UNCHANGED quarantine

ObserveSameZone(e, z, ack) ==
    LET c == EpcOf[e] IN
    /\ Current(e)
    /\ z \in Decisions(e)
    /\ item[c].zone = z
    /\ \E it \in Refreshed(item[c], SeenUntil(e, z)) :
            item' = [item EXCEPT ![c] = it]
    /\ AdvanceBatch(e, "PROCESSED", "PROCESSED")
    /\ EndTransaction(e, EvidenceAdded(e), ack)
    /\ UNCHANGED quarantine

ObserveMove(e, z, ack) ==
    LET c == EpcOf[e] IN
    /\ Current(e)
    /\ z \in Decisions(e)
    /\ item[c].zone # z
    /\ item' = [item EXCEPT ![c].zone = z,
                             ![c].lastObserved = SeenUntil(e, z)]
    /\ AdvanceBatch(e, "PROCESSED", "PROCESSED")
    /\ EndTransaction(e, EvidenceAdded(e), ack)
    /\ UNCHANGED quarantine

-----------------------------------------------------------------------------
(* An attempt that raised: its transaction is rolled back, the memory is    *)
(* restored, and a second transaction counts the attempt.                   *)

\* The memory at the points where the attempt may raise after its checkpoint.
HalfDone(e) == {Touched(e, ws) : ws \in {memory.windows, EvidenceAdded(e)}}

\* The memory is restored; an attempt that raised before its checkpoint left it.
ForgetAttempt(e) ==
    \/ UNCHANGED memory
    \/ \E m \in HalfDone(e) : memory' = RolledBack(e, m)

\* Mutant: a failed attempt is not counted.
SameRow(row) == row

FailedOnce(row) == [row EXCEPT !.attempts = @ + 1]

AttemptFails(e) ==
    /\ Working(e)
    /\ outbox[e].attempts + 1 < MaxAttempts
    /\ outbox' = [outbox EXCEPT ![e] = FailedOnce(@)]
    /\ ForgetAttempt(e)
    /\ todo' = <<>>
    /\ UNCHANGED <<ledgerVars, accepted, item, envVars>>

AttemptsExhausted(e) ==
    /\ Working(e)
    /\ outbox[e].attempts + 1 >= MaxAttempts
    /\ Quarantine(e, "PROCESSING_ATTEMPTS_EXHAUSTED")
    /\ Publish(e)
    /\ ForgetAttempt(e)
    /\ todo' = Tail(todo)
    /\ UNCHANGED <<accepted, item, envVars>>

\* The second transaction raised as well, which ends the pass uncounted.
AttemptUncounted(e) ==
    /\ Working(e)
    /\ ForgetAttempt(e)
    /\ todo' = <<>>
    /\ UNCHANGED <<ledgerVars, accepted, outbox, item, envVars>>

\* The process is replaced: the evidence is gone, the tables are not.
WorkerRestarts ==
    /\ restarts < MaxRestarts
    /\ restarts' = restarts + 1
    /\ memory' = EmptyMemory
    /\ todo' = <<>>
    /\ UNCHANGED <<ledgerVars, accepted, outbox, item, binding, deviceActive,
                   replays>>

-----------------------------------------------------------------------------
(* The operator, the catalog, the device registry and the business events.  *)

\* Mutant: a quarantine row that a replay has resolved may be replayed again.
ReplayableOnceQuarantined(e) == quarantine[e] # None /\ ledger[e] # "PENDING"

Replayable(e) == quarantine[e] # None /\ ledger[e] = "REJECTED"

\* queue_quarantined_observation_replay past its early returns.
Replay(e) ==
    /\ Replayable(e)
    /\ ledger' = [ledger EXCEPT ![e] = "PENDING"]
    /\ outcome' = [outcome EXCEPT ![e] = "REPLAY_QUEUED"]
    /\ links' = Relinked(e, "PENDING")
    /\ batch' = [b \in Batch |-> IF links[b][e] = None THEN batch[b]
                    ELSE [Counted(batch[b], links'[b]) EXCEPT !.status = "PROCESSING"]]
    /\ outbox' = [outbox EXCEPT ![e] = [NewRow EXCEPT !.replayed = outcome[e]]]
    /\ replays < MaxReplays
    /\ replays' = replays + 1
    /\ UNCHANGED <<quarantine, accepted, item, binding, deviceActive, restarts,
                   memory, todo>>

\* A catalog promotion binds the EPC to its SKU from then on.
BindEpc(c, at) ==
    /\ binding[c] = 0
    /\ binding' = [binding EXCEPT ![c] = at]
    /\ UNCHANGED <<ledgerVars, accepted, outbox, item, deviceActive, restarts,
                   replays, memory, todo>>

DeviceStatusChanges ==
    /\ deviceActive' \in DeviceStates \ {deviceActive}
    /\ UNCHANGED <<ledgerVars, accepted, outbox, item, binding, restarts,
                   replays, memory, todo>>

\* accept_authoritative_removal, of an event that is recent enough.
AcceptAuthoritativeRemoval(c) ==
    /\ item[c].zone # NoZone
    /\ item' = [item EXCEPT ![c].zone = NoZone, ![c].removed = TRUE]
    /\ UNCHANGED <<ledgerVars, accepted, outbox, envVars, memory, todo>>

-----------------------------------------------------------------------------
ProcessObservation(e, ack) ==
    \/ ObserveIgnored(e, ack)
    \/ ObserveRejected(e, ack)
    \/ ObserveAmbiguous(e, ack)
    \/ \E z \in Zone : ObserveSameZone(e, z, ack) \/ ObserveMove(e, z, ack)

\* What the worker does to the next row while the database answers.
Handle ==
    \/ \E e \in Event : AttemptFails(e) \/ AttemptsExhausted(e)
    \/ \E e \in Event, ack \in BOOLEAN : ProcessObservation(e, ack)

Next ==
    \/ \E b \in Batch, es \in Requests, at \in 0..Cardinality(Event) :
            AcceptObservationBatch(b, es, at)
    \/ BeginPass
    \/ Handle
    \/ \E e \in Event : AttemptUncounted(e)
    \/ WorkerRestarts
    \/ \E e \in Event : Replay(e)
    \/ \E c \in Epc, at \in Time : BindEpc(c, at)
    \/ DeviceStatusChanges
    \/ \E c \in Epc : AcceptAuthoritativeRemoval(c)

Spec == Init /\ [][Next]_vars

\* The worker loop polls every active tenant forever, and an outage of the
\* database does not last: of the rows the worker takes up it keeps handling some.
FairSpec == Spec /\ WF_vars(BeginPass) /\ SF_vars(Handle)

-----------------------------------------------------------------------------
(* Properties.                                                              *)

\* The ledger and the durable inbox never disagree: an event is pending exactly
\* while its outbox row waits to be published (the state that the replay
\* endpoint answers with quarantine_event_state_inconsistent is unreachable).
LedgerMatchesOutbox ==
    \A e \in Event : ledger[e] = "PENDING" <=> Unpublished(e)

\* Every batch that delivered an event, the original or a retry, tells the truth
\* about it: its counters are those of the ledger, and it is complete exactly
\* when none of its events is pending.
BatchesTellTheTruth ==
    \A b \in Batch :
        LET its == {e \in Event : links[b][e] # None}
            with(s) == Cardinality({e \in its : ledger[e] = s})
        IN  /\ batch[b].accepted = Cardinality(its)
            /\ batch[b].processed = with("PROCESSED")
            /\ batch[b].rejected = with("REJECTED")
            /\ its # {} =>
                (batch[b].status \in {"COMPLETED", "COMPLETED_WITH_ERRORS"}
                    <=> with("PENDING") = 0)
            /\ batch[b].status = "COMPLETED" => with("REJECTED") = 0

\* Every accepted event gets a real outcome: neither a retried attempt nor a
\* replay meets its own id in the worker's memory and is dropped as a DUPLICATE.
NeverItsOwnDuplicate == \A e \in Event : outcome[e] # "DUPLICATE"

\* RecentObservationState.restore undoes everything one event can do to the
\* memory, evictions at its two limits included.
RestoreUndoes ==
    \A e \in Event :
        \A m \in HalfDone(e) : Contents(RolledBack(e, m)) = Contents(memory)

\* An item is where at least ConfirmationReads distinct processed reads, close
\* to each other in time, saw it: failed attempts, replays, lost commits and
\* restarts never add up to a move.
LocationIsConfirmed ==
    \A c \in Epc :
        item[c].zone # NoZone =>
            \E es \in SUBSET {e \in Event : /\ EpcOf[e] = c
                                            /\ ZoneOf[e] = item[c].zone
                                            /\ ledger[e] = "PROCESSED"} :
                /\ Cardinality(es) = ConfirmationReads
                /\ \A e, f \in es : ObservedAt[e] <= ObservedAt[f] + Window

\* An item moves only to a zone whose evidence is as recent as anything the
\* tenant had processed about the item before, although last_observed_at is
\* refreshed only now and then and a restart empties the evidence. (The read that
\* triggers the move may itself be newer and of another zone.)
MovesFollowTheNewestEvidence ==
    [][\A c \in Epc :
        (item'[c].zone # item[c].zone /\ item'[c].zone # NoZone) =>
            \E e \in Event :
                /\ EpcOf[e] = c /\ ZoneOf[e] = item'[c].zone
                /\ ledger'[e] = "PROCESSED"
                /\ \A f \in Event :
                    (EpcOf[f] = c /\ ledger[f] = "PROCESSED")
                        => ObservedAt[f] <= ObservedAt[e]]_vars

\* A processed event stays processed: neither a retry of its batch, nor a late
\* replay, nor a lost commit makes the worker take it up again.
ProcessedIsFinal ==
    [][\A e \in Event : ledger[e] = "PROCESSED" =>
            /\ ledger'[e] = "PROCESSED"
            /\ outcome'[e] = outcome[e]]_vars

\* "One poison record cannot block later RFID events": every accepted event is
\* processed or rejected in the end.
EveryEventSettles ==
    \A e \in Event : ledger[e] = "PENDING" ~> ledger[e] \in Final

\* "For UNKNOWN_EPC, explicit replay after a product-master correction may use
\* the current active EPC binding": the replay of an event whose rejection was
\* UNKNOWN_EPC is not answered UNKNOWN_EPC again while its EPC has one.
ReplayUsesCurrentBinding ==
    [][\A e \in Event :
        (/\ ledger[e] = "PENDING" /\ outbox[e].replayed = "UNKNOWN_EPC"
         /\ outcome'[e] = "UNKNOWN_EPC")
            => binding[EpcOf[e]] = 0]_vars

=============================================================================
