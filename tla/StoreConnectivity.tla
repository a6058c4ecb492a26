-------------------------- MODULE StoreConnectivity --------------------------
(***************************************************************************)
(* The store_connectivity row of one store, which decides whether the      *)
(* store's inventory is LIVE. The API applies the status a gateway sends   *)
(* with a batch (a receipt) when it accepts the batch; the event worker    *)
(* applies it again with every observation of the batch it processes: in   *)
(* any order, long after newer receipts, and once more after a replay.     *)
(*                                                                         *)
(* The row is locked to the end of either transaction, so each is one      *)
(* action. The API stamps a receipt before it waits for locks: receipts    *)
(* may commit in another order than their times. A batch may hold any      *)
(* observations; those of a device that has been moved are of another store*)
(* than the batch, so the worker may be the one that creates the row.      *)
(***************************************************************************)
EXTENDS Integers, FiniteSets

CONSTANTS
    Receipt,        \* batches; bounds their number
    MaxTime,        \* bound on the clock
    BufferAge,      \* an observation this much older than its receipt is buffered
    MaxSkew,        \* settings.rfid_max_future_skew_seconds
    Flush,          \* settings.rfid_last_seen_flush_seconds
    LiveWindow,     \* settings.connectivity_live_window_seconds
    StaleWindow     \* settings.connectivity_stale_window_seconds

\* The settings validator orders the windows; nothing relates Flush to them.
ASSUME WindowAssumption ==
    /\ {MaxTime, BufferAge, MaxSkew, Flush, LiveWindow, StaleWindow} \subseteq Nat
    /\ LiveWindow < StaleWindow

VARIABLES
    receipt,        \* what the gateways sent, and what has become of it
    row,            \* store_connectivity
    newestLive,     \* history: newest observed_at of the live events applied
    newestBuffered, \* history: newest receipt with buffered evidence, applied
                    \* while that receipt was the newest
    clock

vars == <<receipt, row, newestLive, newestBuffered, clock>>

Never == -1
Time == 0..MaxTime

\* "none", then stamped, then committed. The last two fields are history: the row
\* has seen the receipt, and a live event of it.
Unsent == [state |-> "none", received |-> Never, drained |-> FALSE,
           covered |-> FALSE, applied |-> FALSE, live |-> FALSE]

NoRow == [status |-> "none"]

Row == [status: {"LIVE", "DEGRADED", "STALE"}, heartbeat: Time, received: Time,
        drained: BOOLEAN, covered: BOOLEAN, lastLive: Time \cup {Never},
        lastLiveReceived: Time \cup {Never}, oldestBuffered: Time \cup {Never},
        reconcile: BOOLEAN]

TypeOK ==
    /\ receipt \in [Receipt -> [state: {"none", "stamped", "committed"},
                                received: Time \cup {Never}, drained: BOOLEAN,
                                covered: BOOLEAN, applied: BOOLEAN, live: BOOLEAN]]
    /\ row \in Row \cup {NoRow}
    /\ {newestLive, newestBuffered} \subseteq Time \cup {Never}
    /\ clock \in Time

Init ==
    /\ receipt = [r \in Receipt |-> Unsent]
    /\ row = NoRow
    /\ newestLive = Never /\ newestBuffered = Never
    /\ clock = 0

Later(a, b) == IF a >= b THEN a ELSE b

-----------------------------------------------------------------------------
(* lock_store_connectivity_for_receipt.                                     *)

Inserted(r) ==
    [status |-> "STALE", heartbeat |-> r.received, received |-> r.received,
     drained |-> r.drained, covered |-> r.covered, lastLive |-> Never,
     lastLiveReceived |-> Never, oldestBuffered |-> Never, reconcile |-> FALSE]

\* INSERT .. ON CONFLICT DO NOTHING, then SELECT .. FOR UPDATE
Locked(r) == IF row = NoRow THEN Inserted(r) ELSE row

\* Mutant: the worker applies the status of whatever batch it gets to.
IsAnyReceipt(c, r) == TRUE

\* is_current_receipt
IsCurrent(c, r) == r.received >= c.received

WithReceipt(c, r) ==
    LET alive == [c EXCEPT !.heartbeat = Later(@, r.received)]
    IN  IF IsCurrent(c, r)
        THEN [alive EXCEPT !.received = r.received,
                           !.drained = r.drained,
                           !.covered = r.covered,
                           !.status = IF r.drained /\ r.covered THEN @ ELSE "STALE"]
        ELSE alive

-----------------------------------------------------------------------------
(* effective_freshness and _apply_connectivity_observation.                 *)

Age(t, now) == Later(0, now - t)

\* effective_freshness
Freshness(c, now) ==
    LET within(window) == /\ Age(c.heartbeat, now) <= window
                          /\ Age(c.lastLive, now) <= window
    IN  CASE c = NoRow -> "STALE"
          [] c # NoRow /\ ( \/ c.lastLive = Never
                            \/ ~c.drained
                            \/ c.oldestBuffered # Never
                            \/ ~within(StaleWindow)) -> "STALE"
          [] OTHER -> IF ~c.reconcile /\ c.covered /\ within(LiveWindow)
                      THEN "LIVE" ELSE "DEGRADED"

\* Mutant: a gateway that says it has drained its backlog is believed at once.
LiveHasResumedOnDrain(c, r) == r.drained

\* Mutant: every buffered event counts against the store.
LiveHasNeverResumed(c, r) == FALSE

\* live_has_resumed
LiveHasResumed(c, r) ==
    r.drained /\ c.lastLiveReceived # Never /\ c.lastLiveReceived >= r.received

WithBuffered(c, r, at) ==
    IF LiveHasResumed(c, r) THEN c
    ELSE [c EXCEPT !.oldestBuffered = IF @ = Never \/ at < @ THEN at ELSE @,
                   !.drained = FALSE,
                   !.status = "STALE"]

\* The write of last_live_event_at is throttled.
WithLiveEvent(c, r, at) ==
    [c EXCEPT !.lastLiveReceived = Later(@, r.received),
              !.lastLive = IF @ = Never \/ at - @ >= Flush THEN at ELSE @]

WithLive(c, r, at, isCurrent) ==
    LET seen == WithLiveEvent(c, r, at)
        resumed == IF r.drained THEN [seen EXCEPT !.oldestBuffered = Never] ELSE seen
    IN  IF isCurrent
        THEN [resumed EXCEPT !.status = Freshness(resumed, r.received)]
        ELSE seen

\* is_buffered, set when the batch is accepted
IsBuffered(r, at) == r.received - at > BufferAge

-----------------------------------------------------------------------------
(* The API.                                                                 *)

\* submit_observation_batch_endpoint: received_at is taken before anything else.
Stamp(b, drained, covered) ==
    /\ receipt[b].state = "none"
    /\ receipt' = [receipt EXCEPT ![b] =
                    [Unsent EXCEPT !.state = "stamped", !.received = clock,
                                   !.drained = drained, !.covered = covered]]
    /\ UNCHANGED <<row, newestLive, newestBuffered, clock>>

\* accept_observation_batch of a device assigned to this store.
Accept(b) ==
    /\ receipt[b].state = "stamped"
    /\ receipt' = [receipt EXCEPT ![b].state = "committed", ![b].applied = TRUE]
    /\ row' = WithReceipt(Locked(receipt[b]), receipt[b])
    /\ UNCHANGED <<newestLive, newestBuffered, clock>>

\* The device has been moved here from the store, or to it from elsewhere: the
\* batch belongs to the other store, some of its observations to this one.
AcceptElsewhere(b) ==
    /\ receipt[b].state = "stamped"
    /\ receipt' = [receipt EXCEPT ![b].state = "committed"]
    /\ UNCHANGED <<row, newestLive, newestBuffered, clock>>

-----------------------------------------------------------------------------
(* The event worker.                                                        *)

\* _update_connectivity for an observation made at that time; one from too far in
\* the future is quarantined before it gets here.
Process(b, at) ==
    LET r == receipt[b]
        locked == Locked(r)
        c == WithReceipt(locked, r)
        isCurrent == IsCurrent(locked, r)
    IN  /\ r.state = "committed"
        /\ at <= r.received + MaxSkew
        /\ IF IsBuffered(r, at)
           THEN /\ row' = IF isCurrent THEN WithBuffered(c, r, at) ELSE c
                /\ newestBuffered' = IF r.received >= locked.received
                                     THEN Later(newestBuffered, r.received)
                                     ELSE newestBuffered
                /\ receipt' = [receipt EXCEPT ![b].applied = TRUE]
                /\ UNCHANGED newestLive
           ELSE /\ row' = WithLive(c, r, at, isCurrent)
                /\ newestLive' = Later(newestLive, at)
                /\ receipt' = [receipt EXCEPT ![b].applied = TRUE, ![b].live = TRUE]
                /\ UNCHANGED newestBuffered
        /\ UNCHANGED clock

\* _quarantine_transition, for a transition of the store
RequireReconciliation ==
    /\ row # NoRow
    /\ row' = [row EXCEPT !.reconcile = TRUE,
                          !.status = IF @ = "LIVE" THEN "DEGRADED" ELSE @]
    /\ UNCHANGED <<receipt, newestLive, newestBuffered, clock>>

\* The end of rebuild_inventory_projection.
Reconciled ==
    /\ row # NoRow
    /\ row' = [row EXCEPT !.reconcile = FALSE]
    /\ UNCHANGED <<receipt, newestLive, newestBuffered, clock>>

Tick ==
    /\ clock < MaxTime
    /\ clock' = clock + 1
    /\ UNCHANGED <<receipt, row, newestLive, newestBuffered>>

-----------------------------------------------------------------------------
Next ==
    \/ \E b \in Receipt, drained, covered \in BOOLEAN : Stamp(b, drained, covered)
    \/ \E b \in Receipt : Accept(b) \/ AcceptElsewhere(b)
    \/ \E b \in Receipt, at \in Time : Process(b, at)
    \/ RequireReconciliation
    \/ Reconciled
    \/ Tick

Spec == Init /\ [][Next]_vars

-----------------------------------------------------------------------------
(* Properties.                                                              *)

Applied == {b \in Receipt : receipt[b].applied}
Newest == {b \in Applied : \A a \in Applied : receipt[a].received <= receipt[b].received}

\* The row shows the status of the newest receipt it has seen, whatever the order
\* in which receipts commit and a delayed worker gets to their observations; only
\* its own buffered evidence may overrule a backlog the gateway calls drained.
NewestReceiptDecides ==
    row # NoRow =>
        \E b \in Newest : /\ row.received = receipt[b].received
                          /\ row.heartbeat = receipt[b].received
                          /\ row.covered = receipt[b].covered
                          /\ row.drained => receipt[b].drained

\* A store is called LIVE, now or in its stored status, only on evidence: its
\* newest receipt is drained and covered, a live event is as recent as the window
\* asks, every buffered event whose receipt was still the newest when it was processed
\* was followed by a live one of its receipt or a newer one, and the projection owes
\* no reconciliation.
LiveIsHonest ==
    /\ Freshness(row, clock) = "LIVE" =>
        /\ \E b \in Newest : /\ receipt[b].drained /\ receipt[b].covered
                             /\ clock - receipt[b].received <= LiveWindow
        /\ clock - newestLive <= LiveWindow
        /\ newestBuffered <= row.lastLiveReceived
        /\ ~row.reconcile
    /\ row.status = "LIVE" =>
        /\ \E b \in Newest : receipt[b].drained /\ receipt[b].covered
        /\ newestBuffered <= row.lastLiveReceived
        /\ ~row.reconcile

\* The order and number of the worker's updates do not cost a store its status:
\* once a live event of the one newest receipt, drained and covered, is applied,
\* the store is LIVE as long as the evidence is younger than the live window by
\* the flush interval, the most by which last_live_event_at may lag.
SettledReceiptIsLive ==
    \A b \in Newest :
        (/\ Newest = {b} /\ receipt[b].live
         /\ receipt[b].drained /\ receipt[b].covered
         /\ clock - receipt[b].received <= LiveWindow
         /\ clock - newestLive <= LiveWindow - Flush
         /\ ~row.reconcile)
            => Freshness(row, clock) = "LIVE"

=============================================================================
