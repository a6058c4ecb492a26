------------------------- MODULE RecentObservations -------------------------
(***************************************************************************)
(* RecentObservationState and infer_stable_zone: the event worker's bounded*)
(* memory of event ids and of recent reads per EPC, its checkpoint and     *)
(* restore around a database transaction, and the location decision that   *)
(* is made from one EPC's reads.                                           *)
(*                                                                         *)
(* The memory is a record of two ordered dictionaries, oldest entry first: *)
(* ids, a sequence of event ids, and windows, a sequence of [epc, reads].  *)
(* Times are positive integers; 0 is an absent time.                       *)
(***************************************************************************)
EXTENDS Integers, Sequences, FiniteSets

CONSTANTS
    Event,              \* event ids
    Epc,
    Zone,               \* (store, zone) locations
    NoZone,             \* no decision, no location
    EpcOf, ZoneOf,      \* what an event observed
    ObservedAt,         \* when it observed it
    ConfirmationReads,  \* settings.rfid_move_confirmation_reads
    Window,             \* settings.rfid_move_confirmation_window_seconds
    MaxEventIds,        \* maximum_event_ids
    MaxEpcs             \* maximum_epcs

ASSUME ObservationAssumption ==
    /\ EpcOf \in [Event -> Epc]
    /\ ZoneOf \in [Event -> Zone]
    /\ ObservedAt \in [Event -> Nat \ {0}]
    /\ NoZone \notin Zone
ASSUME LimitsAssumption ==
    /\ ConfirmationReads \in Nat \ {0}
    /\ Window \in Nat
    /\ MaxEventIds \in Nat \ {0}
    /\ MaxEpcs \in Nat \ {0}

EmptyMemory == [ids |-> <<>>, windows |-> <<>>]

Entries(s) == {s[i] : i \in DOMAIN s}

\* The entries of s that are in S, in their order: SelectSeq without its test
\* operator, so that the provers can reason about it.
Filter(s, S) ==
    LET kept == {i \in DOMAIN s : s[i] \in S}
        before(i) == Cardinality({j \in kept : j < i})
    IN  [n \in 1..Cardinality(kept) |-> s[CHOOSE i \in kept : before(i) = n - 1]]

Latest(times) == CHOOSE t \in times : \A u \in times : u <= t

-----------------------------------------------------------------------------
(* Ordered dictionaries.                                                    *)

Drop(ids, e) == Filter(ids, Entries(ids) \ {e})
DropWindow(ws, c) == Filter(ws, {w \in Entries(ws) : w.epc # c})
WindowFor(ws, c) == {w \in Entries(ws) : w.epc = c}  \* at most one
The(found) == CHOOSE w \in found : TRUE
Oldest(s) == SubSeq(s, 1, IF s = <<>> THEN 0 ELSE 1)

\* popitem(last=False) once the limit is exceeded.
Bounded(s, limit) == IF Len(s) > limit THEN Tail(s) ELSE s

-----------------------------------------------------------------------------
(* RecentObservationState.                                                  *)

\* Mutant: the oldest id is never evicted.
RememberForever(ids, e) == Append(Drop(ids, e), e)

RememberEvent(ids, e) == Bounded(Append(Drop(ids, e), e), MaxEventIds)

\* A replayed event is first forgotten, so that it is not its own duplicate.
IsDuplicate(ids, e, replayed) == ~replayed /\ e \in Entries(ids)

\* Reads retained for e's EPC once e is added.
Retained(ws, e, notBefore) ==
    LET old == WindowFor(ws, EpcOf[e])
        reads == Append(IF old = {} THEN <<>> ELSE The(old).reads, e)
    IN  Filter(reads, {r \in Entries(reads) :
                        /\ ObservedAt[r] >= notBefore
                        /\ \A x \in Entries(reads) : ObservedAt[x] <= ObservedAt[r] + Window})

Add(ws, e, notBefore) ==
    Bounded(Append(DropWindow(ws, EpcOf[e]),
                   [epc |-> EpcOf[e], reads |-> Retained(ws, e, notBefore)]),
            MaxEpcs)

Checkpoint(m, e) ==
    [known |-> e \in Entries(m.ids),
     oldestId |-> Oldest(m.ids),
     window |-> WindowFor(m.windows, EpcOf[e]),
     oldestWindow |-> Oldest(m.windows)]

\* Assignment to an existing key keeps its place in the order.
PutWindow(ws, w) ==
    IF WindowFor(ws, w.epc) = {} THEN Append(ws, w)
    ELSE [i \in DOMAIN ws |-> IF ws[i].epc = w.epc THEN w ELSE ws[i]]

\* Mutant: the ids are left as the failed attempt changed them.
KeepIds(ids, e, saved) == ids

RestoreIds(ids, e, saved) ==
    LET back == IF saved.known /\ e \notin Entries(ids) THEN <<e>> ELSE <<>>
        gone == Entries(saved.oldestId) \cup (IF saved.known THEN {} ELSE {e})
    IN  saved.oldestId \o Filter(ids \o back, Event \ gone)

\* Mutants: the windows are left as they are; an evicted window is not restored.
KeepWindows(ws, e, saved) == ws

RestoreOwnWindow(ws, e, saved) ==
    IF saved.window = {} THEN DropWindow(ws, EpcOf[e])
    ELSE PutWindow(ws, The(saved.window))

RestoreWindows(ws, e, saved) ==
    LET own == IF saved.window = {} THEN ws ELSE PutWindow(ws, The(saved.window))
        gone == {w.epc : w \in Entries(saved.oldestWindow)}
                    \cup (IF saved.window = {} THEN {EpcOf[e]} ELSE {})
    IN  saved.oldestWindow \o Filter(own, {w \in Entries(own) : w.epc \notin gone})

\* The memory after the transaction that processed e is rolled back.
Restore(m, e, saved) ==
    [ids |-> RestoreIds(m.ids, e, saved),
     windows |-> RestoreWindows(m.windows, e, saved)]

\* What a memory holds, its eviction order aside.
Contents(m) == [ids |-> Entries(m.ids), windows |-> Entries(m.windows)]

-----------------------------------------------------------------------------
(* infer_stable_zone. Signal strength is abstracted: between zones with the *)
(* same number of reads it names one of them or, when the medians are close,*)
(* none, whatever it named before.                                          *)

ReadsAt(reads, z) == {i \in DOMAIN reads : ZoneOf[reads[i]] = z}
ReadCount(reads, z) == Cardinality(ReadsAt(reads, z))

Leading(reads) ==
    {z \in Zone : \A y \in Zone : ReadCount(reads, y) <= ReadCount(reads, z)}

StableZones(reads) ==
    LET lead == Leading(reads)
    IN  IF \E z \in lead : ReadCount(reads, z) < ConfirmationReads THEN {NoZone}
        ELSE lead \cup (IF Cardinality(lead) > 1 THEN {NoZone} ELSE {})

\* decision.observed_at
DecidedAt(reads, z) == Latest({ObservedAt[reads[i]] : i \in ReadsAt(reads, z)})

=============================================================================
