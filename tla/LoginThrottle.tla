---------------------------- MODULE LoginThrottle ----------------------------
(***************************************************************************)
(* The process-local fixed-window throttle of logins: a bounded table of   *)
(* windows, one per source address and one per account, in which the       *)
(* threads of the API reserve an attempt and finish it when the login is   *)
(* decided.                                                                *)
(*                                                                         *)
(* begin_attempt reads the clock before it takes the lock, so a thread may *)
(* work with a time that is older than what others have written: its lag.  *)
(* Times are kept as ages, which makes the clock unbounded; an age beyond  *)
(* Window + MaxLag is expired for every thread and is not told apart.      *)
(***************************************************************************)
EXTENDS Integers, FiniteSets

CONSTANTS
    Ip, Account,        \* source addresses and accounts, normalised
    Thread,             \* threads serving POST /v1/auth/login
    Window,             \* window_seconds
    IpLimit, AccountLimit,
    MaxEntries,
    MaxLag              \* bound on the time between clock and lock

ASSUME SettingsAssumption ==
    /\ Window \in Nat \ {0} /\ IpLimit \in Nat \ {0} /\ AccountLimit \in Nat \ {0}
    /\ MaxEntries \in Nat \ {0, 1} /\ MaxLag \in Nat
ASSUME ThreadAssumption ==
    IsFiniteSet(Thread) /\ IsFiniteSet(Ip \cup Account) /\ Ip \cap Account = {}

Key == Ip \cup Account
Limit(k) == IF k \in Ip THEN IpLimit ELSE AccountLimit
Oldest == Window + MaxLag

\* A window has an identity: a reservation refers to the object, not to its key.
\* Ids are reused once nothing refers to them; a key of the table and a key of a
\* thread refer to one each.
WindowId == 1..(Cardinality(Key) + Cardinality(Thread \X Key))

VARIABLES
    entries,    \* _entries; "kept" is history: the finished attempts it retains
    thread      \* what each thread is doing

vars == <<entries, thread>>

NoWindow == [id |-> 0, age |-> 0, attempts |-> 0, kept |-> 0]
Idle == [pc |-> "idle", lag |-> 0, windows |-> [k \in {} |-> 0]]

TypeOK ==
    /\ entries \in [Key -> [id: WindowId \cup {0}, age: 0..Oldest, attempts: Nat,
                         kept: Nat]]
    /\ thread \in [Thread -> [pc: {"idle", "clocked", "reserved"}, lag: 0..MaxLag,
                     windows: UNION {[keys -> WindowId \cup {0}] : keys \in SUBSET Key}]]

Init ==
    /\ entries = [k \in Key |-> NoWindow]
    /\ thread = [t \in Thread |-> Idle]

-----------------------------------------------------------------------------
(* begin_attempt.                                                           *)

Used(e) == {k \in Key : e[k] # NoWindow}

\* _active_window and _remove_expired_windows: entries without the expired ones
\* among keys, at the thread's time.
Without(keys, lag) ==
    [k \in Key |-> IF k \in keys /\ entries[k] # NoWindow /\ entries[k].age - lag >= Window
                   THEN NoWindow ELSE entries[k]]

\* Mutant: a thread that creates both windows is counted once.
FitsByOne(e, keys) ==
    Cardinality(Used(e)) + (IF keys \subseteq Used(e) THEN 0 ELSE 1) <= MaxEntries

Fits(e, keys) == Cardinality(Used(e) \cup keys) <= MaxEntries

Exhausted(e, keys) == \E k \in keys : e[k] # NoWindow /\ e[k].attempts >= Limit(k)

\* Ids nothing refers to.
FreeIds(e) ==
    WindowId \ ({e[k].id : k \in Key}
                \cup UNION {{thread[t].windows[k] : k \in DOMAIN thread[t].windows}
                            : t \in Thread})

NewId(e) == CHOOSE w \in FreeIds(e) : TRUE

\* _new_window for a key that has none, then attempts += 1.
Reserved(e, k, lag) ==
    IF e[k] = NoWindow
    THEN [e EXCEPT ![k] = [NoWindow EXCEPT !.id = NewId(e), !.age = lag, !.attempts = 1]]
    ELSE [e EXCEPT ![k].attempts = @ + 1]

ReadsClock(t, ip, account) ==
    /\ thread[t] = Idle
    /\ thread' = [thread EXCEPT ![t] = [pc |-> "clocked", lag |-> 0,
                                        windows |-> [k \in {ip, account} |-> 0]]]
    /\ UNCHANGED entries

\* The locked part: 429 when a budget is used up or there is no room even after
\* the expired windows are removed, otherwise both budgets are reserved.
BeginAttempt(t) ==
    LET keys == DOMAIN thread[t].windows
        lag == thread[t].lag
        near == Without(keys, lag)
        room == IF Fits(near, keys) THEN near ELSE Without(Key, lag)
        ip == CHOOSE k \in keys : k \in Ip
        account == CHOOSE k \in keys : k \in Account
        both == Reserved(Reserved(room, ip, lag), account, lag)
    IN
    /\ thread[t].pc = "clocked"
    /\ \/ /\ Exhausted(near, keys)
          /\ entries' = near
          /\ thread' = [thread EXCEPT ![t] = Idle]
       \/ /\ ~Exhausted(near, keys) /\ ~Fits(room, keys)
          /\ entries' = room
          /\ thread' = [thread EXCEPT ![t] = Idle]
       \/ /\ ~Exhausted(near, keys) /\ Fits(room, keys)
          /\ entries' = both
          /\ thread' = [thread EXCEPT ![t] =
                [pc |-> "reserved", lag |-> 0, windows |-> [k \in keys |-> both[k].id]]]

-----------------------------------------------------------------------------
(* finish_attempt, with the outcome login_endpoint gives it.                *)

Outcome == {"SUCCESS", "AUTHENTICATION_FAILED", "ABORTED"}

Retains(outcome, k) ==
    \/ k \in Ip /\ outcome \in {"SUCCESS", "AUTHENTICATION_FAILED"}
    \/ k \in Account /\ outcome = "AUTHENTICATION_FAILED"

\* Mutant: the attempt is returned to whatever window the key has now.
IsSameWindowByKey(t, k) == entries[k] # NoWindow

\* self._entries.get(key) is window
IsSameWindow(t, k) == entries[k].id = thread[t].windows[k]

Returned(w) == IF w.attempts = 1 THEN NoWindow ELSE [w EXCEPT !.attempts = @ - 1]

FinishAttempt(t, outcome) ==
    LET keys == DOMAIN thread[t].windows
        returns == {k \in keys : ~Retains(outcome, k) /\ IsSameWindow(t, k)}
        retained == {k \in keys : Retains(outcome, k)
                                  /\ entries[k].id = thread[t].windows[k]}
    IN
    /\ thread[t].pc = "reserved"
    /\ entries' = [k \in Key |-> IF k \in returns THEN Returned(entries[k])
                        ELSE IF k \in retained THEN [entries[k] EXCEPT !.kept = @ + 1]
                        ELSE entries[k]]
    /\ thread' = [thread EXCEPT ![t] = Idle]

\* One second. A thread holds a time of at most MaxLag seconds ago.
Tick ==
    /\ \A t \in Thread : thread[t].pc = "clocked" => thread[t].lag < MaxLag
    /\ entries' = [k \in Key |-> IF entries[k] = NoWindow \/ entries[k].age = Oldest
                        THEN entries[k] ELSE [entries[k] EXCEPT !.age = @ + 1]]
    /\ thread' = [t \in Thread |-> IF thread[t].pc = "clocked"
                        THEN [thread[t] EXCEPT !.lag = @ + 1] ELSE thread[t]]

Next ==
    \/ \E t \in Thread :
        \/ \E i \in Ip, a \in Account : ReadsClock(t, i, a)
        \/ BeginAttempt(t)
        \/ \E o \in Outcome : FinishAttempt(t, o)
    \/ Tick

Spec == Init /\ [][Next]_vars

-----------------------------------------------------------------------------
(* Properties.                                                              *)

Holders(k) == {t \in Thread : thread[t].pc = "reserved" /\ k \in DOMAIN thread[t].windows
                              /\ thread[t].windows[k] = entries[k].id}

\* A window counts the attempts in flight that reserved it and the finished ones
\* its budget retains, no others, and never more than the limit: an attempt that
\* outlives its window is not returned to the next one.
CountersAreExact ==
    \A k \in Used(entries) :
        /\ entries[k].attempts = Cardinality(Holders(k)) + entries[k].kept
        /\ entries[k].attempts \in 1..Limit(k)

\* The table never grows beyond max_entries, whichever threads add to it.
TableIsBounded == Cardinality(Used(entries)) <= MaxEntries

=============================================================================
