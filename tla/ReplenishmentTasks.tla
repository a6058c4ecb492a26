------------------------- MODULE ReplenishmentTasks -------------------------
(***************************************************************************)
(* The replenishment tasks of one SKU in one store: the evaluation that    *)
(* opens a task or lets an open one grow, the pickers and managers who move*)
(* it through its lifecycle, and the event worker that attributes confirmed*)
(* backroom-to-floor moves to it.                                          *)
(*                                                                         *)
(* An evaluation reads the projection before it locks the task rows, and a *)
(* PATCH checks the task it reads before its compare-and-set UPDATE: both  *)
(* are two actions. The UPDATE compares with the version the client sent,  *)
(* any number from 1, which is never compared with the row that was read:  *)
(* if it is ahead of that row, the UPDATE takes effect on a row that was   *)
(* not checked. The history variable guesses counts these, and the         *)
(* properties tell such an UPDATE from all others. The store's row lock    *)
(* admits one evaluation at a time.                                        *)
(***************************************************************************)
EXTENDS Integers, FiniteSets

CONSTANTS
    Task,           \* task ids, naturals: ids break ties; bounds the tasks opened
    User,
    Manager,        \* users with REPLENISHMENT_MANAGE in the store
    NoUser,
    Guessing,       \* users whose requests may be ahead of the row; bounds the inputs
    Move,           \* transition ids of confirmed backroom-to-floor moves
    NoTask,
    MinFloor,       \* min_floor_qty and target_floor_qty of the selected rule
    TargetFloor,
    MaxStock,       \* bound on the projected quantities
    VerificationWindow, \* settings.replenishment_verification_window_seconds
    MaxFutureSkew,  \* settings.rfid_max_future_skew_seconds
    MaxTime,        \* bound on the clock
    MaxVersion,     \* bound on a task's optimistic version
    MaxAhead        \* bound on how far a request's version is ahead of the row

ASSUME TaskAssumption ==
    /\ Task \subseteq Nat /\ IsFiniteSet(Task) /\ IsFiniteSet(Move)
    /\ NoTask \notin Task
ASSUME UserAssumption ==
    Manager \subseteq User /\ Guessing \subseteq User /\ NoUser \notin User
ASSUME RuleAssumption ==
    /\ MinFloor \in Nat /\ TargetFloor \in Nat /\ MaxStock \in Nat
    /\ VerificationWindow \in Nat /\ MaxFutureSkew \in Nat
    /\ MaxTime \in Nat /\ MaxVersion \in Nat \ {0} /\ MaxAhead \in Nat

Active == {"OPEN", "CLAIMED", "IN_PROGRESS"}
Status == Active \cup {"COMPLETED", "CANCELED", "EXPIRED"}
Never == -1

VARIABLES
    task,       \* replenishment_tasks
    evidence,   \* replenishment_task_evidence: the task a move verifies
    movedAt,    \* observed_at of the moves that verify a task
    evaluation, \* what the running evaluation read, or {}
    patch,      \* per user the PATCH between its read and its UPDATE, or {}
    guesses,    \* history: per task, its UPDATEs by a version ahead of the row read
    clock

vars == <<task, evidence, movedAt, evaluation, patch, guesses, clock>>

NoRow == [status |-> "none", quantity |-> 0, version |-> 0, verified |-> 0,
          claimant |-> NoUser, started |-> Never, deadline |-> Never]

TaskRow == [status: Status \cup {"none"}, quantity: Nat, version: 0..MaxVersion,
            verified: Nat, claimant: User \cup {NoUser},
            started: Nat \cup {Never}, deadline: Nat \cup {Never}]

Snapshot == [floor: 0..MaxStock, back: 0..MaxStock]

\* version is the client's; read and quantity are those of the row that was read
Patch == [id: Task, version: 1..MaxVersion, to: Status, at: 0..MaxTime,
          read: 0..MaxVersion, quantity: Nat]

\* observed_at of an event that is not quarantined as too far in the future
ObservedAt == 0..(MaxTime + MaxFutureSkew)

TypeOK ==
    /\ task \in [Task -> TaskRow]
    /\ evidence \in [Move -> Task \cup {NoTask}]
    /\ movedAt \in [Move -> ObservedAt \cup {Never}]
    /\ evaluation \subseteq Snapshot /\ \A r, s \in evaluation : r = s
    /\ patch \in [User -> SUBSET Patch]
    /\ \A u \in User : \A p, q \in patch[u] : p = q
    /\ guesses \in [Task -> Nat]
    /\ clock \in 0..MaxTime

Init ==
    /\ task = [t \in Task |-> NoRow]
    /\ evidence = [m \in Move |-> NoTask]
    /\ movedAt = [m \in Move |-> Never]
    /\ evaluation = {}
    /\ patch = [u \in User |-> {}]
    /\ guesses = [t \in Task |-> 0]
    /\ clock = 0

ActiveTasks == {t \in Task : task[t].status \in Active}

-----------------------------------------------------------------------------
(* evaluate_replenishment.                                                  *)

\* calculate_replenishment_quantity
Required(floor, back, open) ==
    LET short == TargetFloor - floor - open
    IN  IF floor >= MinFloor \/ short <= 0 THEN 0
        ELSE IF back <= short THEN back ELSE short

\* The store is locked and LIVE, a rule matches, and the projection is read with
\* sufficient confidence and shows a shortage. Every other answer changes nothing.
EvaluationReads(floor, back) ==
    /\ evaluation = {}
    /\ Required(floor, back, 0) > 0
    /\ evaluation' = {[floor |-> floor, back |-> back]}
    /\ UNCHANGED <<task, evidence, movedAt, patch, guesses, clock>>

\* Mutant: the version of a task that grows stays the same.
GrownSilently(row, quantity) == [row EXCEPT !.quantity = @ + quantity]

Grown(row, quantity) ==
    [row EXCEPT !.quantity = @ + quantity, !.version = @ + 1]

Opened(quantity) ==
    [NoRow EXCEPT !.status = "OPEN", !.quantity = quantity, !.version = 1]

HasActiveTask == ActiveTasks # {}

\* The active task is locked; the result depends on what it is now. A task that
\* is claimed or in progress is left alone and its shortage deferred.
EvaluationCommits ==
    \E s \in evaluation :
        /\ evaluation' = {}
        /\ IF HasActiveTask
           THEN \E t \in ActiveTasks :
                    LET more == Required(s.floor, s.back, task[t].quantity) IN
                    IF task[t].status = "OPEN" /\ more > 0
                    THEN /\ task[t].version < MaxVersion
                         /\ task' = [task EXCEPT ![t] = Grown(@, more)]
                    ELSE UNCHANGED task
           ELSE LET quantity == Required(s.floor, s.back, 0) IN
                IF quantity > 0
                THEN \E t \in Task : /\ task[t] = NoRow
                                     /\ task' = [task EXCEPT ![t] = Opened(quantity)]
                ELSE UNCHANGED task
        /\ UNCHANGED <<evidence, movedAt, patch, guesses, clock>>

-----------------------------------------------------------------------------
(* patch_replenishment_task.                                                *)

Advance == {<<"OPEN", "CLAIMED">>, <<"CLAIMED", "IN_PROGRESS">>,
            <<"IN_PROGRESS", "COMPLETED">>}

MayPatch(u, row, to) ==
    /\ \/ <<row.status, to>> \in Advance
       \/ to \in {"CANCELED", "EXPIRED"} /\ u \in Manager /\ row.status \in Active
    /\ row.status \in {"CLAIMED", "IN_PROGRESS"} => row.claimant = u \/ u \in Manager

\* The row is read and the request checked against it; the version in the request is
\* not. One older than the row conflicts whatever happens next, and is left out.
PatchReads(u, t, to, ahead) ==
    /\ patch[u] = {}
    /\ MayPatch(u, task[t], to)
    /\ ahead > 0 => u \in Guessing
    /\ task[t].version + ahead <= MaxVersion
    /\ patch' = [patch EXCEPT ![u] = {[id |-> t, version |-> task[t].version + ahead,
                                       to |-> to, at |-> clock,
                                       read |-> task[t].version,
                                       quantity |-> task[t].quantity]}]
    /\ UNCHANGED <<task, evidence, movedAt, evaluation, guesses, clock>>

\* Mutant: the version is incremented by the UPDATE and by its caller.
PatchedTwice(row, u, p) ==
    [row EXCEPT !.status = p.to,
                !.version = p.version + 2,
                !.claimant = IF p.to = "CLAIMED" THEN u ELSE @,
                !.started = IF p.to = "IN_PROGRESS" THEN p.at ELSE @,
                !.deadline = IF p.to = "COMPLETED" THEN p.at + VerificationWindow ELSE @]

Patched(row, u, p) ==
    [row EXCEPT !.status = p.to,
                !.version = p.version + 1,
                !.claimant = IF p.to = "CLAIMED" THEN u ELSE @,
                !.started = IF p.to = "IN_PROGRESS" THEN p.at ELSE @,
                !.deadline = IF p.to = "COMPLETED" THEN p.at + VerificationWindow ELSE @]

\* Mutant: the UPDATE selects the row by its id alone.
VersionMatchesById(p) == TRUE

\* The WHERE clause of the UPDATE.
VersionMatches(p) == task[p.id].version = p.version

\* The partial unique index on active tasks.
IndexAllows(p) == p.to \in Active => ActiveTasks \subseteq {p.id}

IsGuess(p) == p.version > p.read

PatchCommits(u) ==
    \E p \in patch[u] :
        /\ VersionMatches(p) /\ IndexAllows(p)
        /\ p.version < MaxVersion
        /\ task' = [task EXCEPT ![p.id] = Patched(@, u, p)]
        /\ patch' = [patch EXCEPT ![u] = {}]
        /\ guesses' = IF IsGuess(p) THEN [guesses EXCEPT ![p.id] = @ + 1] ELSE guesses
        /\ UNCHANGED <<evidence, movedAt, evaluation, clock>>

\* task_version_conflict, or an IntegrityError: nothing is written.
PatchConflicts(u) ==
    \E p \in patch[u] :
        /\ ~(VersionMatches(p) /\ IndexAllows(p))
        /\ patch' = [patch EXCEPT ![u] = {}]
        /\ UNCHANGED <<task, evidence, movedAt, evaluation, guesses, clock>>

-----------------------------------------------------------------------------
(* _attribute_replenishment_move, called for a confirmed move from a        *)
(* backroom to a sales floor zone of the store.                             *)

\* Mutant: a completed task takes evidence from after its window.
CandidateLate(row, at) ==
    /\ row.started # Never /\ row.started <= at
    /\ row.verified < row.quantity
    /\ row.status \in {"IN_PROGRESS", "COMPLETED"}

Candidate(row, at) ==
    /\ row.started # Never /\ row.started <= at
    /\ row.verified < row.quantity
    /\ \/ row.status = "IN_PROGRESS"
       \/ row.status = "COMPLETED" /\ row.deadline >= at

\* The ORDER BY: a task in progress first, then the latest started.
Preferred(t, u) ==
    \/ task[t].status = "IN_PROGRESS" /\ task[u].status # "IN_PROGRESS"
    \/ /\ task[t].status = "IN_PROGRESS" <=> task[u].status = "IN_PROGRESS"
       /\ \/ task[t].started > task[u].started
          \/ task[t].started = task[u].started /\ t >= u

Chosen(at) ==
    LET candidates == {t \in Task : Candidate(task[t], at)}
    IN  {t \in candidates : \A u \in candidates : Preferred(t, u)}

Smaller(a, b) == IF a <= b THEN a ELSE b

\* One transaction of the worker; the observation may be older than the clock, or
\* ahead of it by the skew that process_observation accepts. A move without a
\* candidate changes no task.
MoveConfirmed(m, at) ==
    /\ evidence[m] = NoTask
    /\ at <= clock + MaxFutureSkew
    /\ \E t \in Chosen(at) :
            /\ task[t].version < MaxVersion
            /\ evidence' = [evidence EXCEPT ![m] = t]
            /\ movedAt' = [movedAt EXCEPT ![m] = at]
            /\ task' = [task EXCEPT
                    ![t].verified = Smaller(task[t].quantity, @ + 1),
                    ![t].version = @ + 1]
    /\ UNCHANGED <<evaluation, patch, guesses, clock>>

Tick ==
    /\ clock < MaxTime
    /\ clock' = clock + 1
    /\ UNCHANGED <<task, evidence, movedAt, evaluation, patch, guesses>>

-----------------------------------------------------------------------------
Next ==
    \/ \E f, b \in 0..MaxStock : EvaluationReads(f, b)
    \/ EvaluationCommits
    \/ \E u \in User, t \in Task, to \in Status, ahead \in 0..MaxAhead :
            PatchReads(u, t, to, ahead)
    \/ \E u \in User : PatchCommits(u) \/ PatchConflicts(u)
    \/ \E m \in Move, at \in ObservedAt : MoveConfirmed(m, at)
    \/ Tick

Spec == Init /\ [][Next]_vars

-----------------------------------------------------------------------------
(* Properties.                                                              *)

\* What the board shows of a row on which n guesses took effect.
Shown(row, n) == [status |-> row.status, quantity |-> row.quantity,
                  claimant |-> row.claimant, overruled |-> n]

shown == [t \in Task |-> Shown(task[t], guesses[t])]

Board == INSTANCE TaskBoard WITH board <- shown

\* Evaluations that decide on stock they read before the lock and patches that
\* decide on a row they read before their compare-and-set are steps of the board:
\* at most one task is active, none asks for more than the target, each moves
\* along its lifecycle, and a claim is not taken over, but by a PATCH whose version
\* is ahead of the row it was checked against. Such a PATCH overrules the lifecycle
\* of its task; it still leaves one active task and every quantity as it was.
ImplementsTaskBoard == Board!Spec

\* A task counts exactly the moves recorded as its evidence, never more than it
\* asks for, whatever patches and evaluations run beside the worker. If no guess
\* took effect on it, each move was observed after the task was started and, once
\* it is completed, before its deadline, or at most the accepted skew after its
\* completion: the clock of a reader may be ahead of the server's, and a task in
\* progress takes its word. With a window no shorter than the skew (the defaults
\* are 900 and 300 seconds) that is before the deadline too.
VerifiedByEvidence ==
    \A t \in Task :
        LET moves == {m \in Move : evidence[m] = t}
        IN  /\ task[t].verified = Cardinality(moves)
            /\ task[t].verified <= task[t].quantity
            /\ guesses[t] = 0 => \A m \in moves :
                /\ task[t].started # Never /\ task[t].started <= movedAt[m]
                /\ task[t].deadline # Never =>
                        \/ movedAt[m] <= task[t].deadline
                        \/ movedAt[m] + VerificationWindow <= task[t].deadline + MaxFutureSkew

\* A picker claims an open task, with the quantity it had when the claim was checked
\* ("make a concurrent claim fail its optimistic compare-and-set"), unless the claim
\* came with a version ahead of the row; and the quantity changes only before a
\* task is claimed, even then.
ClaimsWhatWasSeen ==
    [][\A t \in Task :
        /\ (task'[t].status = "CLAIMED" /\ task'[t] # task[t] /\ guesses'[t] = guesses[t]) =>
                /\ task[t].status = "OPEN"
                /\ \E p \in patch[task'[t].claimant] :
                        p.id = t /\ p.quantity = task'[t].quantity
        /\ task[t].quantity # task'[t].quantity =>
                task[t].status \in {"none", "OPEN"}]_vars

=============================================================================
