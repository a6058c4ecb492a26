---------------------- MODULE ReplenishmentTasksProofs ----------------------
(***************************************************************************)
(* Proofs about ReplenishmentTasks for every set of tasks, users and moves,*)
(* every rule and every bound, whoever sends versions ahead of a row: the  *)
(* tasks implement TaskBoard, and a task is verified by the evidence of its*)
(* own time.                                                               *)
(*                                                                         *)
(* Everything rests on the version of a row: it grows with every change of *)
(* the row, so what a PATCH has read and decided still stands as long as   *)
(* the row has the version it read. An UPDATE by another version is a      *)
(* guess, and overrules the task.                                          *)
(***************************************************************************)
EXTENDS ReplenishmentTasks, FiniteSetTheorems, TLAPS

\* What a patch between its read and its UPDATE knows, if the row it read is current.
PatchStands(u, p) ==
    /\ p.to \in Board!Requested
    /\ p.read <= p.version /\ p.read <= task[p.id].version
    /\ p.read = task[p.id].version =>
        /\ MayPatch(u, task[p.id], p.to)
        /\ p.quantity = task[p.id].quantity

\* A row has a version from the time it exists, and no guess takes effect before.
RowsExist ==
    \A t \in Task :
        /\ task[t].status = "none" <=> task[t].version = 0
        /\ task[t].version = 0 => guesses[t] = 0

ReadsStand == \A u \in User : \A p \in patch[u] : PatchStands(u, p)

Evidence(t) == {m \in Move : evidence[m] = t}

\* A task without a guess has no start before it is started and no deadline before
\* it is completed.
TimesFollowStatus ==
    \A t \in Task : guesses[t] = 0 =>
        /\ task[t].status \in {"none", "OPEN", "CLAIMED"} => task[t].started = Never
        /\ task[t].status # "COMPLETED" => task[t].deadline = Never

\* Moves are observed no further ahead than the skew of the time they are recorded,
\* those of a task of the time of a patch that has seen its current row.
MovesWereSeen ==
    \A m \in Move :
        evidence[m] # NoTask =>
            /\ movedAt[m] <= clock + MaxFutureSkew
            /\ \A u \in User : \A p \in patch[u] :
                (p.id = evidence[m] /\ p.read = task[p.id].version)
                    => movedAt[m] <= p.at + MaxFutureSkew

\* A move observed at a time, for a task with a start and a deadline.
InTime(at, started, deadline) ==
    /\ started # Never /\ started <= at
    /\ deadline # Never =>
            \/ at <= deadline
            \/ at + VerificationWindow <= deadline + MaxFutureSkew

\* VerifiedByEvidence for one task.
TaskVerified(t) ==
    /\ task[t].verified = Cardinality(Evidence(t))
    /\ task[t].verified <= task[t].quantity
    /\ guesses[t] = 0 => \A m \in Evidence(t) :
            InTime(movedAt[m], task[t].started, task[t].deadline)

BoardInv == TypeOK /\ RowsExist /\ ReadsStand
EvidenceInv == BoardInv /\ TimesFollowStatus /\ MovesWereSeen /\ VerifiedByEvidence

-----------------------------------------------------------------------------
(* Lemmas about the rows.                                                   *)

\* A row that is opened, grows or is patched stays a row.
LEMMA OpenedRow ==
    ASSUME NEW n \in Nat
    PROVE  /\ Opened(n) \in TaskRow
           /\ Opened(n).status = "OPEN" /\ Opened(n).quantity = n
           /\ Opened(n).version = 1 /\ Opened(n).verified = 0
           /\ Opened(n).claimant = NoUser
           /\ Opened(n).started = Never /\ Opened(n).deadline = Never
<1>1. Opened(n) \in [status: {"OPEN"}, quantity: Nat, version: {1}, verified: {0},
                      claimant: {NoUser}, started: {Never}, deadline: {Never}]
    BY DEF Opened, NoRow
<1>2. Opened(n) \in TaskRow
    <2> HIDE DEF Opened
    <2>1. /\ {"OPEN"} \subseteq Status \cup {"none"} /\ {1} \subseteq 0..MaxVersion
          /\ {NoUser} \subseteq User \cup {NoUser} /\ {Never} \subseteq Nat \cup {Never}
          /\ {0} \subseteq Nat
        BY RuleAssumption DEF Status, Active
    <2> QED BY <1>1, <2>1 DEF TaskRow
<1> QED BY <1>2 DEF Opened, NoRow

LEMMA GrownRow ==
    ASSUME NEW row \in TaskRow, NEW n \in Nat, row.version < MaxVersion
    PROVE  /\ Grown(row, n) \in TaskRow
           /\ Grown(row, n).quantity = row.quantity + n
           /\ Grown(row, n).version = row.version + 1
           /\ Grown(row, n).status = row.status
           /\ Grown(row, n).verified = row.verified
           /\ Grown(row, n).claimant = row.claimant
           /\ Grown(row, n).started = row.started
           /\ Grown(row, n).deadline = row.deadline
<1> DEFINE r1 == [row EXCEPT !.quantity = row.quantity + n]
<1>1. r1 \in TaskRow /\ r1.version = row.version
    BY DEF TaskRow
<1>2. Grown(row, n) = [r1 EXCEPT !.version = row.version + 1]
    BY DEF Grown, TaskRow
<1>3. row.version + 1 \in 0..MaxVersion
    BY RuleAssumption DEF TaskRow
<1> HIDE DEF r1
<1>4. Grown(row, n) \in TaskRow
    BY <1>1, <1>2, <1>3 DEF TaskRow
<1> QED BY <1>4 DEF Grown, TaskRow

LEMMA RowWithTimes ==
    ASSUME NEW row \in TaskRow, NEW at \in Nat \cup {Never}
    PROVE  /\ [row EXCEPT !.started = at] \in TaskRow
           /\ [row EXCEPT !.deadline = at] \in TaskRow
    BY DEF TaskRow

LEMMA PatchedRow ==
    ASSUME NEW row \in TaskRow, NEW u \in User, NEW p \in Patch, p.version < MaxVersion
    PROVE  /\ Patched(row, u, p) \in TaskRow
           /\ Patched(row, u, p).status = p.to
           /\ Patched(row, u, p).version = p.version + 1
           /\ Patched(row, u, p).quantity = row.quantity
           /\ Patched(row, u, p).verified = row.verified
           /\ Patched(row, u, p).claimant = IF p.to = "CLAIMED" THEN u ELSE row.claimant
           /\ Patched(row, u, p).started =
                    IF p.to = "IN_PROGRESS" THEN p.at ELSE row.started
           /\ Patched(row, u, p).deadline =
                    IF p.to = "COMPLETED" THEN p.at + VerificationWindow ELSE row.deadline
<1> DEFINE r1 == [row EXCEPT !.status = p.to]
           r2 == [r1 EXCEPT !.version = p.version + 1]
           r3 == [r2 EXCEPT !.claimant = IF p.to = "CLAIMED" THEN u ELSE row.claimant]
           r4 == [r3 EXCEPT !.started = IF p.to = "IN_PROGRESS" THEN p.at ELSE row.started]
           r5 == [r4 EXCEPT !.deadline = IF p.to = "COMPLETED" THEN p.at + VerificationWindow
                                         ELSE row.deadline]
<1>1. /\ p.to \in Status /\ p.version + 1 \in 0..MaxVersion /\ p.at \in Nat
      /\ p.at + VerificationWindow \in Nat
      /\ (IF p.to = "IN_PROGRESS" THEN p.at ELSE row.started) \in Nat \cup {Never}
      /\ (IF p.to = "COMPLETED" THEN p.at + VerificationWindow ELSE row.deadline)
            \in Nat \cup {Never}
    BY RuleAssumption DEF Patch, TaskRow
<1>2. r1 \in TaskRow
    BY <1>1 DEF TaskRow
<1>3. r2 \in TaskRow
    BY <1>1, <1>2 DEF TaskRow
<1>4. r3 \in TaskRow
    BY <1>3 DEF TaskRow
<1>5. r4 \in TaskRow
    BY <1>1, <1>4, RowWithTimes
<1>6. r5 \in TaskRow
    BY <1>1, <1>5, RowWithTimes
<1>7. Patched(row, u, p) = r5
    BY DEF Patched, TaskRow
<1>8. Patched(row, u, p) \in TaskRow
    BY <1>6, <1>7
<1> QED BY <1>8 DEF Patched, TaskRow

\* What is missing never takes a task beyond the target.
LEMMA RequiredBound ==
    ASSUME NEW floor \in 0..MaxStock, NEW back \in 0..MaxStock, NEW open \in Nat
    PROVE  /\ Required(floor, back, open) \in Nat
           /\ Required(floor, back, open) > 0
                => open + Required(floor, back, open) <= TargetFloor
    BY RuleAssumption DEF Required

-----------------------------------------------------------------------------
(* Types, and what patches have read.                                       *)

\* The version of a row that grows is not 0.
LEMMA VersionGrows ==
    ASSUME TypeOK, NEW t \in Task, NEW row \in TaskRow, row.version > task[t].version
    PROVE  row.version # 0
    BY RuleAssumption DEF TypeOK, TaskRow

\* A patch survives a change of any row: the version of that row has grown.
LEMMA ReadsSurvive ==
    ASSUME BoardInv, NEW t \in Task, NEW row \in TaskRow, row.version > task[t].version,
           task' = [task EXCEPT ![t] = row],
           NEW u \in User, NEW p \in patch[u]
    PROVE  PatchStands(u, p)'
<1>1. /\ p \in Patch /\ p.id \in Task /\ p.read \in Int /\ row.version \in Int
      /\ task[p.id].version \in Int /\ task[t].version \in Int
    BY RuleAssumption DEF BoardInv, TypeOK, Patch, TaskRow
<1>2. PatchStands(u, p)
    BY DEF BoardInv, ReadsStand
<1>3. CASE p.id = t
    BY <1>1, <1>2, <1>3 DEF PatchStands, BoardInv, TypeOK
<1>4. CASE p.id # t
    <2>1. task'[p.id] = task[p.id]
        BY <1>1, <1>4 DEF BoardInv, TypeOK
    <2> QED BY <2>1, <1>2 DEF PatchStands, MayPatch
<1> QED BY <1>3, <1>4

LEMMA InitBoardInv == Init => BoardInv
<1> SUFFICES ASSUME Init PROVE BoardInv
    OBVIOUS
<1>1. NoRow \in TaskRow
    BY RuleAssumption DEF NoRow, TaskRow
<1>2. TypeOK
    BY <1>1, RuleAssumption DEF Init, TypeOK
<1> QED BY <1>2 DEF Init, BoardInv, ReadsStand, RowsExist, NoRow

\* An evaluation changes at most one row, to one with a new version.
LEMMA EvaluationChanges ==
    ASSUME BoardInv, EvaluationCommits
    PROVE  \/ UNCHANGED task
           \/ \E t \in Task, n \in 1..TargetFloor :
                /\ task[t].status = "OPEN" /\ task[t].version < MaxVersion
                /\ task' = [task EXCEPT ![t] = Grown(task[t], n)]
                /\ task[t].quantity + n <= TargetFloor
           \/ \E t \in Task, n \in 1..TargetFloor :
                /\ ActiveTasks = {} /\ task[t] = NoRow
                /\ task' = [task EXCEPT ![t] = Opened(n)]
<1>1. PICK s \in evaluation :
        IF HasActiveTask
        THEN \E t \in ActiveTasks :
                LET more == Required(s.floor, s.back, task[t].quantity) IN
                IF task[t].status = "OPEN" /\ more > 0
                THEN /\ task[t].version < MaxVersion
                     /\ task' = [task EXCEPT ![t] = Grown(@, more)]
                ELSE UNCHANGED task
        ELSE LET quantity == Required(s.floor, s.back, 0) IN
             IF quantity > 0
             THEN \E t \in Task : /\ task[t] = NoRow
                                  /\ task' = [task EXCEPT ![t] = Opened(quantity)]
             ELSE UNCHANGED task
    BY DEF EvaluationCommits
<1>2. s.floor \in 0..MaxStock /\ s.back \in 0..MaxStock
    BY DEF BoardInv, TypeOK, Snapshot
<1>3. CASE HasActiveTask
    <2>1. PICK t \in ActiveTasks :
                LET more == Required(s.floor, s.back, task[t].quantity) IN
                IF task[t].status = "OPEN" /\ more > 0
                THEN /\ task[t].version < MaxVersion
                     /\ task' = [task EXCEPT ![t] = Grown(@, more)]
                ELSE UNCHANGED task
        BY <1>1, <1>3
    <2> DEFINE more == Required(s.floor, s.back, task[t].quantity)
    <2>2. t \in Task /\ task[t].quantity \in Nat
        BY DEF ActiveTasks, BoardInv, TypeOK, TaskRow
    <2>3. more \in Nat /\ (more > 0 => task[t].quantity + more <= TargetFloor)
        BY <1>2, <2>2, RequiredBound
    <2>4. more > 0 => more \in 1..TargetFloor
        BY <2>2, <2>3, RuleAssumption
    <2>5. CASE task[t].status = "OPEN" /\ more > 0
        <3>1. /\ task[t].version < MaxVersion
              /\ task' = [task EXCEPT ![t] = Grown(task[t], more)]
            BY <2>1, <2>2, <2>5 DEF BoardInv, TypeOK
        <3> QED BY <2>2, <2>3, <2>4, <2>5, <3>1
    <2>6. CASE ~(task[t].status = "OPEN" /\ more > 0)
        BY <2>1, <2>6
    <2> QED BY <2>5, <2>6
<1>4. CASE ~HasActiveTask
    <2> DEFINE n == Required(s.floor, s.back, 0)
    <2>1. n \in Nat /\ (n > 0 => n <= TargetFloor)
        BY <1>2, RequiredBound
    <2>2. n > 0 => n \in 1..TargetFloor
        BY <2>1, RuleAssumption
    <2>3. ActiveTasks = {}
        BY <1>4 DEF HasActiveTask
    <2> QED BY <1>1, <1>4, <2>2, <2>3
<1> QED BY <1>3, <1>4

\* A recorded move counts one more of the moves a row asks for.
LEMMA MoveChanges ==
    ASSUME BoardInv, NEW m \in Move, NEW at \in ObservedAt, MoveConfirmed(m, at)
    PROVE  \E t \in Task, row \in TaskRow :
            /\ Candidate(task[t], at) /\ evidence[m] = NoTask
            /\ at <= clock + MaxFutureSkew /\ UNCHANGED guesses
            /\ task' = [task EXCEPT ![t] = row]
            /\ evidence' = [evidence EXCEPT ![m] = t]
            /\ movedAt' = [movedAt EXCEPT ![m] = at]
            /\ row.version = task[t].version + 1
            /\ row.verified = task[t].verified + 1 /\ row.verified <= row.quantity
            /\ \A n : Shown(row, n) = Shown(task[t], n)
            /\ row.status = task[t].status /\ row.quantity = task[t].quantity
            /\ row.started = task[t].started /\ row.deadline = task[t].deadline
<1>1. PICK t \in Chosen(at) :
        /\ task[t].version < MaxVersion
        /\ evidence' = [evidence EXCEPT ![m] = t]
        /\ movedAt' = [movedAt EXCEPT ![m] = at]
        /\ task' = [task EXCEPT ![t].verified = Smaller(task[t].quantity, @ + 1),
                                ![t].version = @ + 1]
    BY DEF MoveConfirmed
<1>2. t \in Task /\ Candidate(task[t], at)
    BY DEF Chosen
<1>3. task[t] \in TaskRow /\ task[t].verified \in Nat /\ task[t].quantity \in Nat
      /\ task[t].version \in 0..MaxVersion
    BY <1>2 DEF BoardInv, TypeOK, TaskRow
<1> DEFINE r1 == [task[t] EXCEPT !.verified = task[t].verified + 1]
           r2 == [r1 EXCEPT !.version = task[t].version + 1]
<1>4. Smaller(task[t].quantity, task[t].verified + 1) = task[t].verified + 1
      /\ task[t].verified + 1 <= task[t].quantity
    BY <1>2, <1>3 DEF Candidate, Smaller
<1>5. r1 \in TaskRow
    BY <1>3 DEF TaskRow
<1>6. task[t].version + 1 \in 0..MaxVersion
    BY <1>1, <1>3, RuleAssumption
<1>7. r2 \in TaskRow
    BY <1>5, <1>6 DEF TaskRow
<1>8. task' = [task EXCEPT ![t] = r2]
    BY <1>1, <1>2, <1>3, <1>4 DEF BoardInv, TypeOK, TaskRow
<1>9. /\ r2.version = task[t].version + 1 /\ r2.verified = task[t].verified + 1
      /\ r2.status = task[t].status /\ r2.quantity = task[t].quantity
      /\ r2.claimant = task[t].claimant
      /\ r2.started = task[t].started /\ r2.deadline = task[t].deadline
    BY <1>3 DEF TaskRow
<1>10. evidence[m] = NoTask /\ at <= clock + MaxFutureSkew /\ UNCHANGED guesses
    BY DEF MoveConfirmed
<1> HIDE DEF r1, r2
<1> QED BY <1>1, <1>2, <1>4, <1>7, <1>8, <1>9, <1>10 DEF Shown

\* Of the row a patch has read nothing has changed when its UPDATE finds the version
\* that was read; if it finds another one, that is counted as a guess.
LEMMA PatchChanges ==
    ASSUME BoardInv, NEW u \in User, PatchCommits(u)
    PROVE  \E p \in patch[u] :
            /\ p \in Patch /\ p.version < MaxVersion /\ p.version = task[p.id].version
            /\ p.to \in Board!Requested /\ task[p.id].status # "none"
            /\ task' = [task EXCEPT ![p.id] = Patched(task[p.id], u, p)]
            /\ patch' = [patch EXCEPT ![u] = {}]
            /\ IF IsGuess(p)
               THEN /\ IndexAllows(p)
                    /\ guesses' = [guesses EXCEPT ![p.id] = guesses[p.id] + 1]
               ELSE /\ MayPatch(u, task[p.id], p.to) /\ p.quantity = task[p.id].quantity
                    /\ UNCHANGED guesses
<1>1. PICK p \in patch[u] :
        /\ VersionMatches(p) /\ IndexAllows(p)
        /\ p.version < MaxVersion
        /\ task' = [task EXCEPT ![p.id] = Patched(@, u, p)]
        /\ patch' = [patch EXCEPT ![u] = {}]
        /\ guesses' = IF IsGuess(p) THEN [guesses EXCEPT ![p.id] = @ + 1] ELSE guesses
    BY DEF PatchCommits
<1>2. p \in Patch /\ p.id \in Task /\ PatchStands(u, p)
    BY DEF BoardInv, TypeOK, ReadsStand, Patch
<1>3. task' = [task EXCEPT ![p.id] = Patched(task[p.id], u, p)]
    BY <1>1, <1>2 DEF BoardInv, TypeOK
<1>4. p.version \in Int /\ p.read \in Int /\ p.version > 0
    BY <1>2, RuleAssumption DEF Patch
<1>5. task[p.id].status # "none"
    BY <1>1, <1>2, <1>4 DEF VersionMatches, BoardInv, RowsExist
<1>6. ~IsGuess(p) => MayPatch(u, task[p.id], p.to) /\ p.quantity = task[p.id].quantity
    BY <1>1, <1>2, <1>4 DEF IsGuess, VersionMatches, PatchStands
<1>7. IsGuess(p) => guesses' = [guesses EXCEPT ![p.id] = guesses[p.id] + 1]
    BY <1>1, <1>2 DEF BoardInv, TypeOK
<1> QED BY <1>1, <1>2, <1>3, <1>5, <1>6, <1>7 DEF VersionMatches, PatchStands

LEMMA NextBoardInv == BoardInv /\ [Next]_vars => BoardInv'
<1> SUFFICES ASSUME BoardInv, [Next]_vars PROVE BoardInv'
    OBVIOUS
<1> USE DEF BoardInv
<1>1. ASSUME NEW f \in 0..MaxStock, NEW b \in 0..MaxStock, EvaluationReads(f, b)
      PROVE  BoardInv'
    <2>1. TypeOK'
        BY <1>1 DEF EvaluationReads, TypeOK, Snapshot
    <2> QED BY <2>1, <1>1 DEF EvaluationReads, ReadsStand, PatchStands, RowsExist
<1>2. CASE EvaluationCommits
    <2>1. evaluation' = {} /\ UNCHANGED <<evidence, movedAt, patch, guesses, clock>>
        BY <1>2 DEF EvaluationCommits
    <2>2. CASE UNCHANGED task
        BY <2>1, <2>2 DEF TypeOK, ReadsStand, PatchStands, RowsExist
    <2>3. ASSUME NEW t \in Task, NEW row \in TaskRow, row.version > task[t].version,
                 row.status # "none", task' = [task EXCEPT ![t] = row]
          PROVE  BoardInv'
        <3>1. TypeOK'
            BY <2>1, <2>3 DEF TypeOK
        <3>2. ReadsStand'
            BY <2>1, <2>3, ReadsSurvive DEF ReadsStand
        <3>3. RowsExist'
            BY <2>1, <2>3, VersionGrows DEF TypeOK, RowsExist
        <3> QED BY <3>1, <3>2, <3>3
    <2>4. ASSUME NEW t \in Task, NEW n \in 1..TargetFloor, task[t].version < MaxVersion,
                 task[t].status = "OPEN",
                 task' = [task EXCEPT ![t] = Grown(task[t], n)]
          PROVE  BoardInv'
        <3>1. task[t] \in TaskRow /\ n \in Nat /\ task[t].version \in Int
            BY RuleAssumption DEF TypeOK, TaskRow
        <3>2. /\ Grown(task[t], n) \in TaskRow
              /\ Grown(task[t], n).version > task[t].version
              /\ Grown(task[t], n).status # "none"
            BY <2>4, <3>1, GrownRow
        <3> QED BY <2>3, <2>4, <3>2, Zenon
    <2>5. ASSUME NEW t \in Task, NEW n \in 1..TargetFloor, task[t] = NoRow,
                 task' = [task EXCEPT ![t] = Opened(n)]
          PROVE  BoardInv'
        <3>1. task[t].version = 0 /\ n \in Nat
            BY <2>5, RuleAssumption DEF NoRow
        <3>2. Opened(n) \in TaskRow /\ Opened(n).version > task[t].version
              /\ Opened(n).status # "none"
            BY <3>1, OpenedRow
        <3> QED BY <2>3, <2>5, <3>2, Zenon
    <2> QED BY <1>2, <2>2, <2>4, <2>5, EvaluationChanges
<1>3. ASSUME NEW u \in User, NEW t \in Task, NEW to \in Status,
             NEW ahead \in 0..MaxAhead, PatchReads(u, t, to, ahead)
      PROVE  BoardInv'
    <2> DEFINE p == [id |-> t, version |-> task[t].version + ahead, to |-> to,
                     at |-> clock, read |-> task[t].version, quantity |-> task[t].quantity]
    <2>1. patch' = [patch EXCEPT ![u] = {p}] /\ MayPatch(u, task[t], to)
          /\ UNCHANGED <<task, evidence, movedAt, evaluation, guesses, clock>>
          /\ task[t].version + ahead <= MaxVersion
        BY <1>3 DEF PatchReads
    <2>2. task[t] \in TaskRow /\ task[t].version \in 0..MaxVersion /\ ahead \in Nat
        BY RuleAssumption DEF TypeOK, TaskRow
    <2>3. task[t].version # 0
        <3>1. task[t].status # "none"
            BY <2>1 DEF MayPatch, Advance, Active
        <3> QED BY <3>1, <2>2 DEF RowsExist, ReadsStand, PatchStands, TypeOK
    <2>4. p \in Patch
        <3>1. task[t].version + ahead \in 1..MaxVersion
            BY <2>1, <2>2, <2>3, RuleAssumption
        <3> QED BY <2>2, <3>1 DEF TypeOK, TaskRow, Patch
    <2>5. p.id = t /\ p.read = task[t].version /\ p.to = to /\ p.quantity = task[t].quantity
          /\ p.read <= p.version
        BY <2>2, RuleAssumption
    <2>6. to \in Board!Requested
        BY <2>1 DEF MayPatch, Advance, Board!Requested
    <2> HIDE DEF p
    <2>7. TypeOK'
        BY <2>1, <2>4 DEF TypeOK
    <2>8. ASSUME NEW v \in User, NEW q \in patch'[v]
          PROVE  PatchStands(v, q)'
        <3>1. CASE v = u
            BY <2>1, <2>2, <2>5, <2>6, <3>1 DEF TypeOK, PatchStands, MayPatch
        <3>2. CASE v # u
            BY <2>1, <3>2 DEF TypeOK, ReadsStand, PatchStands, MayPatch
        <3> QED BY <3>1, <3>2
    <2>9. RowsExist'
        BY <2>1 DEF RowsExist
    <2> QED BY <2>7, <2>8, <2>9 DEF ReadsStand
<1>4. ASSUME NEW u \in User, PatchCommits(u)
      PROVE  BoardInv'
    <2>1. PICK p \in patch[u] :
            /\ p \in Patch /\ p.version < MaxVersion /\ p.version = task[p.id].version
            /\ p.to \in Board!Requested
            /\ task' = [task EXCEPT ![p.id] = Patched(task[p.id], u, p)]
            /\ patch' = [patch EXCEPT ![u] = {}]
            /\ guesses' = [guesses EXCEPT ![p.id] = guesses[p.id] + 1] \/ UNCHANGED guesses
        BY <1>4, PatchChanges
    <2>2. UNCHANGED <<evidence, movedAt, evaluation, clock>>
        BY <1>4 DEF PatchCommits
    <2> DEFINE row == Patched(task[p.id], u, p)
    <2>3. p.id \in Task /\ task[p.id] \in TaskRow /\ p.version \in Int
        BY <2>1, RuleAssumption DEF Patch, TypeOK
    <2>4. row \in TaskRow /\ row.version > task[p.id].version /\ row.status # "none"
        BY <2>1, <2>3, PatchedRow DEF Board!Requested
    <2> HIDE DEF row
    <2>5. task' = [task EXCEPT ![p.id] = row]
        BY <2>1 DEF row
    <2>6. TypeOK'
        BY <2>1, <2>2, <2>3, <2>4, <2>5 DEF TypeOK
    <2>7. ASSUME NEW v \in User, NEW q \in patch'[v]
          PROVE  q \in patch[v]
        BY <2>1, <2>7 DEF TypeOK
    <2>8. ReadsStand'
        BY <2>3, <2>4, <2>5, <2>7, ReadsSurvive DEF ReadsStand
    <2>9. RowsExist'
        BY <2>1, <2>3, <2>4, <2>5, VersionGrows DEF TypeOK, RowsExist
    <2> QED BY <2>6, <2>8, <2>9
<1>5. ASSUME NEW u \in User, PatchConflicts(u)
      PROVE  BoardInv'
    <2>1. patch' = [patch EXCEPT ![u] = {}]
          /\ UNCHANGED <<task, evidence, movedAt, evaluation, guesses, clock>>
        BY <1>5 DEF PatchConflicts
    <2>2. TypeOK'
        BY <2>1 DEF TypeOK
    <2>3. ASSUME NEW v \in User, NEW q \in patch'[v]
          PROVE  q \in patch[v]
        BY <2>1, <2>3 DEF TypeOK
    <2> QED BY <2>1, <2>2, <2>3 DEF ReadsStand, PatchStands, MayPatch, RowsExist
<1>6. ASSUME NEW m \in Move, NEW at \in ObservedAt, MoveConfirmed(m, at)
      PROVE  BoardInv'
    <2>1. PICK t \in Task, row \in TaskRow :
            /\ task' = [task EXCEPT ![t] = row]
            /\ evidence' = [evidence EXCEPT ![m] = t]
            /\ movedAt' = [movedAt EXCEPT ![m] = at]
            /\ row.version = task[t].version + 1
            /\ row.status = task[t].status /\ Candidate(task[t], at)
        BY <1>6, MoveChanges
    <2>2. UNCHANGED <<evaluation, patch, guesses, clock>>
        BY <1>6 DEF MoveConfirmed
    <2>3. row.version > task[t].version
        BY <2>1, RuleAssumption DEF TypeOK, TaskRow
    <2>4. TypeOK'
        BY <2>1, <2>2 DEF TypeOK
    <2>5. ReadsStand'
        BY <2>1, <2>2, <2>3, ReadsSurvive DEF ReadsStand
    <2>6. RowsExist'
        BY <2>1, <2>2, <2>3, VersionGrows DEF TypeOK, RowsExist, Candidate
    <2> QED BY <2>4, <2>5, <2>6
<1>7. CASE Tick
    <2>1. clock' \in 0..MaxTime
          /\ UNCHANGED <<task, evidence, movedAt, evaluation, patch, guesses>>
        BY <1>7, RuleAssumption DEF Tick, TypeOK
    <2>2. TypeOK'
        BY <2>1 DEF TypeOK
    <2> QED BY <2>1, <2>2 DEF ReadsStand, PatchStands, MayPatch, RowsExist
<1>8. CASE UNCHANGED vars
    BY <1>8 DEF vars, TypeOK, ReadsStand, PatchStands, MayPatch, RowsExist
<1> QED BY <1>1, <1>2, <1>3, <1>4, <1>5, <1>6, <1>7, <1>8 DEF Next

\* The rows, the patches and the evaluation keep their types.
THEOREM TypeCorrect == Spec => []TypeOK
<1>1. Spec => []BoardInv
    BY InitBoardInv, NextBoardInv, PTL DEF Spec
<1>2. BoardInv => TypeOK
    BY DEF BoardInv
<1> QED BY <1>1, <1>2, PTL

-----------------------------------------------------------------------------
(* The rows implement the board.                                            *)

LEMMA BoardRows ==
    /\ DOMAIN shown = Task /\ shown = [s \in Task |-> shown[s]]
    /\ \A t \in Task : shown[t] = Shown(task[t], guesses[t])
    BY DEF shown

\* The board changes where a row does.
LEMMA BoardChanges ==
    ASSUME BoardInv, NEW t \in Task, NEW row, task' = [task EXCEPT ![t] = row],
           UNCHANGED guesses
    PROVE  shown' = [shown EXCEPT ![t] = Shown(row, guesses[t])]
    BY DEF BoardInv, TypeOK, shown

\* Evaluation, by what it changes.
LEMMA EvaluationIsOnBoard ==
    ASSUME BoardInv, EvaluationCommits
    PROVE  [Board!Next]_shown
<1>0. UNCHANGED guesses
    BY DEF EvaluationCommits
<1>1. CASE UNCHANGED task
    BY <1>0, <1>1 DEF shown
<1>2. ASSUME NEW t \in Task, NEW n \in 1..TargetFloor,
             task[t].status = "OPEN", task[t].version < MaxVersion,
             task' = [task EXCEPT ![t] = Grown(task[t], n)],
             task[t].quantity + n <= TargetFloor
      PROVE  Board!Next
    <2>1. task[t] \in TaskRow /\ task[t].quantity \in Nat /\ n \in Nat \ {0}
        BY RuleAssumption DEF BoardInv, TypeOK, TaskRow
    <2> DEFINE row == Grown(task[t], n)
               new == task[t].quantity + n
    <2>2. /\ row.status = task[t].status /\ row.claimant = task[t].claimant
          /\ row.quantity = new
        BY <1>2, <2>1, GrownRow
    <2>3. shown' = [shown EXCEPT ![t] = Shown(row, guesses[t])]
        BY <1>0, <1>2, BoardChanges
    <2>4. /\ new \in 1..TargetFloor /\ shown[t].status = "OPEN"
          /\ shown[t].quantity < new
        BY <1>2, <2>1, BoardRows, RuleAssumption DEF Shown
    <2>5. Shown(row, guesses[t]) = [shown[t] EXCEPT !.quantity = new]
        BY <1>2, <2>2, BoardRows DEF Shown
    <2>6. Board!Grow(t, new)
        BY <2>3, <2>4, <2>5 DEF Board!Grow
    <2> HIDE DEF new
    <2> QED BY <2>4, <2>6 DEF Board!Next
<1>3. ASSUME NEW t \in Task, NEW n \in 1..TargetFloor,
             ActiveTasks = {}, task[t] = NoRow,
             task' = [task EXCEPT ![t] = Opened(n)]
      PROVE  Board!Next
    <2>1. n \in Nat
        BY RuleAssumption
    <2> DEFINE row == Opened(n)
    <2>2. row.status = "OPEN" /\ row.quantity = n /\ row.claimant = NoUser
        BY <2>1, OpenedRow
    <2> DEFINE g == guesses[t]
    <2>3. shown' = [shown EXCEPT ![t] = Shown(row, g)]
        BY <1>0, <1>3, BoardChanges
    <2>4. /\ shown[t] = [status |-> "none", quantity |-> 0, claimant |-> NoUser,
                         overruled |-> g]
          /\ g = 0
        BY <1>3, BoardRows DEF Shown, NoRow, BoardInv, RowsExist
    <2>5. \A s \in Task : shown[s].status \notin Active
        BY <1>3 DEF Shown, ActiveTasks, shown
    <2>6. Shown(row, g) = [[shown[t] EXCEPT !.status = "OPEN"] EXCEPT !.quantity = n]
        <3> DEFINE opened == [shown[t] EXCEPT !.status = "OPEN"]
        <3>1. opened = [status |-> "OPEN", quantity |-> 0, claimant |-> NoUser,
                        overruled |-> g]
            BY <2>4
        <3> HIDE DEF opened
        <3>2. Shown(row, g) = [opened EXCEPT !.quantity = n]
            BY <2>2, <3>1 DEF Shown
        <3> QED BY <3>2 DEF opened
    <2>7. Board!Open(t, n)
        BY <2>3, <2>4, <2>5, <2>6 DEF Board!Open, Board!Blank, Board!Active, Active
    <2> QED BY <2>7 DEF Board!Next
<1> QED BY <1>1, <1>2, <1>3, EvaluationChanges

\* A patch, by the status it leads to.
LEMMA PatchIsOnBoard ==
    ASSUME BoardInv, NEW u \in User, PatchCommits(u)
    PROVE  Board!Next
<1>1. PICK p \in patch[u] :
        /\ p \in Patch /\ p.version < MaxVersion
        /\ p.to \in Board!Requested /\ task[p.id].status # "none"
        /\ task' = [task EXCEPT ![p.id] = Patched(task[p.id], u, p)]
        /\ IF IsGuess(p)
           THEN /\ IndexAllows(p)
                /\ guesses' = [guesses EXCEPT ![p.id] = guesses[p.id] + 1]
           ELSE MayPatch(u, task[p.id], p.to) /\ UNCHANGED guesses
    BY PatchChanges
<1> DEFINE t == p.id
           old == task[p.id]
           row == Patched(task[p.id], u, p)
           g == guesses[p.id]
<1>2. t \in Task /\ old \in TaskRow
    BY <1>1 DEF BoardInv, TypeOK, Patch
<1>3. /\ row.status = p.to /\ row.quantity = old.quantity
      /\ row.claimant = IF p.to = "CLAIMED" THEN u ELSE old.claimant
    BY <1>1, <1>2, PatchedRow
<1>4. /\ IsGuess(p) => shown' = [shown EXCEPT ![t] = Shown(row, g + 1)]
      /\ ~IsGuess(p) => shown' = [shown EXCEPT ![t] = Shown(row, g)]
    <2>1. task' = [task EXCEPT ![t] = row]
        BY <1>1
    <2>2. IsGuess(p) => guesses' = [guesses EXCEPT ![t] = g + 1]
        BY <1>1
    <2>3. ~IsGuess(p) => UNCHANGED guesses
        BY <1>1
    <2> HIDE DEF row, old
    <2>4. IsGuess(p) => shown' = [shown EXCEPT ![t] = Shown(row, g + 1)]
        BY <1>2, <2>1, <2>2 DEF BoardInv, TypeOK, shown
    <2>5. ~IsGuess(p) => shown' = [shown EXCEPT ![t] = Shown(row, g)]
        BY <1>2, <2>1, <2>3 DEF BoardInv, TypeOK, shown
    <2> QED BY <2>4, <2>5
<1>5. shown[t] = Shown(old, g) /\ g \in Nat
    BY <1>2, BoardRows DEF BoardInv, TypeOK
<1>6. (IsGuess(p) /\ p.to \in Active) => \A s \in Task \ {t} : shown[s].status \notin Active
    BY <1>1, BoardRows DEF IndexAllows, ActiveTasks, Shown
<1> HIDE DEF row, old, t, g
<1>7. CASE IsGuess(p)
    <2> DEFINE claimant == IF p.to = "CLAIMED" THEN u ELSE shown[t].claimant
               n == shown[t].overruled + 1
    <2>1. Shown(row, g + 1) = [[[shown[t] EXCEPT !.status = p.to]
                                EXCEPT !.overruled = n] EXCEPT !.claimant = claimant]
        <3> DEFINE moved == [shown[t] EXCEPT !.status = p.to]
                   counted == [moved EXCEPT !.overruled = n]
        <3>1. moved = [status |-> p.to, quantity |-> old.quantity,
                       claimant |-> old.claimant, overruled |-> g]
            BY <1>5 DEF Shown
        <3>2. n = g + 1 /\ claimant = IF p.to = "CLAIMED" THEN u ELSE old.claimant
            BY <1>5 DEF Shown
        <3> HIDE DEF moved, n, claimant
        <3>3. counted = [status |-> p.to, quantity |-> old.quantity,
                         claimant |-> old.claimant, overruled |-> g + 1]
            BY <3>1, <3>2
        <3> HIDE DEF counted
        <3>4. Shown(row, g + 1) = [counted EXCEPT !.claimant = claimant]
            BY <1>3, <3>2, <3>3 DEF Shown
        <3> QED BY <3>4 DEF counted, moved
    <2>2. shown' = [shown EXCEPT ![t].status = p.to, ![t].overruled = @ + 1,
                                 ![t].claimant = IF p.to = "CLAIMED" THEN u ELSE @]
        BY <1>2, <1>4, <1>7, <2>1, BoardRows
    <2>3. shown[t].status # "none"
        BY <1>1, <1>5 DEF Shown, old, t
    <2>4. Board!Overrule(t, u, p.to)
        BY <1>6, <1>7, <2>2, <2>3 DEF Board!Overrule, Board!Active, Active
    <2> QED BY <1>1, <1>2, <2>4 DEF Board!Next
<1>8. CASE ~IsGuess(p) /\ old.status = "OPEN" /\ p.to = "CLAIMED"
    <2>1. Shown(row, g) = [[Shown(old, g) EXCEPT !.status = "CLAIMED"] EXCEPT !.claimant = u]
        <3> DEFINE claimed == [Shown(old, g) EXCEPT !.status = "CLAIMED"]
        <3>1. claimed = [status |-> "CLAIMED", quantity |-> old.quantity,
                         claimant |-> old.claimant, overruled |-> g]
            BY DEF Shown
        <3> HIDE DEF claimed
        <3>2. Shown(row, g) = [claimed EXCEPT !.claimant = u]
            BY <1>3, <1>8, <3>1 DEF Shown
        <3> QED BY <3>2 DEF claimed
    <2>2. shown' = [shown EXCEPT ![t].status = "CLAIMED", ![t].claimant = u]
        BY <1>2, <1>4, <1>5, <2>1, <1>8, BoardRows, Zenon
    <2>3. shown[t].status = "OPEN"
        BY <1>5, <1>8 DEF Shown
    <2>4. Board!Claim(t, u)
        BY <2>2, <2>3 DEF Board!Claim
    <2> QED BY <1>2, <2>4 DEF Board!Next
<1>9. CASE ~IsGuess(p) /\ old.status = "CLAIMED" /\ p.to = "IN_PROGRESS"
    <2>1. Shown(row, g) = [Shown(old, g) EXCEPT !.status = "IN_PROGRESS"]
        BY <1>3, <1>9 DEF Shown
    <2>2. shown' = [shown EXCEPT ![t].status = "IN_PROGRESS"]
        BY <1>2, <1>4, <1>5, <2>1, <1>9, BoardRows, Zenon
    <2>3. shown[t].status = "CLAIMED"
        BY <1>5, <1>9 DEF Shown
    <2>4. Board!Start(t)
        BY <2>2, <2>3 DEF Board!Start
    <2> QED BY <1>2, <2>4 DEF Board!Next
<1>10. CASE ~IsGuess(p) /\ old.status = "IN_PROGRESS" /\ p.to = "COMPLETED"
    <2>1. Shown(row, g) = [Shown(old, g) EXCEPT !.status = "COMPLETED"]
        BY <1>3, <1>10 DEF Shown
    <2>2. shown' = [shown EXCEPT ![t].status = "COMPLETED"]
        BY <1>2, <1>4, <1>5, <2>1, <1>10, BoardRows, Zenon
    <2>3. shown[t].status = "IN_PROGRESS"
        BY <1>5, <1>10 DEF Shown
    <2>4. Board!Complete(t)
        BY <2>2, <2>3 DEF Board!Complete
    <2> QED BY <1>2, <2>4 DEF Board!Next
<1>11. CASE ~IsGuess(p) /\ p.to \in {"CANCELED", "EXPIRED"} /\ old.status \in Active
    <2>1. Shown(row, g) = [Shown(old, g) EXCEPT !.status = p.to]
        BY <1>3, <1>11 DEF Shown
    <2>2. shown' = [shown EXCEPT ![t].status = p.to]
        BY <1>2, <1>4, <1>5, <2>1, <1>11, BoardRows, Zenon
    <2>3. shown[t].status \in Active
        BY <1>5, <1>11 DEF Shown
    <2>4. Board!Abandon(t, p.to)
        BY <2>2, <2>3 DEF Board!Abandon, Board!Active, Active
    <2> QED BY <1>2, <1>11, <2>4 DEF Board!Next
<1>12. \/ IsGuess(p)
       \/ <<old.status, p.to>> \in Advance
       \/ p.to \in {"CANCELED", "EXPIRED"} /\ old.status \in Active
    BY <1>1 DEF MayPatch, old
<1> QED BY <1>8, <1>9, <1>10, <1>11, <1>12, <1>7 DEF Advance

\* Whatever an evaluation or a patch has read before, what it writes is one of the
\* steps a single actor would take: one active task, none above the target, no
\* claim taken over. Only a request by a version ahead of the row it was checked
\* against overrules a task.
THEOREM ImplementsBoard == Spec => ImplementsTaskBoard
<1>1. Init => Board!Init
    <2> SUFFICES ASSUME Init PROVE Board!Init
        OBVIOUS
    <2>1. \A t \in Task : Shown(task[t], guesses[t])
                = [status |-> "none", quantity |-> 0, claimant |-> NoUser, overruled |-> 0]
        BY DEF Init, NoRow, Shown
    <2> QED BY <2>1 DEF Board!Init, Board!Blank, shown
<1>2. BoardInv /\ [Next]_vars => [Board!Next]_shown
    <2> SUFFICES ASSUME BoardInv, [Next]_vars PROVE [Board!Next]_shown
        OBVIOUS
    <2>1. CASE EvaluationCommits
        BY <2>1, EvaluationIsOnBoard
    <2>2. ASSUME NEW u \in User, PatchCommits(u)
          PROVE  [Board!Next]_shown
        BY <2>2, PatchIsOnBoard
    <2>3. ASSUME NEW m \in Move, NEW at \in ObservedAt, MoveConfirmed(m, at)
          PROVE  UNCHANGED shown
        <3>1. PICK t \in Task, row \in TaskRow :
                /\ task' = [task EXCEPT ![t] = row]
                /\ UNCHANGED guesses
                /\ \A n : Shown(row, n) = Shown(task[t], n)
            BY <2>3, MoveChanges
        <3>2. shown' = [shown EXCEPT ![t] = Shown(row, guesses[t])]
            BY <3>1, BoardChanges
        <3> QED BY <3>1, <3>2, BoardRows
    <2>4. CASE UNCHANGED <<task, guesses>>
        BY <2>4 DEF shown
    <2> QED BY <2>1, <2>2, <2>3, <2>4
            DEF Next, EvaluationReads, PatchReads, PatchConflicts, Tick, vars
<1>3. Spec => []BoardInv
    BY InitBoardInv, NextBoardInv, PTL DEF Spec
<1> QED BY <1>1, <1>2, <1>3, PTL DEF Spec, ImplementsTaskBoard, Board!Spec

\* A claim by the version that was read is of an open task and of the quantity that
\* was read, and nobody changes the quantity after any claim.
THEOREM ClaimsSeen == Spec => ClaimsWhatWasSeen
<1> DEFINE Step == \A t \in Task :
        /\ (task'[t].status = "CLAIMED" /\ task'[t] # task[t] /\ guesses'[t] = guesses[t]) =>
                /\ task[t].status = "OPEN"
                /\ \E p \in patch[task'[t].claimant] :
                        p.id = t /\ p.quantity = task'[t].quantity
        /\ task[t].quantity # task'[t].quantity =>
                task[t].status \in {"none", "OPEN"}
<1>1. BoardInv /\ [Next]_vars => [Step]_vars
    <2> SUFFICES ASSUME BoardInv, Next, NEW t \in Task
                 PROVE  /\ (/\ task'[t].status = "CLAIMED" /\ task'[t] # task[t]
                            /\ guesses'[t] = guesses[t]) =>
                                /\ task[t].status = "OPEN"
                                /\ \E p \in patch[task'[t].claimant] :
                                        p.id = t /\ p.quantity = task'[t].quantity
                        /\ task[t].quantity # task'[t].quantity =>
                                task[t].status \in {"none", "OPEN"}
        OBVIOUS
    <2>0. \A s \in Task : task[s] \in TaskRow
        BY DEF BoardInv, TypeOK
    <2>1. CASE EvaluationCommits
        <3>1. ASSUME NEW s \in Task, NEW n \in 1..TargetFloor,
                     task[s].status = "OPEN", task[s].version < MaxVersion,
                     task' = [task EXCEPT ![s] = Grown(task[s], n)]
              PROVE  task'[t] = task[t] \/ (task[t].status = "OPEN" /\ task'[t].status = "OPEN")
            <4>1. n \in Nat
                BY RuleAssumption
            <4>2. Grown(task[s], n).status = task[s].status
                BY <2>0, <3>1, <4>1, GrownRow
            <4> QED BY <3>1, <4>2 DEF BoardInv, TypeOK
        <3>2. ASSUME NEW s \in Task, NEW n \in 1..TargetFloor, task[s] = NoRow,
                     task' = [task EXCEPT ![s] = Opened(n)]
              PROVE  \/ task'[t] = task[t]
                     \/ task[t].status = "none" /\ task'[t].status = "OPEN"
            <4>1. n \in Nat
                BY RuleAssumption
            <4>2. Opened(n).status = "OPEN"
                BY <4>1, OpenedRow
            <4> QED BY <3>2, <4>2 DEF BoardInv, TypeOK, NoRow
        <3> QED BY <2>1, <3>1, <3>2, EvaluationChanges
    <2>2. ASSUME NEW u \in User, PatchCommits(u)
          PROVE  /\ task'[t].quantity = task[t].quantity
                 /\ \/ task'[t] = task[t] \/ guesses'[t] # guesses[t]
                    \/ task'[t].status = "CLAIMED" =>
                            /\ task[t].status = "OPEN" /\ task'[t].claimant = u
                            /\ \E p \in patch[u] : p.id = t /\ p.quantity = task[t].quantity
        <3>1. PICK p \in patch[u] :
                /\ p \in Patch /\ p.version < MaxVersion
                /\ task' = [task EXCEPT ![p.id] = Patched(task[p.id], u, p)]
                /\ IF IsGuess(p)
                   THEN guesses' = [guesses EXCEPT ![p.id] = guesses[p.id] + 1]
                   ELSE /\ MayPatch(u, task[p.id], p.to)
                        /\ p.quantity = task[p.id].quantity
            BY <2>2, PatchChanges
        <3>2. p.id \in Task
            BY <3>1 DEF Patch
        <3> DEFINE row == Patched(task[p.id], u, p)
        <3>3. /\ row.quantity = task[p.id].quantity /\ row.status = p.to
              /\ row.claimant = IF p.to = "CLAIMED" THEN u ELSE task[p.id].claimant
            BY <2>0, <3>1, <3>2, PatchedRow
        <3> HIDE DEF row
        <3>4. task' = [task EXCEPT ![p.id] = row]
            BY <3>1 DEF row
        <3>5. CASE p.id # t
            BY <3>2, <3>4, <3>5 DEF BoardInv, TypeOK
        <3>6. CASE p.id = t
            <4>1. task'[t] = row
                BY <3>2, <3>4, <3>6 DEF BoardInv, TypeOK
            <4>2. IsGuess(p) => guesses'[t] # guesses[t]
                <5>1. guesses[t] \in Nat /\ guesses \in [Task -> Nat]
                    BY DEF BoardInv, TypeOK
                <5> QED BY <3>1, <3>6, <5>1
            <4>3. ~IsGuess(p) /\ p.to = "CLAIMED" => task[t].status = "OPEN"
                BY <3>1, <3>6 DEF MayPatch, Advance
            <4> QED BY <3>1, <3>3, <3>6, <4>1, <4>2, <4>3
        <3> QED BY <3>5, <3>6
    <2>3. ASSUME NEW m \in Move, NEW at \in ObservedAt, MoveConfirmed(m, at)
          PROVE  /\ task'[t].quantity = task[t].quantity
                 /\ task'[t] = task[t] \/ task'[t].status # "CLAIMED"
        <3>1. PICK s \in Task, row \in TaskRow :
                /\ task' = [task EXCEPT ![s] = row] /\ Candidate(task[s], at)
                /\ row.status = task[s].status /\ row.quantity = task[s].quantity
            BY <2>3, MoveChanges
        <3> QED BY <3>1 DEF BoardInv, TypeOK, Candidate
    <2>4. CASE UNCHANGED task
        BY <2>4
    <2>5. CASE \E u \in User : PatchCommits(u)
        BY <2>2, <2>5
    <2>6. CASE \E m \in Move, at \in ObservedAt : MoveConfirmed(m, at)
        BY <2>3, <2>6
    <2> QED BY <2>1, <2>4, <2>5, <2>6
            DEF Next, EvaluationReads, PatchReads, PatchConflicts, Tick
<1>2. [][Step]_vars => ClaimsWhatWasSeen
    BY PTL DEF ClaimsWhatWasSeen
<1>3. Spec => []BoardInv
    BY InitBoardInv, NextBoardInv, PTL DEF Spec
<1> QED BY <1>1, <1>2, <1>3, PTL DEF Spec

-----------------------------------------------------------------------------
(* The evidence.                                                            *)

LEMMA VerifiedByTask == VerifiedByEvidence <=> \A t \in Task : TaskVerified(t)
    BY DEF VerifiedByEvidence, TaskVerified, Evidence, InTime

LEMMA NextVerifiedByTask == VerifiedByEvidence' <=> \A t \in Task : TaskVerified(t)'
    BY DEF VerifiedByEvidence, TaskVerified, Evidence, InTime

LEMMA InitEvidenceInv == Init => EvidenceInv
<1> SUFFICES ASSUME Init PROVE EvidenceInv
    OBVIOUS
<1>1. \A t \in Task : Evidence(t) = {}
    BY TaskAssumption DEF Init, Evidence
<1>2. \A t \in Task : TaskVerified(t)
    BY <1>1, FS_EmptySet DEF Init, NoRow, TaskVerified
<1>3. TimesFollowStatus /\ MovesWereSeen
    BY DEF Init, NoRow, TimesFollowStatus, MovesWereSeen
<1> QED BY <1>2, <1>3, VerifiedByTask, InitBoardInv DEF EvidenceInv

\* A row that changes leaves no patch behind that has seen it, so what the patches
\* know of the moves stays true.
LEMMA MovesStaySeen ==
    ASSUME EvidenceInv, NEW t \in Task, NEW row \in TaskRow, row.version > task[t].version,
           task' = [task EXCEPT ![t] = row],
           \A u \in User : patch'[u] \subseteq patch[u],
           UNCHANGED <<evidence, movedAt, clock>>
    PROVE  MovesWereSeen'
<1> SUFFICES ASSUME NEW m \in Move, evidence[m] # NoTask,
                    NEW u \in User, NEW p \in patch[u],
                    p.id = evidence[m], p.read = task'[p.id].version
             PROVE  movedAt[m] <= p.at + MaxFutureSkew
    BY DEF MovesWereSeen, EvidenceInv
<1>1. p \in Patch /\ p.id \in Task /\ p.read \in Int /\ p.read <= task[p.id].version
    BY RuleAssumption DEF EvidenceInv, BoardInv, TypeOK, ReadsStand, PatchStands, Patch
<1>2. task[t].version \in Int /\ row.version \in Int
    BY RuleAssumption DEF EvidenceInv, BoardInv, TypeOK, TaskRow
<1>3. p.id # t
    BY <1>1, <1>2 DEF EvidenceInv, BoardInv, TypeOK
<1>4. task'[p.id] = task[p.id]
    BY <1>1, <1>3 DEF EvidenceInv, BoardInv, TypeOK
<1> QED BY <1>4 DEF EvidenceInv, MovesWereSeen

\* A step that leaves rows and evidence alone.
LEMMA QuietStep ==
    ASSUME EvidenceInv, UNCHANGED <<task, evidence, movedAt, guesses>>
    PROVE  VerifiedByEvidence' /\ TimesFollowStatus'
    BY DEF EvidenceInv, VerifiedByEvidence, TimesFollowStatus

\* An evaluation changes no counted row other than by letting it ask for more.
LEMMA EvaluationEvidence ==
    ASSUME EvidenceInv, EvaluationCommits
    PROVE  TimesFollowStatus' /\ MovesWereSeen' /\ VerifiedByEvidence'
<1> USE DEF EvidenceInv
<1>1. UNCHANGED <<evidence, movedAt, patch, guesses, clock>>
    BY DEF EvaluationCommits
<1>2. CASE UNCHANGED task
    BY <1>1, <1>2, QuietStep DEF MovesWereSeen
<1>3. ASSUME NEW t \in Task, NEW row \in TaskRow, row.version > task[t].version,
             task' = [task EXCEPT ![t] = row],
             row.verified = task[t].verified, row.quantity >= task[t].quantity,
             row.started = task[t].started, row.deadline = task[t].deadline,
             row.status = task[t].status \/ (task[t] = NoRow /\ row.status = "OPEN")
      PROVE  TimesFollowStatus' /\ MovesWereSeen' /\ VerifiedByEvidence'
    <2>1. MovesWereSeen'
        BY <1>1, <1>3, MovesStaySeen
    <2>2. ASSUME NEW s \in Task
          PROVE  TaskVerified(s)'
        <3>1. TaskVerified(s)
            BY VerifiedByTask
        <3>2. /\ task'[s].verified = task[s].verified
              /\ task'[s].quantity >= task[s].quantity
              /\ task'[s].started = task[s].started /\ task'[s].deadline = task[s].deadline
            BY <1>3 DEF BoardInv, TypeOK, TaskRow
        <3>3. Evidence(s)' = Evidence(s)
            BY <1>1 DEF Evidence
        <3>4. task[s].quantity \in Nat /\ task'[s].quantity \in Nat /\ task[s].verified \in Nat
            BY <1>3 DEF BoardInv, TypeOK, TaskRow
        <3> QED BY <1>1, <3>1, <3>2, <3>3, <3>4 DEF TaskVerified
    <2>3. TimesFollowStatus'
        BY <1>1, <1>3 DEF BoardInv, TypeOK, TimesFollowStatus, NoRow
    <2> QED BY <2>1, <2>2, <2>3, NextVerifiedByTask
<1>4. ASSUME NEW t \in Task, NEW n \in 1..TargetFloor, task[t].version < MaxVersion,
             task' = [task EXCEPT ![t] = Grown(task[t], n)]
      PROVE  TimesFollowStatus' /\ MovesWereSeen' /\ VerifiedByEvidence'
    <2>1. task[t] \in TaskRow /\ n \in Nat
        BY RuleAssumption DEF BoardInv, TypeOK
    <2>2. task[t].version \in Int /\ task[t].quantity \in Nat
        BY <2>1, RuleAssumption DEF TaskRow
    <2>3. PICK row \in TaskRow :
              /\ row = Grown(task[t], n) /\ row.version > task[t].version
              /\ row.verified = task[t].verified /\ row.quantity >= task[t].quantity
              /\ row.started = task[t].started /\ row.deadline = task[t].deadline
              /\ row.status = task[t].status
        BY <1>4, <2>1, <2>2, GrownRow
    <2>4. task' = [task EXCEPT ![t] = row]
        BY <1>4, <2>3
    <2>5. row.status = task[t].status \/ (task[t] = NoRow /\ row.status = "OPEN")
        BY <2>3
    <2> QED BY <1>3, <2>3, <2>4, <2>5
<1>5. ASSUME NEW t \in Task, NEW n \in 1..TargetFloor, task[t] = NoRow,
             task' = [task EXCEPT ![t] = Opened(n)]
      PROVE  TimesFollowStatus' /\ MovesWereSeen' /\ VerifiedByEvidence'
    <2> DEFINE row == Opened(n)
    <2>1. n \in Nat
        BY RuleAssumption
    <2>2. /\ row \in TaskRow /\ row.version > task[t].version
          /\ row.verified = task[t].verified /\ row.quantity >= task[t].quantity
          /\ row.started = task[t].started /\ row.deadline = task[t].deadline
          /\ row.status = "OPEN"
        BY <1>5, <2>1, OpenedRow DEF NoRow
    <2>3. task' = [task EXCEPT ![t] = row]
        BY <1>5
    <2> HIDE DEF row
    <2> QED BY <1>3, <1>5, <2>2, <2>3
<1> QED BY <1>2, <1>4, <1>5, EvaluationChanges

\* Starting a task finds no evidence of it; completing it finds only what was seen
\* before the row was read.
LEMMA PatchEvidence ==
    ASSUME EvidenceInv, NEW u \in User, PatchCommits(u)
    PROVE  TimesFollowStatus' /\ MovesWereSeen' /\ VerifiedByEvidence'
<1> USE DEF EvidenceInv
<1>1. PICK p \in patch[u] :
        /\ p \in Patch /\ p.version < MaxVersion /\ p.version = task[p.id].version
        /\ task' = [task EXCEPT ![p.id] = Patched(task[p.id], u, p)]
        /\ patch' = [patch EXCEPT ![u] = {}]
        /\ IF IsGuess(p) THEN guesses' = [guesses EXCEPT ![p.id] = guesses[p.id] + 1]
           ELSE UNCHANGED guesses /\ MayPatch(u, task[p.id], p.to)
        /\ ~IsGuess(p) => p.read = p.version
    <2>1. ASSUME NEW p \in patch[u], p \in Patch, ~IsGuess(p)
          PROVE  p.read = p.version
        BY <2>1, RuleAssumption DEF IsGuess, Patch, BoardInv, ReadsStand, PatchStands
    <2> QED BY <2>1, PatchChanges
<1>2. UNCHANGED <<evidence, movedAt, clock>>
    BY DEF PatchCommits
<1> DEFINE t == p.id
           old == task[p.id]
           row == Patched(task[p.id], u, p)
<1>3. /\ t \in Task /\ old \in TaskRow /\ p.version \in Int /\ p.to \in Status
      /\ p.at \in Nat /\ VerificationWindow \in Nat /\ MaxFutureSkew \in Nat
    BY <1>1, RuleAssumption DEF BoardInv, TypeOK, Patch
<1>4. /\ row \in TaskRow /\ row.status = p.to /\ row.version = p.version + 1
      /\ row.quantity = old.quantity /\ row.verified = old.verified
      /\ row.started = IF p.to = "IN_PROGRESS" THEN p.at ELSE old.started
      /\ row.deadline = IF p.to = "COMPLETED" THEN p.at + VerificationWindow
                        ELSE old.deadline
    BY <1>1, <1>3, PatchedRow
<1>5. row.version > old.version
    BY <1>1, <1>3, <1>4
<1>6. ~IsGuess(p) =>
        /\ p.to = "IN_PROGRESS" => old.status = "CLAIMED"
        /\ p.to = "COMPLETED" => old.status = "IN_PROGRESS"
        /\ p.to = "CLAIMED" => old.status = "OPEN"
        /\ p.to # "OPEN" /\ p.to # "none" /\ old.status # "COMPLETED"
    BY <1>1 DEF MayPatch, Advance, Active
<1>7. task' = [task EXCEPT ![t] = row]
    BY <1>1
<1> HIDE DEF row, old, t
<1>8. /\ old = task[t]
      /\ IsGuess(p) => guesses'[t] # 0
      /\ ~IsGuess(p) => UNCHANGED guesses
      /\ \A s \in Task : s # t => guesses'[s] = guesses[s]
    <2>1. guesses \in [Task -> Nat]
        BY DEF BoardInv, TypeOK
    <2> QED BY <1>1, <1>3, <2>1 DEF old, t
<1>9. MovesWereSeen'
    <2>1. \A v \in User : patch'[v] \subseteq patch[v]
        BY <1>1 DEF BoardInv, TypeOK
    <2> QED BY <1>2, <1>3, <1>4, <1>5, <1>7, <1>8, <2>1, MovesStaySeen
<1>10. ASSUME NEW s \in Task
       PROVE  guesses'[s] = 0 =>
                /\ task'[s].status \in {"none", "OPEN", "CLAIMED"} => task'[s].started = Never
                /\ task'[s].status # "COMPLETED" => task'[s].deadline = Never
    BY <1>3, <1>4, <1>6, <1>7, <1>8 DEF BoardInv, TypeOK, TimesFollowStatus
<1>11. ASSUME NEW s \in Task
       PROVE  TaskVerified(s)'
    <2>1. TaskVerified(s)
        BY VerifiedByTask
    <2>2. Evidence(s)' = Evidence(s)
        BY <1>2 DEF Evidence
    <2>3. CASE s # t
        <3>1. task'[s] = task[s]
            BY <1>7, <2>3 DEF BoardInv, TypeOK
        <3> QED BY <1>2, <1>8, <2>1, <2>2, <2>3, <3>1 DEF TaskVerified
    <2>4. CASE s = t
        <3>1. task'[s] = row
            BY <1>3, <1>7, <2>4 DEF BoardInv, TypeOK
        <3>2. row.verified = Cardinality(Evidence(s)) /\ row.verified <= row.quantity
            BY <1>4, <1>8, <2>1, <2>4 DEF TaskVerified
        <3>3. ASSUME ~IsGuess(p), guesses[s] = 0, NEW m \in Evidence(s)
              PROVE  InTime(movedAt[m], row.started, row.deadline)
            <4>1. InTime(movedAt[m], old.started, old.deadline)
                BY <1>8, <2>1, <2>4, <3>3 DEF TaskVerified
            <4>2. p.to # "IN_PROGRESS"
                BY <1>3, <1>6, <1>8, <2>4, <3>3, <4>1 DEF TimesFollowStatus, InTime
            <4>3. movedAt[m] <= p.at + MaxFutureSkew /\ movedAt[m] \in Int
                <5>1. m \in Move /\ evidence[m] = p.id /\ evidence[m] # NoTask
                    BY <1>3, <2>4, TaskAssumption DEF Evidence, t
                <5> QED BY <1>1, <3>3, <5>1, RuleAssumption
                        DEF MovesWereSeen, BoardInv, TypeOK, Never, ObservedAt
            <4>4. CASE p.to = "COMPLETED"
                <5>1. row.deadline = p.at + VerificationWindow /\ row.started = old.started
                    BY <1>4, <4>2, <4>4
                <5>2. movedAt[m] + VerificationWindow
                        <= (p.at + VerificationWindow) + MaxFutureSkew
                    BY <1>3, <4>3
                <5> QED BY <4>1, <5>1, <5>2 DEF InTime
            <4>5. CASE p.to # "COMPLETED"
                BY <1>4, <4>1, <4>2, <4>5
            <4> QED BY <4>4, <4>5
        <3>4. ASSUME guesses'[s] = 0, NEW m \in Evidence(s)
              PROVE  InTime(movedAt[m], row.started, row.deadline)
            BY <1>8, <2>4, <3>3, <3>4
        <3> QED BY <1>2, <2>2, <3>1, <3>2, <3>4 DEF TaskVerified
    <2> QED BY <2>3, <2>4
<1> QED BY <1>9, <1>10, <1>11, NextVerifiedByTask DEF TimesFollowStatus

\* A move counts for one task, as one more, and in the time of that task.
LEMMA MoveEvidence ==
    ASSUME EvidenceInv, NEW m \in Move, NEW at \in ObservedAt, MoveConfirmed(m, at)
    PROVE  TimesFollowStatus' /\ MovesWereSeen' /\ VerifiedByEvidence'
<1> USE DEF EvidenceInv
<1>1. PICK t \in Task, row \in TaskRow :
        /\ Candidate(task[t], at) /\ evidence[m] = NoTask
        /\ at <= clock + MaxFutureSkew /\ UNCHANGED guesses
        /\ task' = [task EXCEPT ![t] = row]
        /\ evidence' = [evidence EXCEPT ![m] = t]
        /\ movedAt' = [movedAt EXCEPT ![m] = at]
        /\ row.version = task[t].version + 1
        /\ row.verified = task[t].verified + 1 /\ row.verified <= row.quantity
        /\ row.status = task[t].status /\ row.quantity = task[t].quantity
        /\ row.started = task[t].started /\ row.deadline = task[t].deadline
    BY MoveChanges
<1>2. UNCHANGED <<evaluation, patch, clock>>
    BY DEF MoveConfirmed
<1>3. /\ task \in [Task -> TaskRow] /\ evidence \in [Move -> Task \cup {NoTask}]
      /\ movedAt \in [Move -> ObservedAt \cup {Never}]
    BY DEF BoardInv, TypeOK
<1>4. TimesFollowStatus'
    BY <1>1, <1>3 DEF TimesFollowStatus
<1>5. ASSUME NEW n \in Move, evidence'[n] # NoTask
      PROVE  /\ movedAt'[n] <= clock' + MaxFutureSkew
             /\ \A u \in User : \A p \in patch'[u] :
                    (p.id = evidence'[n] /\ p.read = task'[evidence'[n]].version)
                        => movedAt'[n] <= p.at + MaxFutureSkew
    <2>1. movedAt'[n] <= clock' + MaxFutureSkew
        BY <1>1, <1>2, <1>3, <1>5 DEF MovesWereSeen
    <2>2. ASSUME NEW u \in User, NEW p \in patch[u],
                 p.id = evidence'[n], p.read = task'[p.id].version
          PROVE  movedAt'[n] <= p.at + MaxFutureSkew
        <3>1. p \in Patch /\ p.id \in Task /\ p.read \in Int /\ p.read <= task[p.id].version
            BY RuleAssumption DEF BoardInv, TypeOK, ReadsStand, PatchStands, Patch
        <3>2. task[t].version \in Int
            BY <1>3, RuleAssumption DEF TaskRow
        <3>3. p.id # t
            BY <1>1, <1>3, <2>2, <3>1, <3>2
        <3>4. n # m /\ task'[p.id] = task[p.id]
            BY <1>1, <1>3, <2>2, <3>1, <3>3
        <3>5. evidence'[n] = evidence[n] /\ movedAt'[n] = movedAt[n]
            BY <1>1, <1>3, <3>4
        <3> QED BY <1>5, <2>2, <3>4, <3>5 DEF MovesWereSeen
    <2> QED BY <1>2, <2>1, <2>2
<1>6. ASSUME NEW s \in Task
      PROVE  TaskVerified(s)'
    <2>1. TaskVerified(s)
        BY VerifiedByTask
    <2>2. CASE s # t
        <3>1. task'[s] = task[s]
            BY <1>1, <1>3, <2>2
        <3>2. Evidence(s)' = Evidence(s) /\ m \notin Evidence(s)
            BY <1>1, <1>3, <2>2, TaskAssumption DEF Evidence
        <3>3. \A n \in Evidence(s) : movedAt'[n] = movedAt[n]
            BY <1>1, <1>3, <3>2 DEF Evidence
        <3> QED BY <1>1, <2>1, <3>1, <3>2, <3>3 DEF TaskVerified
    <2>3. CASE s = t
        <3>1. task'[s] = row
            BY <1>1, <1>3, <2>3
        <3>2. Evidence(s)' = Evidence(s) \cup {m} /\ m \notin Evidence(s)
            BY <1>1, <1>3, <2>3, TaskAssumption DEF Evidence
        <3>3. IsFiniteSet(Evidence(s))
            BY TaskAssumption, FS_Subset DEF Evidence
        <3>4. Cardinality(Evidence(s)') = Cardinality(Evidence(s)) + 1
            BY <3>2, <3>3, FS_AddElement
        <3>5. \A n \in Evidence(s) : movedAt'[n] = movedAt[n]
            BY <1>1, <1>3, <3>2 DEF Evidence
        <3>6. movedAt'[m] = at
            BY <1>1, <1>3
        <3>7. guesses[s] = 0 => InTime(at, row.started, row.deadline)
            <4>1. guesses[s] = 0 /\ task[t].deadline # Never => task[t].status = "COMPLETED"
                BY <2>3 DEF TimesFollowStatus
            <4> QED BY <1>1, <1>3, <4>1 DEF Candidate, TaskRow, Never, InTime
        <3>8. row.verified = Cardinality(Evidence(s)') /\ row.verified <= row.quantity
            BY <1>1, <2>1, <2>3, <3>4 DEF TaskVerified
        <3>9. ASSUME guesses'[s] = 0, NEW n \in Evidence(s)'
              PROVE  InTime(movedAt'[n], row.started, row.deadline)
            BY <1>1, <2>1, <2>3, <3>2, <3>5, <3>6, <3>7, <3>9 DEF TaskVerified
        <3> QED BY <3>1, <3>8, <3>9 DEF TaskVerified
    <2> QED BY <2>2, <2>3
<1> QED BY <1>4, <1>5, <1>6, NextVerifiedByTask DEF MovesWereSeen

LEMMA NextEvidenceInv == EvidenceInv /\ [Next]_vars => EvidenceInv'
<1> SUFFICES ASSUME EvidenceInv, [Next]_vars
             PROVE  TimesFollowStatus' /\ MovesWereSeen' /\ VerifiedByEvidence'
    BY NextBoardInv DEF EvidenceInv
<1> DEFINE Goal == TimesFollowStatus' /\ MovesWereSeen' /\ VerifiedByEvidence'
<1>1. ASSUME NEW u \in User, NEW t \in Task, NEW to \in Status,
             NEW ahead \in 0..MaxAhead, PatchReads(u, t, to, ahead)
      PROVE  Goal
    <2>1. /\ UNCHANGED <<task, evidence, movedAt, evaluation, guesses, clock>>
          /\ patch' = [patch EXCEPT ![u] = {[id |-> t, version |-> task[t].version + ahead,
                to |-> to, at |-> clock, read |-> task[t].version,
                quantity |-> task[t].quantity]}]
        BY <1>1 DEF PatchReads
    <2>2. \A v \in User : \A p \in patch'[v] : p \in patch[v] \/ p.at = clock
        BY <2>1 DEF EvidenceInv, BoardInv, TypeOK
    <2>3. MovesWereSeen'
        BY <2>1, <2>2 DEF EvidenceInv, MovesWereSeen
    <2> QED BY <2>1, <2>3, QuietStep
<1>2. ASSUME NEW u \in User, PatchConflicts(u)
      PROVE  Goal
    <2>1. /\ UNCHANGED <<task, evidence, movedAt, evaluation, guesses, clock>>
          /\ patch' = [patch EXCEPT ![u] = {}]
        BY <1>2 DEF PatchConflicts
    <2>2. MovesWereSeen'
        BY <2>1 DEF EvidenceInv, BoardInv, TypeOK, MovesWereSeen
    <2> QED BY <2>1, <2>2, QuietStep
<1>3. CASE Tick
    <2>1. UNCHANGED <<task, evidence, movedAt, evaluation, patch, guesses>>
          /\ clock' = clock + 1
        BY <1>3 DEF Tick
    <2>2. MovesWereSeen'
        BY <2>1, RuleAssumption
           DEF EvidenceInv, BoardInv, TypeOK, MovesWereSeen, Never, ObservedAt
    <2> QED BY <2>1, <2>2, QuietStep
<1>4. CASE UNCHANGED <<task, evidence, movedAt, patch, guesses, clock>>
    BY <1>4, QuietStep DEF EvidenceInv, MovesWereSeen
<1> QED BY <1>1, <1>2, <1>3, <1>4, EvaluationEvidence, PatchEvidence, MoveEvidence
        DEF Next, EvaluationReads, vars

\* A task is verified by exactly the moves recorded for it, seen in its own time but
\* for the skew that is accepted of readers.
THEOREM VerifiedInTime == Spec => []VerifiedByEvidence
<1>1. Spec => []EvidenceInv
    BY InitEvidenceInv, NextEvidenceInv, PTL DEF Spec
<1>2. EvidenceInv => VerifiedByEvidence
    BY DEF EvidenceInv
<1> QED BY <1>1, <1>2, PTL

=============================================================================
