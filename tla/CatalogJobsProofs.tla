------------------------- MODULE CatalogJobsProofs -------------------------
(***************************************************************************)
(* Proofs about CatalogJobs for every set of jobs and workers and every    *)
(* attempt budget: what a completed job says of its import, how far a      *)
(* terminal import is final, and who may end an attempt.                   *)
(***************************************************************************)
EXTENDS CatalogJobs, FiniteSetTheorems, TLAPS

\* A job exists once its import does.
Enqueued ==
    \A j \in Job :
        /\ import[j] = "none" <=> job[j].status = "none"
        /\ job[j].status = "none" => job[j].attempts = 0

\* What the stage of a worker says of its import. It outlives the lease: the
\* statuses only move forward, whoever moves them.
Known(w) ==
    LET j == worker[w].job IN
    /\ worker[w].stage \in {"idle", "dead"} => j = NoJob
    /\ worker[w].stage \notin {"idle", "dead", "claimed"} => j # NoJob
    /\ j # NoJob => import[j] # "none"
    /\ worker[w].stage \in {"staged", "validated"} => import[j] \in Terminal \cup {"READY"}
    /\ worker[w].stage = "validated" =>
        worker[w].saw = "READY" \/ import[j] \in Terminal
    /\ worker[w].stage = "promoted" => import[j] \in Terminal

StagesTell == \A w \in Worker : Known(w)

\* A job in progress belongs to the worker of its last attempt, which is at it or
\* gone; a job at rest belongs to nobody.
OwnerIsCurrent(j) ==
    LET w == job[j].owner IN
    IF job[j].status = "PROCESSING"
    THEN /\ w \in Worker
         /\ \/ worker[w].stage = "dead"
            \/ worker[w].job = j /\ worker[w].attempt = job[j].attempts
    ELSE w = NoWorker /\ ~job[j].leased

OwnersAreCurrent == \A j \in Job : OwnerIsCurrent(j)

\* Workers that may still apply the rows of an import.
Promoters(j) ==
    {w \in Worker : /\ worker[w].job = j
                    /\ worker[w].stage \in {"claimed", "validating", "staged", "validated"}}

\* Every application of the rows, done or still to come, is an attempt of its own.
Budgeted == \A j \in Job : promotions[j] + Cardinality(Promoters(j)) <= job[j].attempts

JobInv ==
    TypeOK /\ Enqueued /\ StagesTell /\ OwnersAreCurrent /\ Budgeted /\ CompletedMeansDone

-----------------------------------------------------------------------------
(* Lemmas about the budget.                                                 *)

LEMMA FinitePromoters ==
    ASSUME NEW j \in Job
    PROVE  IsFiniteSet(Promoters(j)) /\ Cardinality(Promoters(j)) \in Nat
<1>1. Promoters(j) \subseteq Worker
    BY DEF Promoters
<1> QED BY <1>1, FS_Subset, FS_CardinalityType, JobAssumption

LEMMA FinitePromotersNext ==
    ASSUME NEW j \in Job
    PROVE  IsFiniteSet(Promoters(j)') /\ Cardinality(Promoters(j)') \in Nat
<1>1. Promoters(j)' \subseteq Worker
    BY DEF Promoters
<1> QED BY <1>1, FS_Subset, FS_CardinalityType, JobAssumption

\* Without a claim and without an application of rows nothing is spent.
LEMMA NothingSpent ==
    ASSUME TypeOK, Budgeted, UNCHANGED promotions,
           \A j \in Job : job'[j].attempts = job[j].attempts,
           \A j \in Job : Promoters(j)' \subseteq Promoters(j)
    PROVE  Budgeted'
<1> SUFFICES ASSUME NEW j \in Job
             PROVE  promotions'[j] + Cardinality(Promoters(j)') <= job'[j].attempts
    BY DEF Budgeted, Promoters
<1>1. Cardinality(Promoters(j)') <= Cardinality(Promoters(j))
    BY FinitePromoters, FS_Subset
<1>2. Cardinality(Promoters(j)') \in Nat /\ Cardinality(Promoters(j)) \in Nat
    BY FinitePromoters, FinitePromotersNext
<1>3. promotions[j] \in Nat /\ job[j].attempts \in Nat
    BY JobAssumption DEF TypeOK
<1>4. promotions[j] + Cardinality(Promoters(j)) <= job[j].attempts
    BY DEF Budgeted
<1> QED BY <1>1, <1>2, <1>3, <1>4

\* What the rows may still be applied stays below the budget of attempts.
LEMMA WithinBudget ==
    ASSUME Budgeted', NEW j \in Job, promotions'[j] \in Nat,
           job'[j].attempts \in 0..MaxAttempts
    PROVE  promotions'[j] \in 0..MaxAttempts
<1>1. promotions'[j] + Cardinality(Promoters(j)') <= job'[j].attempts
    BY DEF Budgeted, Promoters
<1> QED BY <1>1, FinitePromotersNext, JobAssumption

-----------------------------------------------------------------------------
(* Every action preserves JobInv.                                           *)

LEMMA InitJobInv == Init => JobInv
<1> SUFFICES ASSUME Init PROVE JobInv
    OBVIOUS
<1>1. TypeOK
    <2>1. [NewJob EXCEPT !.status = "none"] \in
            [status: JobStatus, attempts: 0..MaxAttempts,
             owner: Worker \cup {NoWorker}, leased: BOOLEAN]
        <3>1. NewJob \in [status: JobStatus, attempts: 0..MaxAttempts,
                          owner: Worker \cup {NoWorker}, leased: BOOLEAN]
            BY JobAssumption DEF NewJob, JobStatus
        <3>2. "none" \in JobStatus
            BY DEF JobStatus
        <3> HIDE DEF NewJob
        <3> QED BY <3>1, <3>2
    <2>2. Idle \in [stage: Stage, job: Job \cup {NoJob},
                    attempt: 0..MaxAttempts, saw: ImportStatus]
        BY JobAssumption DEF Idle, ImportStatus, Stage
    <2> QED BY <2>1, <2>2, JobAssumption DEF Init, TypeOK, ImportStatus
<1>2. Enqueued /\ StagesTell /\ OwnersAreCurrent /\ CompletedMeansDone
    BY DEF Init, NewJob, Idle, Enqueued, StagesTell, Known, OwnersAreCurrent,
           OwnerIsCurrent, CompletedMeansDone
<1>3. \A j \in Job : Promoters(j) = {}
    BY JobAssumption DEF Init, Idle, Promoters
<1>4. \A j \in Job : promotions[j] = 0 /\ job[j].attempts = 0
    BY DEF Init, NewJob
<1>5. Budgeted
    BY <1>3, <1>4, FS_EmptySet DEF Budgeted
<1> QED BY <1>1, <1>2, <1>5 DEF JobInv

LEMMA AcceptInv ==
    ASSUME JobInv, NEW j \in Job, AcceptCatalogImport(j)
    PROVE  JobInv'
<1> USE DEF JobInv
<1>1. job[j].status = "none" /\ job[j].attempts = 0
    BY DEF AcceptCatalogImport, Enqueued
<1>2. job' \in [Job -> [status: JobStatus, attempts: 0..MaxAttempts,
                        owner: Worker \cup {NoWorker}, leased: BOOLEAN]]
    BY JobAssumption DEF TypeOK, AcceptCatalogImport, NewJob, JobStatus
<1>3. TypeOK'
    BY <1>2 DEF TypeOK, AcceptCatalogImport, ImportStatus
<1>4. \A k \in Job : job'[k].attempts = job[k].attempts
    BY <1>1 DEF TypeOK, AcceptCatalogImport, NewJob
<1>5. Budgeted'
    BY <1>4, NothingSpent DEF AcceptCatalogImport, Promoters
<1>6. Enqueued'
    BY DEF TypeOK, AcceptCatalogImport, Enqueued, NewJob
<1>7. StagesTell'
    BY DEF TypeOK, AcceptCatalogImport, StagesTell, Known, Terminal
<1>8. OwnersAreCurrent'
    BY <1>1 DEF TypeOK, AcceptCatalogImport, OwnersAreCurrent, OwnerIsCurrent, NewJob
<1>9. CompletedMeansDone'
    BY DEF TypeOK, AcceptCatalogImport, CompletedMeansDone, NewJob, Terminal
<1> QED BY <1>3, <1>5, <1>6, <1>7, <1>8, <1>9

LEMMA LeaseInv ==
    ASSUME JobInv, NEW j \in Job, LeaseExpires(j)
    PROVE  JobInv'
<1> USE DEF JobInv
<1>1. TypeOK'
    BY DEF TypeOK, LeaseExpires
<1>2. Budgeted'
    BY NothingSpent DEF TypeOK, LeaseExpires, Promoters
<1>3. Enqueued' /\ StagesTell' /\ CompletedMeansDone'
    BY DEF TypeOK, LeaseExpires, Enqueued, StagesTell, Known, CompletedMeansDone
<1>4. OwnersAreCurrent'
    BY DEF TypeOK, LeaseExpires, OwnersAreCurrent, OwnerIsCurrent
<1> QED BY <1>1, <1>2, <1>3, <1>4

LEMMA ReconcileInv ==
    ASSUME JobInv, NEW w \in Worker, NEW skipped \in SUBSET Job,
           ReconcileQuarantinedImports(w, skipped)
    PROVE  JobInv'
<1> USE DEF JobInv
<1>1. worker[w].stage = "claimed" /\ UNCHANGED promotions
    BY DEF ReconcileQuarantinedImports
<1>2. /\ job' \in [Job -> [status: JobStatus, attempts: 0..MaxAttempts,
                           owner: Worker \cup {NoWorker}, leased: BOOLEAN]]
      /\ \A j \in Job :
          /\ job'[j].attempts = job[j].attempts
          /\ job'[j].owner = job[j].owner /\ job'[j].leased = job[j].leased
          /\ \/ job'[j].status = job[j].status
             \/ /\ job[j].status = "QUARANTINED" /\ job'[j].status = "COMPLETED"
                /\ import[j] \in Terminal
    BY DEF TypeOK, ReconcileQuarantinedImports, Stranded, JobStatus
<1>3. /\ import' \in [Job -> ImportStatus]
      /\ \A j \in Job : import'[j] = import[j] \/ (/\ job[j].status = "QUARANTINED"
                                                   /\ import[j] \notin Terminal
                                                   /\ import'[j] = "FAILED")
    BY DEF TypeOK, ReconcileQuarantinedImports, Stranded, ImportStatus, Terminal
<1>4. /\ worker' \in [Worker -> [stage: Stage, job: Job \cup {NoJob},
                                 attempt: 0..MaxAttempts, saw: ImportStatus]]
      /\ worker[w].job = NoJob => worker'[w] = Idle
      /\ worker[w].job # NoJob => worker'[w] = [worker[w] EXCEPT !.stage = "validating"]
      /\ \A v \in Worker \ {w} : worker'[v] = worker[v]
    <2> DEFINE next == IF worker[w].job = NoJob THEN Idle
                       ELSE [worker[w] EXCEPT !.stage = "validating"]
    <2>1. worker' = [worker EXCEPT ![w] = next]
        BY DEF ReconcileQuarantinedImports
    <2>2. next \in [stage: Stage, job: Job \cup {NoJob}, attempt: 0..MaxAttempts,
                    saw: ImportStatus]
        BY JobAssumption DEF TypeOK, Idle, Stage, ImportStatus
    <2>3. /\ worker[w].job = NoJob => next = Idle
          /\ worker[w].job # NoJob => next = [worker[w] EXCEPT !.stage = "validating"]
        OBVIOUS
    <2> HIDE DEF next
    <2> QED BY <2>1, <2>2, <2>3 DEF TypeOK
<1>5. TypeOK'
    BY <1>1, <1>2, <1>3, <1>4 DEF TypeOK
<1>6. \A j \in Job : Promoters(j)' \subseteq Promoters(j)
    BY <1>1, <1>4, JobAssumption DEF Promoters, Idle, TypeOK
<1>7. Budgeted'
    BY <1>1, <1>2, <1>6, NothingSpent
<1>8. Enqueued'
    BY <1>2, <1>3 DEF Enqueued
<1>9. \A v \in Worker : Known(v)'
    BY <1>1, <1>3, <1>4 DEF StagesTell, Known, Idle, TypeOK, Terminal
<1>10. OwnersAreCurrent'
    <2>1. ASSUME NEW j \in Job, job'[j].status = "PROCESSING"
          PROVE  OwnerIsCurrent(j)'
        <3> DEFINE o == job[j].owner
        <3>1. /\ job'[j].owner = o /\ o \in Worker
              /\ worker[o].stage = "dead" \/ (worker[o].job = j
                                               /\ worker[o].attempt = job[j].attempts)
            BY <1>2, <2>1 DEF OwnersAreCurrent, OwnerIsCurrent
        <3>2. worker[o].job = j /\ o = w => worker'[o] = [worker[o] EXCEPT !.stage = "validating"]
            BY <1>4, JobAssumption
        <3>3. /\ worker'[o].stage = "dead"
              \/ (worker'[o].job = j /\ worker'[o].attempt = job[j].attempts)
            BY <1>1, <1>4, <3>1, <3>2 DEF TypeOK
        <3> QED BY <1>2, <2>1, <3>1, <3>3 DEF OwnerIsCurrent
    <2>2. ASSUME NEW j \in Job, job'[j].status # "PROCESSING"
          PROVE  OwnerIsCurrent(j)'
        BY <1>2, <2>2 DEF OwnersAreCurrent, OwnerIsCurrent
    <2> QED BY <2>1, <2>2 DEF OwnersAreCurrent
<1>11. CompletedMeansDone'
    BY <1>2, <1>3 DEF CompletedMeansDone, Terminal
<1> QED BY <1>5, <1>7, <1>8, <1>9, <1>10, <1>11 DEF StagesTell

LEMMA ClaimInv ==
    ASSUME JobInv, NEW w \in Worker, NEW dead \in Job \cup {NoJob},
           NEW mine \in Job \cup {NoJob}, ClaimJobs(w, dead, mine)
    PROVE  JobInv'
<1> USE DEF JobInv
<1>1. /\ worker[w].stage = "idle" /\ worker[w].job = NoJob
      /\ UNCHANGED <<import, promotions>>
    BY DEF ClaimJobs, StagesTell, Known
<1>2. /\ dead \in Job => /\ Due(dead) /\ job[dead].attempts >= MaxAttempts
                         /\ job'[dead] = Quarantined(dead)
      /\ mine \in Job => /\ Due(mine) /\ job[mine].attempts < MaxAttempts /\ mine # dead
                         /\ job'[mine] = Claimed(mine, w)
      /\ \A j \in Job \ {dead, mine} : job'[j] = job[j]
    <2>1. /\ dead \in Job => Due(dead) /\ job[dead].attempts >= MaxAttempts
          /\ mine \in Job => Due(mine) /\ job[mine].attempts < MaxAttempts
        BY JobAssumption DEF ClaimJobs, Exhausted, Claimable
    <2>2. mine \in Job => mine # dead
        BY <2>1, JobAssumption DEF TypeOK
    <2> QED BY <2>1, <2>2, JobAssumption DEF ClaimJobs
<1>3. /\ job' = [j \in Job |-> job'[j]]
      /\ \A j \in Job :
          job'[j] \in [status: JobStatus, attempts: 0..MaxAttempts,
                       owner: Worker \cup {NoWorker}, leased: BOOLEAN]
    <2>1. dead \in Job => Quarantined(dead) \in [status: JobStatus, attempts: 0..MaxAttempts,
                       owner: Worker \cup {NoWorker}, leased: BOOLEAN]
        BY DEF Quarantined, TypeOK, JobStatus
    <2>2. mine \in Job => Claimed(mine, w) \in [status: JobStatus, attempts: 0..MaxAttempts,
                       owner: Worker \cup {NoWorker}, leased: BOOLEAN]
        BY <1>2, JobAssumption DEF Claimed, TypeOK, JobStatus
    <2>3. job' = [j \in Job |-> job'[j]]
        BY DEF ClaimJobs
    <2>4. \A j \in Job \ {dead, mine} :
            job'[j] \in [status: JobStatus, attempts: 0..MaxAttempts,
                         owner: Worker \cup {NoWorker}, leased: BOOLEAN]
        BY <1>2 DEF TypeOK
    <2> QED BY <1>2, <2>1, <2>2, <2>3, <2>4
<1>4. PICK next \in [stage: Stage, job: Job \cup {NoJob}, attempt: 0..MaxAttempts,
                     saw: ImportStatus] :
          /\ worker' = [worker EXCEPT ![w] = next]
          /\ next.stage = "claimed" /\ next.job = mine
          /\ mine \in Job => next.attempt = job[mine].attempts + 1
    <2> DEFINE made == [stage |-> "claimed", job |-> mine, saw |-> "none",
                        attempt |-> IF mine = NoJob THEN 0 ELSE job[mine].attempts + 1]
    <2>1. (IF mine = NoJob THEN 0 ELSE job[mine].attempts + 1) \in 0..MaxAttempts
        BY <1>2, JobAssumption DEF TypeOK
    <2>2. made \in [stage: Stage, job: Job \cup {NoJob}, attempt: 0..MaxAttempts,
                    saw: ImportStatus]
        BY <2>1 DEF Stage, ImportStatus
    <2>3. mine \in Job => made.attempt = job[mine].attempts + 1
        BY JobAssumption
    <2>4. worker' = [worker EXCEPT ![w] = made] /\ made.stage = "claimed" /\ made.job = mine
        BY DEF ClaimJobs
    <2> HIDE DEF made
    <2> QED BY <2>2, <2>3, <2>4
<1>5. TypeOK'
    BY <1>1, <1>3, <1>4 DEF TypeOK
<1>6. mine \in Job =>
        /\ job'[mine].status = "PROCESSING" /\ job'[mine].owner = w
        /\ job'[mine].attempts = job[mine].attempts + 1
    BY <1>2 DEF Claimed
<1>7. dead \in Job =>
        /\ job'[dead].status = "QUARANTINED" /\ job'[dead].owner = NoWorker
        /\ ~job'[dead].leased /\ job'[dead].attempts = job[dead].attempts
    BY <1>2 DEF Quarantined, TypeOK
<1>8. \A j \in {dead, mine} : j \in Job =>
        job[j].status \in {"PENDING", "PROCESSING"} /\ import[j] # "none"
    BY <1>2 DEF Due, Enqueued
<1>9. Enqueued' /\ CompletedMeansDone'
    BY <1>1, <1>2, <1>6, <1>7, <1>8 DEF Enqueued, CompletedMeansDone
<1>10. \A v \in Worker : Known(v)'
    BY <1>1, <1>4, <1>8, JobAssumption DEF StagesTell, Known, TypeOK
<1>11. \A j \in Job : OwnerIsCurrent(j)'
    <2>1. worker'[w].job = mine /\ (mine \in Job => worker'[w].attempt = job'[mine].attempts)
        BY <1>4, <1>6 DEF TypeOK
    <2>2. mine \in Job => OwnerIsCurrent(mine)'
        BY <1>6, <2>1 DEF OwnerIsCurrent
    <2>3. dead \in Job => OwnerIsCurrent(dead)'
        BY <1>7 DEF OwnerIsCurrent
    <2>4. ASSUME NEW j \in Job \ {dead, mine}
          PROVE  OwnerIsCurrent(j)'
        <3>1. \A v \in Worker \ {w} : worker'[v] = worker[v]
            BY <1>4 DEF TypeOK
        <3>2. job[j].owner = w => job[j].status # "PROCESSING"
            BY <1>1, JobAssumption DEF OwnersAreCurrent, OwnerIsCurrent
        <3> QED BY <1>2, <3>1, <3>2 DEF OwnersAreCurrent, OwnerIsCurrent
    <2> QED BY <2>2, <2>3, <2>4
<1>12. Budgeted'
    <2>1. ASSUME NEW j \in Job
          PROVE  promotions'[j] + Cardinality(Promoters(j)') <= job'[j].attempts
        <3>1. promotions[j] \in Nat /\ job[j].attempts \in Nat
            BY JobAssumption DEF TypeOK
        <3>2. promotions[j] + Cardinality(Promoters(j)) <= job[j].attempts
            BY DEF Budgeted
        <3>3. CASE j = mine
            <4>1. Promoters(j)' = Promoters(j) \cup {w} /\ w \notin Promoters(j)
                BY <1>1, <1>4, <3>3 DEF Promoters, TypeOK
            <4>2. Cardinality(Promoters(j)') = Cardinality(Promoters(j)) + 1
                BY <4>1, FinitePromoters, FS_AddElement
            <4> QED BY <1>1, <1>6, <3>1, <3>2, <3>3, <4>2, FinitePromoters
        <3>4. CASE j # mine
            <4>1. Promoters(j)' \subseteq Promoters(j)
                BY <1>4, <3>4 DEF Promoters, TypeOK
            <4>2. Cardinality(Promoters(j)') <= Cardinality(Promoters(j))
                BY <4>1, FinitePromoters, FS_Subset
            <4>3. job'[j].attempts = job[j].attempts
                BY <1>2, <1>7, <3>4
            <4> QED BY <1>1, <3>1, <3>2, <4>2, <4>3, FinitePromoters, FinitePromotersNext
        <3> QED BY <3>3, <3>4
    <2> QED BY <2>1 DEF Budgeted, Promoters
<1> QED BY <1>5, <1>9, <1>10, <1>11, <1>12 DEF StagesTell, OwnersAreCurrent

LEMMA ValidateInv ==
    ASSUME JobInv, NEW w \in Worker, NEW verdict \in Verdict, Validate(w, verdict)
    PROVE  JobInv'
<1> USE DEF JobInv
<1>1. PICK j \in Job : /\ j = worker[w].job /\ import[j] = "VALIDATING"
                       /\ import' = [import EXCEPT ![j] = verdict]
    BY DEF Validate, StagesTell, Known, TypeOK
<1>2. /\ worker[w].stage = "validating"
      /\ worker' = [worker EXCEPT ![w].stage = "staged"]
      /\ UNCHANGED <<promotions, job>>
    BY DEF Validate
<1>3. verdict \in Terminal \cup {"READY"} /\ "VALIDATING" \notin Terminal \cup {"READY"}
    BY DEF Verdict, Terminal
<1>4. TypeOK'
    BY <1>1, <1>2, <1>3 DEF TypeOK, ImportStatus, Stage
<1>5. \A k \in Job : Promoters(k)' \subseteq Promoters(k)
    BY <1>2 DEF Promoters, TypeOK
<1>6. Budgeted'
    BY <1>2, <1>5, NothingSpent
<1>7. Enqueued' /\ CompletedMeansDone'
    BY <1>1, <1>2, <1>3 DEF Enqueued, CompletedMeansDone, Terminal, TypeOK
<1>8. \A v \in Worker : Known(v)'
    BY <1>1, <1>2, <1>3 DEF StagesTell, Known, Terminal, TypeOK
<1>9. OwnersAreCurrent'
    BY <1>2 DEF OwnersAreCurrent, OwnerIsCurrent, TypeOK
<1> QED BY <1>4, <1>6, <1>7, <1>8, <1>9 DEF StagesTell

LEMMA RefreshInv ==
    ASSUME JobInv, NEW w \in Worker, Refresh(w)
    PROVE  JobInv'
<1> USE DEF JobInv
<1>1. PICK j \in Job : j = worker[w].job /\ import[j] \in Terminal \cup {"READY"}
    BY DEF Refresh, StagesTell, Known, TypeOK
<1>2. /\ worker' \in [Worker -> [stage: Stage, job: Job \cup {NoJob},
                                 attempt: 0..MaxAttempts, saw: ImportStatus]]
      /\ worker'[w].stage = "validated" /\ worker'[w].job = j
      /\ worker'[w].saw = import[j] /\ worker'[w].attempt = worker[w].attempt
      /\ \A v \in Worker \ {w} : worker'[v] = worker[v]
    <2> DEFINE mid == [worker EXCEPT ![w].stage = "validated"]
    <2>1. /\ mid \in [Worker -> [stage: Stage, job: Job \cup {NoJob},
                                 attempt: 0..MaxAttempts, saw: ImportStatus]]
          /\ mid[w].stage = "validated" /\ mid[w].job = j
          /\ mid[w].attempt = worker[w].attempt
          /\ \A v \in Worker \ {w} : mid[v] = worker[v]
        BY <1>1 DEF TypeOK, Stage
    <2>2. worker' = [mid EXCEPT ![w].saw = import[j]] /\ import[j] \in ImportStatus
        BY <1>1 DEF Refresh, TypeOK
    <2> HIDE DEF mid
    <2> QED BY <2>1, <2>2
<1>3. UNCHANGED <<import, promotions, job>> /\ worker[w].stage = "staged"
    BY DEF Refresh
<1>4. TypeOK'
    BY <1>2, <1>3 DEF TypeOK
<1>5. \A k \in Job : Promoters(k)' \subseteq Promoters(k)
    BY <1>1, <1>2, <1>3 DEF Promoters, TypeOK
<1>6. Budgeted'
    BY <1>3, <1>5, NothingSpent
<1>7. Enqueued' /\ CompletedMeansDone'
    BY <1>3 DEF Enqueued, CompletedMeansDone
<1>8. \A v \in Worker : Known(v)'
    BY <1>1, <1>2, <1>3, JobAssumption DEF StagesTell, Known, Terminal, TypeOK
<1>9. OwnersAreCurrent'
    BY <1>1, <1>2, <1>3 DEF OwnersAreCurrent, OwnerIsCurrent, TypeOK
<1> QED BY <1>4, <1>6, <1>7, <1>8, <1>9 DEF StagesTell

LEMMA ApplyInv ==
    ASSUME JobInv, NEW w \in Worker, NEW outcome \in Terminal, Apply(w, outcome),
           worker[w].stage \in {"validating", "validated"}
    PROVE  JobInv'
<1> USE DEF JobInv
<1>1. PICK j \in Job : j = worker[w].job /\ import[j] # "none"
    BY DEF StagesTell, Known, TypeOK
<1>2. /\ import' = [import EXCEPT ![j] = outcome] /\ outcome \in Terminal
      /\ worker' = [worker EXCEPT ![w].stage = "promoted"]
      /\ UNCHANGED job
    BY <1>1 DEF Apply
<1>3. /\ DOMAIN promotions' = Job /\ promotions' = [k \in Job |-> promotions'[k]]
      /\ promotions'[j] \in {promotions[j], promotions[j] + 1}
      /\ \A k \in Job \ {j} : promotions'[k] = promotions[k]
    BY <1>1 DEF Apply, TypeOK
<1>4. \A k \in Job : /\ promotions[k] \in Nat /\ promotions'[k] \in Nat
                     /\ job[k].attempts \in Nat /\ job[k].attempts \in 0..MaxAttempts
    BY <1>3, JobAssumption DEF TypeOK
<1>5. /\ worker' \in [Worker -> [stage: Stage, job: Job \cup {NoJob},
                                 attempt: 0..MaxAttempts, saw: ImportStatus]]
      /\ worker'[w].stage = "promoted" /\ worker'[w].job = j
      /\ worker'[w].attempt = worker[w].attempt
      /\ \A v \in Worker \ {w} : worker'[v] = worker[v]
    BY <1>1, <1>2 DEF TypeOK, Stage
<1>6. Budgeted'
    <2>1. ASSUME NEW k \in Job
          PROVE  promotions'[k] + Cardinality(Promoters(k)') <= job'[k].attempts
        <3>1. promotions[k] + Cardinality(Promoters(k)) <= job[k].attempts
            BY DEF Budgeted
        <3>2. CASE k = j
            <4>1. Promoters(k)' = Promoters(k) \ {w} /\ w \in Promoters(k)
                BY <1>1, <1>5, <3>2 DEF Promoters
            <4>2. Cardinality(Promoters(k)') = Cardinality(Promoters(k)) - 1
                BY <4>1, FinitePromoters, FS_RemoveElement
            <4> QED BY <1>2, <1>3, <1>4, <3>1, <3>2, <4>2, FinitePromoters
        <3>3. CASE k # j
            <4>1. Promoters(k)' = Promoters(k)
                BY <1>1, <1>5, <3>3 DEF Promoters
            <4> QED BY <1>2, <1>3, <3>1, <3>3, <4>1
        <3> QED BY <3>2, <3>3
    <2> QED BY <2>1 DEF Budgeted, Promoters
<1>7. \A k \in Job : promotions'[k] \in 0..MaxAttempts
    BY <1>2, <1>4, <1>6, WithinBudget
<1>8. TypeOK'
    BY <1>2, <1>3, <1>5, <1>7 DEF TypeOK, ImportStatus
<1>9. Enqueued' /\ CompletedMeansDone'
    BY <1>1, <1>2 DEF Enqueued, CompletedMeansDone, Terminal, TypeOK
<1>10. \A v \in Worker : Known(v)'
    BY <1>1, <1>2, <1>5, JobAssumption DEF StagesTell, Known, Terminal, TypeOK
<1>11. OwnersAreCurrent'
    BY <1>1, <1>2, <1>5 DEF OwnersAreCurrent, OwnerIsCurrent
<1> QED BY <1>6, <1>8, <1>9, <1>10, <1>11 DEF StagesTell

\* A worker that is done, or cannot go on, only leaves its stage.
LEMMA EndsInv ==
    ASSUME JobInv, NEW w \in Worker, NEW next \in {"promoted", "raised"},
           worker[w].stage \in {"validating", "staged", "validated"},
           next = "promoted" => import[worker[w].job] \in Terminal,
           worker' = [worker EXCEPT ![w].stage = next],
           UNCHANGED <<import, promotions, job>>
    PROVE  JobInv'
<1> USE DEF JobInv
<1>1. TypeOK'
    BY DEF TypeOK, Stage
<1>2. \A k \in Job : Promoters(k)' \subseteq Promoters(k)
    BY DEF Promoters, TypeOK
<1>3. Budgeted'
    BY <1>2, NothingSpent
<1>4. Enqueued' /\ CompletedMeansDone'
    BY DEF Enqueued, CompletedMeansDone
<1>5. \A v \in Worker : Known(v)'
    BY DEF StagesTell, Known, TypeOK
<1>6. OwnersAreCurrent'
    BY DEF OwnersAreCurrent, OwnerIsCurrent, TypeOK
<1> QED BY <1>1, <1>3, <1>4, <1>5, <1>6 DEF StagesTell

\* Reporting releases the job of a worker that still owns it, and only then.
LEMMA ReportInv ==
    ASSUME JobInv, NEW w \in Worker, NEW j \in Job, j = worker[w].job,
           NEW status \in {"PENDING", "QUARANTINED", "COMPLETED"},
           worker' = [worker EXCEPT ![w] = Idle],
           worker[w].stage \in {"promoted", "raised"},
           \/ ~Owns(w, j) /\ UNCHANGED <<job, import>>
           \/ /\ Owns(w, j)
              /\ job' = [job EXCEPT ![j] = Released(j, status)]
              /\ status = "COMPLETED" => import[j] \in Terminal
              /\ import' = import \/ (/\ import' = [import EXCEPT ![j] = "FAILED"]
                                      /\ import[j] \notin Terminal),
           UNCHANGED promotions
    PROVE  JobInv'
<1> USE DEF JobInv
<1>1. \A k \in Job : /\ import'[k] = import[k] \/ (/\ import'[k] = "FAILED" /\ k = j
                                                   /\ import[k] \notin Terminal)
                     /\ import'[k] \in ImportStatus
    BY DEF TypeOK, ImportStatus, Terminal
<1>2. import' \in [Job -> ImportStatus]
    BY <1>1 DEF TypeOK
<1>3. Idle \in [stage: Stage, job: Job \cup {NoJob}, attempt: 0..MaxAttempts,
                saw: ImportStatus]
    BY JobAssumption DEF Idle, Stage, ImportStatus
<1>4. Released(j, status) \in [status: JobStatus, attempts: 0..MaxAttempts,
                               owner: Worker \cup {NoWorker}, leased: BOOLEAN]
    <2>0. PICK row \in [status: JobStatus, attempts: 0..MaxAttempts,
                        owner: Worker \cup {NoWorker}, leased: BOOLEAN] : row = job[j]
        BY DEF TypeOK
    <2> DEFINE free == [row EXCEPT !.leased = FALSE]
               moved == [free EXCEPT !.status = status]
    <2>1. free \in [status: JobStatus, attempts: 0..MaxAttempts,
                    owner: Worker \cup {NoWorker}, leased: BOOLEAN]
        OBVIOUS
    <2>2. moved \in [status: JobStatus, attempts: 0..MaxAttempts,
                     owner: Worker \cup {NoWorker}, leased: BOOLEAN]
        <3> HIDE DEF free
        <3> QED BY <2>1 DEF JobStatus
    <2>3. Released(j, status) = [moved EXCEPT !.owner = NoWorker]
        BY <2>0 DEF Released
    <2> HIDE DEF moved
    <2> QED BY <2>2, <2>3
<1>5. /\ Released(j, status).status = status /\ Released(j, status).owner = NoWorker
      /\ Released(j, status).attempts = job[j].attempts /\ ~Released(j, status).leased
    BY DEF Released, TypeOK
<1>6. /\ \A v \in Worker \ {w} : worker'[v] = worker[v]
      /\ worker'[w].stage = "idle" /\ worker'[w].job = NoJob
    BY DEF Idle, TypeOK
<1>7. \A k \in Job : \/ job'[k] = job[k]
                     \/ k = j /\ Owns(w, j) /\ job'[k] = Released(j, status)
    BY DEF TypeOK
<1>8. TypeOK'
    <2>1. worker' \in [Worker -> [stage: Stage, job: Job \cup {NoJob}, attempt: 0..MaxAttempts,
                                  saw: ImportStatus]]
        BY <1>3 DEF TypeOK
    <2>2. job' \in [Job -> [status: JobStatus, attempts: 0..MaxAttempts,
                            owner: Worker \cup {NoWorker}, leased: BOOLEAN]]
        BY <1>4 DEF TypeOK
    <2> QED BY <1>2, <2>1, <2>2 DEF TypeOK
<1>9. \A k \in Job : Promoters(k)' \subseteq Promoters(k)
    BY <1>6, JobAssumption DEF Promoters
<1>10. Budgeted'
    BY <1>5, <1>7, <1>9, NothingSpent
<1>11. Enqueued' /\ CompletedMeansDone'
    BY <1>1, <1>5, <1>7 DEF Enqueued, CompletedMeansDone, Owns, Terminal
<1>12. \A v \in Worker : Known(v)'
    BY <1>1, <1>6, JobAssumption DEF StagesTell, Known, Terminal, TypeOK
<1>13. \A k \in Job : OwnerIsCurrent(k)'
    <2>1. ASSUME NEW k \in Job, job'[k] = job[k], job[k].status = "PROCESSING", job[k].owner = w
          PROVE  FALSE
        <3>1. k = j
            BY <2>1 DEF OwnersAreCurrent, OwnerIsCurrent
        <3>2. job'[j] = Released(j, status)
            BY <2>1, <3>1 DEF Owns, TypeOK
        <3> QED BY <2>1, <3>1, <3>2, <1>5, JobAssumption
    <2> QED BY <1>5, <1>6, <1>7, <2>1 DEF OwnersAreCurrent, OwnerIsCurrent, Owns
<1> QED BY <1>8, <1>10, <1>11, <1>12, <1>13 DEF StagesTell, OwnersAreCurrent

LEMMA DiesInv ==
    ASSUME JobInv, NEW w \in Worker, WorkerDies(w)
    PROVE  JobInv'
<1> USE DEF JobInv
<1>1. UNCHANGED <<import, promotions, job>>
    BY DEF WorkerDies
<1>2. /\ worker' \in [Worker -> [stage: Stage, job: Job \cup {NoJob},
                                 attempt: 0..MaxAttempts, saw: ImportStatus]]
      /\ worker'[w].stage = "dead" /\ worker'[w].job = NoJob
      /\ \A v \in Worker \ {w} : worker'[v] = worker[v]
    <2>1. [Idle EXCEPT !.stage = "dead"] =
            [stage |-> "dead", job |-> NoJob, attempt |-> 0, saw |-> "none"]
        BY DEF Idle
    <2>2. [stage |-> "dead", job |-> NoJob, attempt |-> 0, saw |-> "none"] \in
            [stage: Stage, job: Job \cup {NoJob}, attempt: 0..MaxAttempts, saw: ImportStatus]
        BY JobAssumption DEF Stage, ImportStatus
    <2> QED BY <2>1, <2>2 DEF WorkerDies, TypeOK
<1>3. TypeOK'
    BY <1>1, <1>2 DEF TypeOK
<1>4. \A k \in Job : Promoters(k)' \subseteq Promoters(k)
    BY <1>2, JobAssumption DEF Promoters
<1>5. Budgeted'
    BY <1>1, <1>4, NothingSpent
<1>6. Enqueued' /\ CompletedMeansDone'
    BY <1>1 DEF Enqueued, CompletedMeansDone
<1>7. \A v \in Worker : Known(v)'
    BY <1>1, <1>2, JobAssumption DEF StagesTell, Known, TypeOK
<1>8. OwnersAreCurrent'
    BY <1>1, <1>2 DEF OwnersAreCurrent, OwnerIsCurrent
<1> QED BY <1>3, <1>5, <1>6, <1>7, <1>8 DEF StagesTell

LEMMA CompletesInv ==
    ASSUME JobInv, NEW w \in Worker, MarkCompleted(w)
    PROVE  JobInv'
<1>1. PICK j \in Job : j = worker[w].job /\ import[j] \in Terminal
    BY DEF JobInv, TypeOK, StagesTell, Known, MarkCompleted
<1>2. /\ worker[w].stage = "promoted"
      /\ worker' = [worker EXCEPT ![w] = Idle]
      /\ UNCHANGED <<import, promotions>>
      /\ \/ ~Owns(w, j) /\ job' = job
         \/ Owns(w, j) /\ job' = [job EXCEPT ![j] = Released(j, "COMPLETED")]
    BY <1>1 DEF MarkCompleted
<1> QED BY <1>1, <1>2, ReportInv

LEMMA FailsInv ==
    ASSUME JobInv, NEW w \in Worker, MarkFailed(w)
    PROVE  JobInv'
<1>1. PICK j \in Job : j = worker[w].job
    BY DEF JobInv, TypeOK, StagesTell, Known, MarkFailed
<1>2. PICK status \in {"PENDING", "QUARANTINED"} :
        /\ worker[w].stage = "raised"
        /\ worker' = [worker EXCEPT ![w] = Idle]
        /\ UNCHANGED promotions
        /\ \/ ~Owns(w, j) /\ UNCHANGED <<job, import>>
           \/ /\ Owns(w, j)
              /\ job' = [job EXCEPT ![j] = Released(j, status)]
              /\ import' = import \/ (/\ import' = [import EXCEPT ![j] = "FAILED"]
                                      /\ import[j] \notin Terminal)
    BY <1>1 DEF MarkFailed, MayFail
<1> QED BY <1>1, <1>2, ReportInv

\* What the transaction of a worker that promotes has to begin with.
LEMMA PromotionApplies ==
    ASSUME NEW w \in Worker, NEW outcome \in Terminal,
           PromoteLocked(w, outcome) \/ PromoteValidated(w, outcome)
    PROVE  /\ Apply(w, outcome)
           /\ worker[w].stage \in {"validating", "validated"}
           /\ worker[w].stage = "validating" => import[worker[w].job] = "READY"
           /\ worker[w].stage = "validated" => worker[w].saw = "READY"
    BY DEF PromoteLocked, PromoteValidated, Promotable

LEMMA NextJobInv ==
    ASSUME JobInv, [Next]_vars
    PROVE  JobInv'
<1>1. CASE UNCHANGED vars
    <2>1. UNCHANGED <<import, promotions, job, worker>>
        BY <1>1 DEF vars
    <2>2. TypeOK' /\ CompletedMeansDone' /\ Enqueued'
        BY <2>1 DEF JobInv, TypeOK, CompletedMeansDone, Enqueued
    <2>3. StagesTell' /\ OwnersAreCurrent' /\ Budgeted'
        BY <2>1 DEF JobInv, StagesTell, Known, OwnersAreCurrent, OwnerIsCurrent, Budgeted,
                    Promoters
    <2> QED BY <2>2, <2>3 DEF JobInv
<1>2. ASSUME NEW j \in Job, AcceptCatalogImport(j) \/ LeaseExpires(j)
      PROVE  JobInv'
    BY <1>2, AcceptInv, LeaseInv
<1>3. ASSUME NEW w \in Worker, Polls(w)
      PROVE  JobInv'
    BY <1>3, ClaimInv DEF Polls
<1>4. ASSUME NEW w \in Worker, Process(w)
      PROVE  JobInv'
    <2>1. CASE \E skipped \in SUBSET Job : ReconcileQuarantinedImports(w, skipped)
        BY <2>1, ReconcileInv
    <2>2. CASE \E verdict \in Verdict : Validate(w, verdict)
        BY <2>2, ValidateInv
    <2>3. CASE Refresh(w)
        BY <2>3, RefreshInv
    <2>4. CASE \E outcome \in Terminal : PromoteLocked(w, outcome) \/ PromoteValidated(w, outcome)
        BY <2>4, PromotionApplies, ApplyInv
    <2>5. CASE NothingToPromote(w)
        <3>1. import[worker[w].job] \in Terminal
            BY <2>5 DEF NothingToPromote, JobInv, StagesTell, Known
        <3> QED BY <2>5, <3>1, EndsInv DEF NothingToPromote
    <2>6. CASE Raise(w)
        BY <2>6, EndsInv DEF Raise
    <2>7. CASE MarkCompleted(w)
        BY <2>7, CompletesInv
    <2>8. CASE MarkFailed(w)
        BY <2>8, FailsInv
    <2> QED BY <1>4, <2>1, <2>2, <2>3, <2>4, <2>5, <2>6, <2>7, <2>8 DEF Process
<1>5. ASSUME NEW w \in Worker, WorkerDies(w)
      PROVE  JobInv'
    BY <1>5, DiesInv
<1> QED BY <1>1, <1>2, <1>3, <1>4, <1>5 DEF Next

LEMMA JobInvHolds == Spec => []JobInv
    BY InitJobInv, NextJobInv, PTL DEF Spec

-----------------------------------------------------------------------------
(* Theorems.                                                                *)

\* Every variable keeps its type; above all, the rows of an import are applied no
\* more often than its job has attempts.
THEOREM TypeCorrect == Spec => []TypeOK
    BY JobInvHolds, PTL DEF JobInv

\* mark_job_completed never leaves an import behind in VALIDATING or READY.
THEOREM CompletedJobsAreDone == Spec => []CompletedMeansDone
    BY JobInvHolds, PTL DEF JobInv

\* The lease protects the row of the job, not the worker: it may have been claimed
\* again, but whoever owns it is the worker of its last attempt.
THEOREM OneOwner == Spec => []OwnersAreCurrent
    BY JobInvHolds, PTL DEF JobInv

\* A terminal import changes only under a worker that has validated it and
\* promotes it by the status in its session.
THEOREM ResultsAreFinal == Spec => TerminalImportIsFinal
<1> DEFINE Exception(j) == \E w \in Worker :
                /\ worker[w].job = j /\ worker[w].saw = "READY"
                /\ worker[w].stage = "validated" /\ worker'[w].stage = "promoted"
           Kept(j) == import'[j] = import[j] /\ promotions'[j] = promotions[j]
           Step == \A j \in Job :
                import[j] \in Terminal =>
                    \/ import'[j] = import[j] /\ promotions'[j] = promotions[j]
                    \/ \E w \in Worker : /\ worker[w].job = j /\ worker[w].saw = "READY"
                                          /\ worker[w].stage = "validated"
                                          /\ worker'[w].stage = "promoted"
<1>1. ASSUME JobInv, [Next]_vars PROVE [Step]_vars
    <2> SUFFICES ASSUME NEW j \in Job, import[j] \in Terminal, Next, JobInv
                 PROVE  Kept(j) \/ Exception(j)
        BY <1>1
    <2>1. ASSUME NEW k \in Job, AcceptCatalogImport(k) \/ LeaseExpires(k)
          PROVE  Kept(j)
        BY <2>1 DEF JobInv, TypeOK, AcceptCatalogImport, LeaseExpires, Terminal
    <2>2. ASSUME NEW w \in Worker, Polls(w) \/ WorkerDies(w)
          PROVE  Kept(j)
        BY <2>2 DEF Polls, ClaimJobs, WorkerDies
    <2>3. ASSUME NEW w \in Worker, NEW outcome \in Terminal,
                 PromoteLocked(w, outcome) \/ PromoteValidated(w, outcome)
          PROVE  Kept(j) \/ Exception(j)
        <3>1. CASE worker[w].job # j
            BY <2>3, <3>1, PromotionApplies DEF Apply, JobInv, TypeOK
        <3>2. CASE worker[w].job = j
            <4>1. worker[w].stage = "validated" /\ worker[w].saw = "READY"
                BY <2>3, <3>2, PromotionApplies DEF Terminal
            <4>2. worker'[w].stage = "promoted"
                BY <2>3, PromotionApplies DEF Apply, JobInv, TypeOK
            <4> QED BY <3>2, <4>1, <4>2
        <3> QED BY <3>1, <3>2
    <2>4. ASSUME NEW w \in Worker, Process(w),
                 ~\E outcome \in Terminal : PromoteLocked(w, outcome) \/ PromoteValidated(w, outcome)
          PROVE  Kept(j)
        <3>1. CASE \E skipped \in SUBSET Job : ReconcileQuarantinedImports(w, skipped)
            BY <3>1 DEF ReconcileQuarantinedImports
        <3>2. CASE \E verdict \in Verdict : Validate(w, verdict)
            BY <3>2 DEF Validate, Terminal, JobInv, TypeOK
        <3>3. CASE Refresh(w) \/ NothingToPromote(w) \/ Raise(w) \/ MarkCompleted(w)
            BY <3>3 DEF Refresh, NothingToPromote, Raise, MarkCompleted
        <3>4. CASE MarkFailed(w)
            BY <3>4 DEF MarkFailed, MayFail, JobInv, TypeOK
        <3> QED BY <2>4, <3>1, <3>2, <3>3, <3>4 DEF Process
    <2> QED BY <2>1, <2>2, <2>3, <2>4 DEF Next
<1>2. [][Step]_vars => TerminalImportIsFinal
    BY PTL DEF TerminalImportIsFinal
<1> QED BY <1>1, <1>2, JobInvHolds, PTL DEF Spec

\* A leased job changes hands only when its owner reports: claim_jobs waits for
\* the lease, and a worker that lost it ends nobody else's attempt.
THEOREM OwnersReport == Spec => AttemptsAreOwned
<1> DEFINE Step == \A j \in Job :
        (job[j].status = "PROCESSING" /\ job[j].leased /\ job'[j].owner # job[j].owner) =>
            worker[job[j].owner].job = j /\ worker'[job[j].owner] = Idle
<1>1. ASSUME JobInv, [Next]_vars PROVE [Step]_vars
    <2> SUFFICES ASSUME NEW j \in Job, job[j].status = "PROCESSING", job[j].leased,
                        job'[j].owner # job[j].owner, Next, JobInv
                 PROVE  worker[job[j].owner].job = j /\ worker'[job[j].owner] = Idle
        BY <1>1
    <2>1. ASSUME NEW k \in Job, AcceptCatalogImport(k) \/ LeaseExpires(k)
          PROVE  FALSE
        BY <2>1 DEF JobInv, TypeOK, Enqueued, AcceptCatalogImport, LeaseExpires
    <2>2. ASSUME NEW w \in Worker, NEW dead \in Job \cup {NoJob}, NEW mine \in Job \cup {NoJob},
                 ClaimJobs(w, dead, mine)
          PROVE  FALSE
        <3>1. job'[j] = IF j = dead THEN Quarantined(dead)
                        ELSE IF j = mine THEN Claimed(mine, w) ELSE job[j]
            BY <2>2 DEF ClaimJobs
        <3>2. j # dead /\ j # mine
            BY <2>2, JobAssumption DEF ClaimJobs, Exhausted, Claimable, Due
        <3> QED BY <3>1, <3>2
    <2>3. ASSUME NEW w \in Worker, WorkerDies(w)
          PROVE  FALSE
        BY <2>3 DEF WorkerDies
    <2>4. ASSUME NEW w \in Worker, Process(w)
          PROVE  worker[job[j].owner].job = j /\ worker'[job[j].owner] = Idle
        <3>1. CASE \E skipped \in SUBSET Job : ReconcileQuarantinedImports(w, skipped)
            BY <3>1 DEF ReconcileQuarantinedImports, Stranded, JobInv, TypeOK
        <3>2. CASE \/ \E verdict \in Verdict : Validate(w, verdict)
                   \/ \E outcome \in Terminal :
                        PromoteLocked(w, outcome) \/ PromoteValidated(w, outcome)
                   \/ Refresh(w) \/ NothingToPromote(w) \/ Raise(w)
            BY <3>2 DEF Validate, PromoteLocked, PromoteValidated, Apply, Refresh,
                        NothingToPromote, Raise
        <3>3. CASE MarkCompleted(w) \/ MarkFailed(w)
            <4>1. Owns(w, worker[w].job) /\ worker[w].job = j
                BY <3>3 DEF MarkCompleted, MarkFailed, JobInv, TypeOK
            <4>2. worker'[w] = Idle
                BY <3>3 DEF MarkCompleted, MarkFailed, JobInv, TypeOK
            <4> QED BY <4>1, <4>2 DEF Owns
        <3> QED BY <2>4, <3>1, <3>2, <3>3 DEF Process
    <2> QED BY <2>1, <2>2, <2>3, <2>4 DEF Next, Polls
<1>2. [][Step]_vars => AttemptsAreOwned
    BY PTL DEF AttemptsAreOwned
<1> QED BY <1>1, <1>2, JobInvHolds, PTL DEF Spec

=============================================================================
