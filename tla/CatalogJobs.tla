----------------------------- MODULE CatalogJobs -----------------------------
(***************************************************************************)
(* Durable jobs and the catalog imports they carry: jobs with a lease and  *)
(* an attempt budget, catalog workers that claim, validate, promote and    *)
(* report, the lease that runs out while its owner is still at work or     *)
(* gone, and the reconciliation of imports whose job was quarantined.      *)
(*                                                                         *)
(* Every import has one job, enqueued with it, so both have one id. Time is*)
(* abstracted: a pending job becomes available and a lease that is not     *)
(* renewed in time expires at any moment. One action is one transaction.   *)
(*                                                                         *)
(* A session keeps the objects it has loaded: its SELECT ... FOR UPDATE    *)
(* locks the row but returns the object as it was loaded before. So a      *)
(* worker that has validated an import promotes it by the status it saw.   *)
(***************************************************************************)
EXTENDS Integers, FiniteSets

CONSTANTS
    Job,          \* jobs and their imports; bounds the requests accepted
    Worker,       \* worker processes; a restarted one has a new worker_id
    NoWorker, NoJob,
    MaxAttempts   \* settings.worker_max_attempts

ASSUME JobAssumption ==
    /\ NoWorker \notin Worker /\ NoJob \notin Job
    /\ IsFiniteSet(Worker)
    /\ MaxAttempts \in Nat \ {0}

Terminal == {"COMPLETED", "REJECTED", "FAILED"}
ImportStatus == {"none", "VALIDATING", "READY"} \cup Terminal
JobStatus == {"none", "PENDING", "PROCESSING", "COMPLETED", "QUARANTINED"}
Stage == {"idle", "claimed", "validating", "staged", "validated", "promoted",
          "raised", "dead"}

VARIABLES
    import,     \* catalog_imports.status
    promotions, \* how often the import's rows were applied to the catalog
    job,        \* durable_jobs: status, attempts, locked_by, lease still running
    worker      \* per worker: where it is, with which job, on which attempt,
                \* and the import status it has loaded

vars == <<import, promotions, job, worker>>

NewJob == [status |-> "PENDING", attempts |-> 0, owner |-> NoWorker, leased |-> FALSE]
Idle == [stage |-> "idle", job |-> NoJob, attempt |-> 0, saw |-> "none"]

TypeOK ==
    /\ import \in [Job -> ImportStatus]
    /\ promotions \in [Job -> 0..MaxAttempts]
    /\ job \in [Job -> [status: JobStatus, attempts: 0..MaxAttempts,
                        owner: Worker \cup {NoWorker}, leased: BOOLEAN]]
    /\ worker \in [Worker -> [stage: Stage, job: Job \cup {NoJob},
                              attempt: 0..MaxAttempts, saw: ImportStatus]]

Init ==
    /\ import = [j \in Job |-> "none"]
    /\ promotions = [j \in Job |-> 0]
    /\ job = [j \in Job |-> [NewJob EXCEPT !.status = "none"]]
    /\ worker = [w \in Worker |-> Idle]

\* accept_catalog_import of a new idempotency key; a repeated one changes nothing.
AcceptCatalogImport(j) ==
    /\ import[j] = "none"
    /\ import' = [import EXCEPT ![j] = "VALIDATING"]
    /\ job' = [job EXCEPT ![j] = NewJob]
    /\ UNCHANGED <<promotions, worker>>

-----------------------------------------------------------------------------
(* claim_jobs and the lease.                                                *)

\* Pending, or abandoned by its owner.
Due(j) ==
    \/ job[j].status = "PENDING"
    \/ job[j].status = "PROCESSING" /\ ~job[j].leased

Exhausted == {j \in Job : Due(j) /\ job[j].attempts >= MaxAttempts}

\* Mutant: an attempt beyond the budget.
ClaimableAgain == {j \in Job : Due(j)}

Claimable == {j \in Job : Due(j) /\ job[j].attempts < MaxAttempts}

Quarantined(j) == [job[j] EXCEPT !.status = "QUARANTINED",
                                 !.owner = NoWorker, !.leased = FALSE]

Claimed(j, w) == [status |-> "PROCESSING", attempts |-> job[j].attempts + 1,
                  owner |-> w, leased |-> TRUE]

\* At most one job is quarantined and one is claimed. Which of the due jobs are
\* available by now, or locked by another worker, is left open.
ClaimJobs(w, dead, mine) ==
    /\ worker[w].stage = "idle"
    /\ dead \in Exhausted \cup {NoJob} /\ mine \in Claimable \cup {NoJob}
    /\ job' = [j \in Job |-> IF j = dead THEN Quarantined(j)
                             ELSE IF j = mine THEN Claimed(j, w) ELSE job[j]]
    /\ worker' = [worker EXCEPT ![w] =
                    [stage |-> "claimed", job |-> mine, saw |-> "none",
                     attempt |-> IF mine = NoJob THEN 0 ELSE job[mine].attempts + 1]]
    /\ UNCHANGED <<import, promotions>>

\* The heartbeat did not renew the lease in time.
LeaseExpires(j) ==
    /\ job[j].leased
    /\ job' = [job EXCEPT ![j].leased = FALSE]
    /\ UNCHANGED <<import, promotions, worker>>

-----------------------------------------------------------------------------
(* reconcile_quarantined_catalog_imports, after every claim.                *)

\* Rows that another worker may hold a lock on.
Busy(w) ==
    {j \in Job : \E v \in Worker \ {w} :
        worker[v].job = j /\ worker[v].stage \in {"validating", "validated", "raised"}}

\* Mutant: nothing is found to be stranded.
NotStranded(j) == FALSE

Stranded(j) == job[j].status = "QUARANTINED" /\ import[j] # "FAILED"

\* SKIP LOCKED passes over some of the busy rows.
ReconcileQuarantinedImports(w, skipped) ==
    LET found == {j \in Job \ skipped : Stranded(j)} IN
    /\ worker[w].stage = "claimed"
    /\ skipped \subseteq Busy(w)
    /\ job' = [j \in Job |->
                IF j \in found /\ import[j] \in Terminal
                THEN [job[j] EXCEPT !.status = "COMPLETED"] ELSE job[j]]
    /\ import' = [j \in Job |->
                IF j \in found /\ import[j] \notin Terminal THEN "FAILED" ELSE import[j]]
    /\ worker' = [worker EXCEPT ![w] =
                IF @.job = NoJob THEN Idle ELSE [@ EXCEPT !.stage = "validating"]]
    /\ UNCHANGED promotions

-----------------------------------------------------------------------------
(* process_catalog_import_job.                                              *)

\* What parsing the file and comparing it with the catalog may come to.
Verdict == {"READY", "REJECTED"}

\* validate_and_stage_catalog_import of a new import, up to its commit.
Validate(w, verdict) ==
    LET j == worker[w].job IN
    /\ worker[w].stage = "validating"
    /\ import[j] = "VALIDATING"
    /\ import' = [import EXCEPT ![j] = verdict]
    /\ worker' = [worker EXCEPT ![w].stage = "staged"]
    /\ UNCHANGED <<promotions, job>>

\* db.refresh of the import after that commit, without a lock.
Refresh(w) ==
    /\ worker[w].stage = "staged"
    /\ worker' = [worker EXCEPT ![w].stage = "validated",
                                ![w].saw = import[worker[w].job]]
    /\ UNCHANGED <<import, promotions, job>>

\* promote_catalog_import; a conflict with the catalog rolls the rows back and
\* fails the import.
Apply(w, outcome) ==
    LET j == worker[w].job IN
    /\ outcome \in {"COMPLETED", "FAILED"}
    /\ import' = [import EXCEPT ![j] = outcome]
    /\ promotions' = [promotions EXCEPT ![j] = IF outcome = "COMPLETED" THEN @ + 1 ELSE @]
    /\ worker' = [worker EXCEPT ![w].stage = "promoted"]
    /\ UNCHANGED job

Promotable(j) == import[j] = "READY"

\* Validated in an earlier attempt: the row stays locked from the load to the end
\* of the promotion.
PromoteLocked(w, outcome) ==
    LET j == worker[w].job IN
    /\ worker[w].stage = "validating"
    /\ Promotable(j)
    /\ Apply(w, outcome)

\* Validated in this attempt: the status check is of the object in the session.
PromoteValidated(w, outcome) ==
    /\ worker[w].stage = "validated" /\ worker[w].saw = "READY"
    /\ Apply(w, outcome)

\* Mutant: an import that an earlier attempt has validated is taken for done.
NothingToPromoteOnceValidated(w) ==
    /\ \/ worker[w].stage = "validating" /\ import[worker[w].job] \in Terminal \cup {"READY"}
       \/ worker[w].stage = "validated" /\ worker[w].saw # "READY"
    /\ worker' = [worker EXCEPT ![w].stage = "promoted"]
    /\ UNCHANGED <<import, promotions, job>>

\* The import that was loaded has its final status.
NothingToPromote(w) ==
    /\ \/ worker[w].stage = "validating" /\ import[worker[w].job] \in Terminal
       \/ worker[w].stage = "validated" /\ worker[w].saw # "READY"
    /\ worker' = [worker EXCEPT ![w].stage = "promoted"]
    /\ UNCHANGED <<import, promotions, job>>

\* Any exception before the promotion is committed. One after it ends like a worker
\* that is lost with its lease.
Raise(w) ==
    /\ worker[w].stage \in {"validating", "staged", "validated"}
    /\ worker' = [worker EXCEPT ![w].stage = "raised"]
    /\ UNCHANGED <<import, promotions, job>>

-----------------------------------------------------------------------------
(* Reporting: compare-and-set on the owner.                                 *)

\* Mutant: whoever reports last is believed.
OwnsAny(w, j) == job[j].status # "none"

Owns(w, j) == job[j].status = "PROCESSING" /\ job[j].owner = w

Released(j, status) == [job[j] EXCEPT !.status = status, !.owner = NoWorker,
                                      !.leased = FALSE]

MarkCompleted(w) ==
    LET j == worker[w].job IN
    /\ worker[w].stage = "promoted"
    /\ job' = IF Owns(w, j) THEN [job EXCEPT ![j] = Released(j, "COMPLETED")] ELSE job
    /\ worker' = [worker EXCEPT ![w] = Idle]
    /\ UNCHANGED <<import, promotions>>

\* Mutant: the import is failed whatever became of it.
MayFailAnyway(j) == TRUE

\* mark_catalog_import_failed_after_retry_exhaustion leaves a result alone.
MayFail(j) == import[j] \notin Terminal

\* Both updates commit together, or are rolled back when the job is lost.
MarkFailed(w) ==
    LET j == worker[w].job
        last == worker[w].attempt >= MaxAttempts
    IN  /\ worker[w].stage = "raised"
        /\ IF Owns(w, j)
           THEN /\ job' = [job EXCEPT ![j] = Released(j,
                        IF job[j].attempts >= MaxAttempts THEN "QUARANTINED" ELSE "PENDING")]
                /\ import' = IF last /\ MayFail(j) THEN [import EXCEPT ![j] = "FAILED"]
                             ELSE import
           ELSE UNCHANGED <<job, import>>
        /\ worker' = [worker EXCEPT ![w] = Idle]
        /\ UNCHANGED promotions

\* The process is gone, with whatever it had not committed. Its replacement is
\* another element of Worker, so the last one is not taken away.
WorkerDies(w) ==
    /\ worker[w].stage # "dead"
    /\ \E v \in Worker \ {w} : worker[v].stage # "dead"
    /\ worker' = [worker EXCEPT ![w] = [Idle EXCEPT !.stage = "dead"]]
    /\ UNCHANGED <<import, promotions, job>>

-----------------------------------------------------------------------------
Process(w) ==
    \/ \E skipped \in SUBSET Job : ReconcileQuarantinedImports(w, skipped)
    \/ \E verdict \in Verdict : Validate(w, verdict)
    \/ Refresh(w)
    \/ \E outcome \in Terminal : PromoteLocked(w, outcome) \/ PromoteValidated(w, outcome)
    \/ NothingToPromote(w)
    \/ Raise(w)
    \/ MarkCompleted(w)
    \/ MarkFailed(w)

Polls(w) == \E dead, mine \in Job \cup {NoJob} : ClaimJobs(w, dead, mine)

Takes(w, j) ==
    \E other \in Job \cup {NoJob} : ClaimJobs(w, j, other) \/ ClaimJobs(w, other, j)

Next ==
    \/ \E j \in Job : AcceptCatalogImport(j) \/ LeaseExpires(j)
    \/ \E w \in Worker :
        \/ Polls(w)
        \/ Process(w)
        \/ WorkerDies(w)

Spec == Init /\ [][Next]_vars

\* Workers poll forever and, in created_at order, come to every due job; a
\* statement ends at the latest by its timeout; a lease nobody renews runs out.
FairSpec ==
    /\ Spec
    /\ \A w \in Worker : WF_vars(Process(w)) /\ WF_vars(Polls(w))
    /\ \A j \in Job : WF_vars(LeaseExpires(j))
    /\ \A j \in Job : SF_vars(\E w \in Worker : Takes(w, j))

-----------------------------------------------------------------------------
(* Properties.                                                              *)

\* A completed job has finished its import: no import is left behind in
\* VALIDATING or READY by a job that nobody will run again.
CompletedMeansDone == \A j \in Job : job[j].status = "COMPLETED" => import[j] \in Terminal

\* The answer a client has read does not change and a file is not applied twice,
\* although an expired lease lets two workers process one import: a stale worker,
\* an exhausted retry budget and the reconciliation all leave a terminal import
\* alone. The one exception is a worker that has just validated it and promotes
\* it by the status in its session.
TerminalImportIsFinal ==
    [][\A j \in Job :
        import[j] \in Terminal =>
            \/ import'[j] = import[j] /\ promotions'[j] = promotions[j]
            \/ \E w \in Worker : /\ worker[w].job = j /\ worker[w].saw = "READY"
                                  /\ worker[w].stage = "validated"
                                  /\ worker'[w].stage = "promoted"]_vars

\* Ownership moves only to a claimant, and only a job its owner released or let
\* expire can be claimed: a stale worker never ends the attempt of another.
AttemptsAreOwned ==
    [][\A j \in Job :
        (job[j].status = "PROCESSING" /\ job[j].leased /\ job'[j].owner # job[j].owner) =>
            worker[job[j].owner].job = j /\ worker'[job[j].owner] = Idle]_vars

\* "Atomically promote a READY import", or answer 409: "READY is required".
OnlyReadyIsPromoted ==
    [][\A j \in Job : promotions'[j] # promotions[j] => import[j] = "READY"]_vars

\* "Exhausted work reaches a terminal status": every accepted import does, and the
\* job agrees with it in the end. A quarantined job has a failed import, or is
\* completed after all because a stale worker finished it.
ImportSettles ==
    \A j \in Job :
        /\ import[j] = "VALIDATING" ~> import[j] \in Terminal
        /\ job[j].status = "QUARANTINED" ~>
              \/ job[j].status = "QUARANTINED" /\ import[j] = "FAILED"
              \/ job[j].status = "COMPLETED" /\ import[j] \in Terminal

=============================================================================
