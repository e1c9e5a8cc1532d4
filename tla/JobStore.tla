------------------------------ MODULE JobStore ------------------------------
(***************************************************************************)
(* The workflow-job half of InMemoryRunRepository                          *)
(* (src/src/aeai_os/runs/repository.py): the job records, the order they   *)
(* were created in, and the run status that the job operations overwrite.  *)
(* Every method of the repository holds one RLock from its first read to   *)
(* its last write, so every method is one atomic action here, whoever      *)
(* calls it with whatever arguments the callers in src/ can pass.          *)
(*                                                                         *)
(* Time is abstracted to what the code compares: a running job is `stale'  *)
(* once its heartbeat lies before the recovery cutoff.                     *)
(*                                                                         *)
(* An operator Op_What is Op with a fault in it, used only to see that the *)
(* runs notice (the table of faults in the README).                        *)
(***************************************************************************)
EXTENDS Integers, Sequences, FiniteSets

CONSTANTS Jobs,          \* identifiers a job may be created under (uuid4 values)
          Runs,          \* identifiers a run may be created under
          Workers,       \* worker ids that present themselves to the repository
          Claimable,     \* names of the workflows that workers poll for
          Approval,      \* the deployment workflow: decided by people, never claimed
          Submissions,   \* [wf, max] pairs with which the callers enqueue jobs
          Reported,      \* the statuses that callers write into runs
          Archives,      \* the run archives that may be imported
          None,          \* "no worker", "no run", "no workflow"
          MaxManual,     \* bound: manual retries of one job
          MaxRank        \* bound: creation ranks handed out

VARIABLES jobs,          \* the _workflow_jobs dictionary
          runs           \* status of every run, "absent" before it exists

vars == <<jobs, runs>>

JobStatuses == {"absent", "queued", "running", "waiting_for_approval",
                "completed", "failed", "dead_letter", "dismissed"}
RunStatuses == {"absent", "pending", "queued", "running",
                "waiting_for_approval", "completed", "failed"}

\* rank      position in _workflow_job_order (created_at in the SQL store)
\* failures  payload["failure_history"]: the attempt number of every entry
\* manual    payload["manual_retry_count"]
\* granted   the max_attempts the job was first enqueued with (auxiliary)
JobRecord ==
    [run: Runs \cup {None}, wf: Claimable \cup {Approval, None},
     status: JobStatuses, attempts: Nat, max: Nat,
     worker: Workers \cup {None}, stale: BOOLEAN,
     failures: Seq(Nat), manual: Nat, granted: Nat, rank: Nat]

Absent ==
    [run |-> None, wf |-> None, status |-> "absent", attempts |-> 0, max |-> 0,
     worker |-> None, stale |-> FALSE, failures |-> <<>>, manual |-> 0,
     granted |-> 0, rank |-> 0]

Present(j) == jobs[j].status # "absent"

-----------------------------------------------------------------------------
(* What makes a single job record one the repository can have produced.    *)

\* The worker field is a lease: a running job has an owner, and a job that
\* waits for a worker or was set aside by an operator has none.
OwnerOK(job) ==
    /\ job.status = "running" => job.worker \in Workers
    /\ job.status \in {"absent", "queued", "waiting_for_approval", "dismissed"}
          => job.worker = None
    /\ job.stale => job.status = "running"

\* The attempt budget: never overdrawn, and a job put back in the queue can
\* always afford one more attempt.  Only operators raise the budget.
BudgetOK(job) ==
    /\ job.attempts <= job.max
    /\ job.status = "queued" => job.attempts < job.max
    /\ job.status \in {"running", "dead_letter", "dismissed"} => job.attempts > 0
    /\ job.granted <= job.max
    /\ job.max <= job.granted + job.manual

\* The failure history is the log of lost attempts: one entry per attempt, in
\* order, none twice, except the attempt that is running or that succeeded.
HistoryOK(job) ==
    /\ \A i \in 1..Len(job.failures) : job.failures[i] = i
    /\ Len(job.failures) =
          IF job.wf \in Claimable /\ job.status \in {"running", "completed"}
          THEN job.attempts - 1 ELSE job.attempts

\* Only workers' jobs are ever leased; only the deployment job is decided.
KindOK(job) ==
    /\ job.status # "absent" => job.run \in Runs /\ job.wf # None
    /\ job.wf \in Claimable
          => job.status \notin {"absent", "waiting_for_approval", "failed"}
    /\ job.wf = Approval
          => /\ job.status \in {"waiting_for_approval", "completed", "failed"}
             /\ job.attempts = 0
    /\ job.wf \in Claimable /\ job.status = "completed" => job.attempts > 0

WellFormed(job) == OwnerOK(job) /\ BudgetOK(job) /\ HistoryOK(job) /\ KindOK(job)

(***************************************************************************)
(* An archive is what export_run_archive wrote on some other instance:     *)
(* one run, its status, and the job records list_workflow_jobs returned.   *)
(***************************************************************************)
ASSUME ConstantsAssumption ==
    /\ None \notin Workers \cup Runs \cup Claimable \cup {Approval}
    /\ Approval \notin Claimable
    /\ Submissions \subseteq [wf: Claimable \cup {Approval}, max: Nat \ {0}]
    /\ \A a \in Archives :
          /\ a.run \in Runs
          /\ a.status \in RunStatuses \ {"absent"}
          /\ a.ids \subseteq Jobs
          /\ a.jobs \in [a.ids -> JobRecord]
          /\ \A j \in a.ids :
                /\ WellFormed(a.jobs[j])
                /\ a.jobs[j].run = a.run
                /\ a.jobs[j].status # "absent"
                /\ a.jobs[j].rank > 0
    /\ Reported \subseteq RunStatuses \ {"absent"}
    /\ MaxManual \in Nat /\ MaxRank \in Nat

-----------------------------------------------------------------------------
(* Record transformations shared by the operations.                        *)

\* enqueue_workflow_job: no caller asks for any other initial status.
Submitted(r, sub, rank) ==
    [Absent EXCEPT
        !.run = r, !.wf = sub.wf, !.max = sub.max, !.granted = sub.max,
        !.status = IF sub.wf = Approval THEN "waiting_for_approval" ELSE "queued",
        !.rank = rank]

\* Fault: the attempt is not counted.
Claimed_Uncounted(job, w) ==
    [job EXCEPT !.status = "running", !.worker = w, !.stale = FALSE]

\* claim_next_workflow_job and claim_workflow_job: a queued job becomes w's.
Claimed(job, w) ==
    [job EXCEPT !.status = "running", !.worker = w,
                !.attempts = @ + 1, !.stale = FALSE]

\* Fault: requeueing forgets to release the lease.
Lost_Unreleased(job, retry) ==
    LET again == retry /\ job.attempts < job.max
    IN [job EXCEPT !.status = IF again THEN "queued" ELSE "dead_letter",
                   !.stale = FALSE,
                   !.failures = Append(@, job.attempts)]

\* fail_workflow_job and one turn of the loop of
\* recover_timed_out_workflow_jobs: the attempt is logged, and the job goes
\* back to the queue while it has attempts left, else to the dead letters.
Lost(job, retry) ==
    LET again == retry /\ job.attempts < job.max
    IN [job EXCEPT !.status = IF again THEN "queued" ELSE "dead_letter",
                   !.worker = IF again THEN None ELSE @,
                   !.stale = FALSE,
                   !.failures = Append(@, job.attempts)]

\* Fault: the budget is left as it is.
Reinstated_Unfunded(job) ==
    [job EXCEPT !.status = "queued", !.worker = None, !.manual = @ + 1]

\* retry_dead_letter_workflow_job: the budget grows only if it is used up.
Reinstated(job) ==
    [job EXCEPT !.status = "queued",
                !.max = IF @ > job.attempts THEN @ ELSE job.attempts + 1,
                !.worker = None,
                !.manual = @ + 1]

\* dismiss_dead_letter_workflow_job
Dismissed(job) == [job EXCEPT !.status = "dismissed", !.worker = None]

\* Fault: workers poll without a stale_after, so nobody recovers.
TimedOut_Never(wf) == {}

\* The jobs of one workflow whose heartbeat is at or before the cutoff.
TimedOut(wf) ==
    {j \in Jobs : jobs[j].status = "running" /\ jobs[j].wf = wf /\ jobs[j].stale}

Recovered(wf) ==
    [j \in Jobs |-> IF j \in TimedOut(wf) THEN Lost(jobs[j], TRUE) ELSE jobs[j]]

\* A recovered job that had no attempt left takes its run down with it.
FailedBy(wf) ==
    [r \in Runs |->
        IF \E j \in TimedOut(wf) : jobs[j].run = r /\ jobs[j].attempts >= jobs[j].max
        THEN "failed" ELSE runs[r]]

Waiting(store, wf) ==
    {j \in Jobs : store[j].status = "queued" /\ store[j].wf = wf}

\* The first job of _workflow_job_order that claim_next_workflow_job accepts.
NextInLine(store, wf, j) ==
    /\ j \in Waiting(store, wf)
    /\ \A k \in Waiting(store, wf) : store[j].rank <= store[k].rank

\* The length of _workflow_job_order, as the rank of its last job.
LastRank(n) ==
    /\ \A j \in Jobs : jobs[j].rank <= n
    /\ n = 0 \/ \E j \in Jobs : jobs[j].rank = n

\* Fault: _ensure_job_owned_by_worker looks only at the status.
Owns_AnyRunning(w, j) == jobs[j].status = "running" /\ w \in Workers

Owns(w, j) == jobs[j].status = "running" /\ jobs[j].worker = w

-----------------------------------------------------------------------------
(* The operations.                                                         *)

CreateRun(r) ==
    /\ runs[r] = "absent"
    /\ runs' = [runs EXCEPT ![r] = "pending"]
    /\ UNCHANGED jobs

\* Unconditional: whatever the caller says is what the run becomes.
UpdateStatus(r, status) ==
    /\ runs[r] # "absent"
    /\ runs' = [runs EXCEPT ![r] = status]
    /\ UNCHANGED jobs

Enqueue(j, r, sub) ==
    /\ ~Present(j)
    /\ runs[r] # "absent"
    /\ \E n \in 0..(MaxRank - 1) :
          /\ LastRank(n)
          /\ jobs' = [jobs EXCEPT ![j] = Submitted(r, sub, n + 1)]
    /\ UNCHANGED runs

\* claim_next_workflow_job with a stale_after: recovery, then the claim, in
\* one critical section.  This is the case in which a job is returned.
ClaimNext(w, wf, j) ==
    /\ NextInLine(Recovered(wf), wf, j)
    /\ jobs' = [Recovered(wf) EXCEPT ![j] = Claimed(@, w)]
    /\ runs' = FailedBy(wf)

\* The same call when the queue of that name is empty: what it recovered
\* into the dead letters stays recovered.
ClaimNothing(wf) ==
    /\ Waiting(Recovered(wf), wf) = {}
    /\ jobs' = Recovered(wf)
    /\ runs' = FailedBy(wf)

\* claim_workflow_job without a stale_after, as the Redis queue calls it.
ClaimJob(w, j) ==
    /\ jobs[j].status = "queued"
    /\ jobs' = [jobs EXCEPT ![j] = Claimed(@, w)]
    /\ UNCHANGED runs

\* recover_timed_out_workflow_jobs on its own, as the Redis queue calls it.
Recover(wf) ==
    /\ TimedOut(wf) # {}
    /\ jobs' = Recovered(wf)
    /\ runs' = FailedBy(wf)

Heartbeat(w, j) ==
    /\ Owns(w, j)
    /\ jobs' = [jobs EXCEPT ![j].stale = FALSE]
    /\ UNCHANGED runs

Complete(w, j) ==
    /\ Owns(w, j)
    /\ jobs' = [jobs EXCEPT ![j].status = "completed", ![j].stale = FALSE]
    /\ UNCHANGED runs

Fail(w, j, retry) ==
    /\ Owns(w, j)
    /\ jobs' = [jobs EXCEPT ![j] = Lost(@, retry)]
    /\ runs' = IF Lost(jobs[j], retry).status = "dead_letter"
               THEN [runs EXCEPT ![jobs[j].run] = "failed"] ELSE runs

\* Fault: a dismissed job is retried as well.
RetryDeadLetter_Dismissed(j) ==
    /\ jobs[j].status \in {"dead_letter", "dismissed"}
    /\ jobs[j].manual < MaxManual
    /\ jobs' = [jobs EXCEPT ![j] = Reinstated(@)]
    /\ runs' = [runs EXCEPT ![jobs[j].run] = "pending"]

RetryDeadLetter(j) ==
    /\ jobs[j].status = "dead_letter"
    /\ jobs[j].manual < MaxManual
    /\ jobs' = [jobs EXCEPT ![j] = Reinstated(@)]
    /\ runs' = [runs EXCEPT ![jobs[j].run] = "pending"]

DismissDeadLetter(j) ==
    /\ jobs[j].status = "dead_letter"
    /\ jobs' = [jobs EXCEPT ![j] = Dismissed(@)]
    /\ UNCHANGED runs

\* update_workflow_job_result looks at nothing but its argument; only
\* decide_deployment_approval calls it, on the deployment job it has read.
UpdateResult(j, status) ==
    /\ jobs[j].wf = Approval
    /\ jobs' = [jobs EXCEPT ![j].status = status]
    /\ UNCHANGED runs

\* restore_run: the run's own jobs are forgotten, the archive's are appended
\* to the order.
ImportRun(a) ==
    /\ \A j \in a.ids : jobs[j].run \in {None, a.run}
    /\ \E n \in 0..MaxRank :
          /\ LastRank(n)
          /\ \A j \in a.ids : n + a.jobs[j].rank <= MaxRank
          /\ jobs' = [j \in Jobs |->
                IF j \in a.ids THEN [a.jobs[j] EXCEPT !.rank = n + @]
                ELSE IF jobs[j].run = a.run THEN Absent ELSE jobs[j]]
    /\ runs' = [runs EXCEPT ![a.run] = a.status]

\* Nobody has sent a heartbeat for stale_after seconds.
Expire(j) ==
    /\ jobs[j].status = "running"
    /\ ~jobs[j].stale
    /\ jobs' = [jobs EXCEPT ![j].stale = TRUE]
    /\ UNCHANGED runs

-----------------------------------------------------------------------------
Init ==
    /\ jobs = [j \in Jobs |-> Absent]
    /\ runs = [r \in Runs |-> "absent"]

WorkerCall ==
    \E w \in Workers :
        \/ \E wf \in Claimable : \E j \in Jobs : ClaimNext(w, wf, j)
        \/ \E j \in Jobs : \/ ClaimJob(w, j)
                           \/ Heartbeat(w, j)
                           \/ Complete(w, j)
                           \/ \E retry \in BOOLEAN : Fail(w, j, retry)

RecoveryCall == \E wf \in Claimable : ClaimNothing(wf) \/ Recover(wf)

ApiCall ==
    \/ \E r \in Runs :
          \/ CreateRun(r)
          \/ \E status \in Reported : UpdateStatus(r, status)
          \/ \E j \in Jobs : \E sub \in Submissions : Enqueue(j, r, sub)
    \/ \E a \in Archives : ImportRun(a)
    \/ \E j \in Jobs :
          \/ RetryDeadLetter(j)
          \/ DismissDeadLetter(j)
          \/ \E status \in {"completed", "failed"} : UpdateResult(j, status)

Next == WorkerCall \/ RecoveryCall \/ ApiCall \/ \E j \in Jobs : Expire(j)

Spec == Init /\ [][Next]_vars

-----------------------------------------------------------------------------
(* Properties.                                                             *)

TypeOK ==
    /\ jobs \in [Jobs -> JobRecord]
    /\ runs \in [Runs -> RunStatuses]

\* Whatever sequence of claims, heartbeats, timeouts, failures, manual
\* retries, dismissals and imports the callers produce, every running job has
\* exactly one owner and no idle job has any (_ensure_job_owned_by_worker
\* relies on it).
Ownership == \A j \in Jobs : OwnerOK(jobs[j])

\* The attempt budget of max_attempts is never overdrawn, a queued job can
\* always be claimed within it, and every attempt beyond the number granted
\* at enqueue is covered by one manual retry of an operator.
Budget == \A j \in Jobs : BudgetOK(jobs[j])

\* The failure_history an operator reads lists every lost attempt exactly
\* once and in order, across timeouts, worker failures and manual retries.
History == \A j \in Jobs : HistoryOK(jobs[j])

\* A worker never holds a deployment job and a decision never lands on a
\* worker's job, although one dictionary keeps both; every job belongs to a
\* run that exists, also across imports that replace a run's jobs.
Kinds == \A j \in Jobs : /\ KindOK(jobs[j])
                         /\ Present(j) => runs[jobs[j].run] # "absent"

\* All of it in every state: leases, attempts, histories, kinds and types.  It is the
\* inductive invariant, as the parts support one another (a queued job can be claimed
\* within Budget because History counts its attempts, for instance).
IInv == TypeOK /\ Ownership /\ Budget /\ History /\ Kinds

\* A step that leaves a job in the dead letters leaves its run failed, in the
\* same step: no reader sees the one without the other (fail and recovery
\* write both records under the lock).
DeadLetterFailsRun ==
    [][\A j \in Jobs :
          /\ jobs[j].status = "running"
          /\ jobs'[j].status = "dead_letter"
          => \/ runs'[jobs[j].run] = "failed"
             \/ \E a \in Archives : ImportRun(a)]_vars

-----------------------------------------------------------------------------
(* The store implements the lease ledger.                                  *)

PhaseOf(status) ==
    CASE status = "absent" -> "none"
      [] status = "queued" -> "open"
      [] status = "running" -> "leased"
      [] status = "completed" -> "settled"
      [] status = "dead_letter" -> "buried"
      [] status = "dismissed" -> "discarded"
      [] status = "waiting_for_approval" -> "deciding"
      [] status = "failed" -> "decided"

Phase(job) ==
    IF job.wf = Approval /\ job.status = "completed" THEN "decided"
    ELSE PhaseOf(job.status)

EntryOf(job) ==
    [phase |-> Phase(job), holder |-> job.worker, tries |-> job.attempts,
     budget |-> job.max, born |-> job.rank]

Ledger == [j \in Jobs |-> EntryOf(jobs[j])]

Lifecycle == INSTANCE JobLifecycle WITH ledger <- Ledger

\* No call, in whatever order workers, operators and imports make them, takes
\* a job outside the lease life cycle: nobody but its holder settles it, an
\* attempt is never given back or taken twice, settled and dismissed jobs
\* stay so until an import replaces them.
ImplementsLifecycle == Lifecycle!Spec
=============================================================================
