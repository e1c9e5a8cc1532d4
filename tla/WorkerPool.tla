----------------------------- MODULE WorkerPool -----------------------------
(***************************************************************************)
(* The processes around the job store: workers that run                    *)
(* WorkflowWorker.process_next_job (src/src/aeai_os/workflows/worker.py),  *)
(* clients inside enqueue_dynamic_workflow, and operators at the retry and *)
(* dismiss endpoints of src/src/aeai_os/api/runs.py.  Every call of the    *)
(* repository is one step, as in JobStore; between two calls of one        *)
(* process any other process may move.                                     *)
(*                                                                         *)
(* Two deployments.  looping: worker processes that call process_next_job  *)
(* for ever, may crash and are restarted by their supervisor.  Else local: *)
(* no worker process; the API starts a background task, which is one       *)
(* worker making one call, for each dynamic run it accepts.                *)
(*                                                                         *)
(* The workflow a worker executes appears only as the run statuses that    *)
(* the orchestrator writes.  Deployment jobs and imports are not part of   *)
(* the pool; JobStore has them.                                            *)
(***************************************************************************)
EXTENDS JobStore

CONSTANTS Clients,       \* API requests that may be in flight together
          Rotation,      \* the workflow names in the order a worker polls them
          Dynamic,       \* the workflow of enqueue_dynamic_workflow
          Budgets,       \* max_attempts that procurement jobs are enqueued with
          Modes,         \* the deployments to look at: TRUE for looping workers
          MaxCrashes     \* bound: crashes of worker processes

ASSUME PoolAssumption ==
    /\ Rotation \in Seq(Claimable)
    /\ \A wf \in Claimable : \E i \in 1..Len(Rotation) : Rotation[i] = wf
    /\ Dynamic \in Claimable
    /\ Budgets \subseteq Nat \ {0}
    /\ Modes \subseteq BOOLEAN
    /\ MaxCrashes \in Nat
    /\ None \notin Jobs
    \* what the processes of the pool submit and report is among what the
    \* repository is called with
    /\ [wf |-> Dynamic, max |-> 1] \in Submissions
    /\ [wf : Claimable \ {Dynamic}, max : Budgets] \subseteq Submissions
    /\ {"queued", "running", "completed", "failed", "waiting_for_approval"} \subseteq Reported

VARIABLES looping,       \* which deployment this is; it never changes
          workers,       \* where each worker is in process_next_job
          clients,       \* where each client is in enqueue_dynamic_workflow
          crashes,       \* crashes so far
          starts,        \* auxiliary: executions started of each job
          passed         \* auxiliary: claims a worker has made since it last
                         \* looked into the queue of this workflow

pool == <<looping, workers, clients, crashes, starts, passed>>
poolvars == <<jobs, runs, looping, workers, clients, crashes, starts, passed>>

\* turn, tried   _next_workflow_index and the offset of the polling loop
\* attempt       the attempt_count of the claimed record the worker keeps
Worker ==
    [pc: {"off", "polling", "claimed", "planning", "running", "settling", "reporting"},
     turn: 0..(Len(Rotation) - 1), tried: 0..(Len(Rotation) - 1),
     job: Jobs \cup {None}, attempt: Nat,
     outcome: {"none", "raised", "completed", "failed", "waiting_for_approval"}]

NewWorker(pc) ==
    [pc |-> pc, turn |-> 0, tried |-> 0, job |-> None, attempt |-> 0, outcome |-> "none"]

Client == [pc: {"idle", "fresh", "clear", "enqueued"}, run: Runs \cup {None}]

IdleClient == [pc |-> "idle", run |-> None]

\* Fault: the precedence never rotates.
NextTurn_Fixed(w) == workers[w].turn

NextTurn(w) == (workers[w].turn + 1) % Len(Rotation)

-----------------------------------------------------------------------------
(* The worker.                                                             *)

Run(w) == jobs[workers[w].job].run

Goto(w, pc) == workers' = [workers EXCEPT ![w].pc = pc]

\* process_next_job has returned or raised: a looping worker calls it again,
\* from the next workflow name on; a local one is gone.
CallEnds(w) ==
    workers' = [workers EXCEPT ![w] =
        IF looping THEN [NewWorker("polling") EXCEPT !.turn = NextTurn(w)]
        ELSE NewWorker("off")]

Polled(w) == Rotation[((workers[w].turn + workers[w].tried) % Len(Rotation)) + 1]

ClaimHit(w) ==
    /\ workers[w].pc = "polling"
    /\ \E j \in Jobs :
          /\ ClaimNext(w, Polled(w), j)
          /\ workers' = [workers EXCEPT ![w].pc = "claimed", ![w].job = j,
                                        ![w].attempt = jobs'[j].attempts]
    /\ passed' = [passed EXCEPT ![w] =
          [wf \in Claimable |-> IF wf = Polled(w) THEN 0 ELSE @[wf] + 1]]
    /\ UNCHANGED <<clients, crashes, starts>>

ClaimMiss(w) ==
    /\ workers[w].pc = "polling"
    /\ ClaimNothing(Polled(w))
    /\ IF workers[w].tried + 1 < Len(Rotation)
       THEN workers' = [workers EXCEPT ![w].tried = @ + 1]
       ELSE CallEnds(w)
    /\ passed' = [passed EXCEPT ![w][Polled(w)] = 0]
    /\ UNCHANGED <<clients, crashes, starts>>

\* The one heartbeat of _process_claimed_job, outside its try: a worker that
\* has already lost the job gives up with the exception.
Beat(w) ==
    /\ workers[w].pc = "claimed"
    /\ \/ Heartbeat(w, workers[w].job) /\ Goto(w, "planning")
       \/ ~Owns(w, workers[w].job) /\ CallEnds(w) /\ UNCHANGED <<jobs, runs>>
    /\ UNCHANGED <<clients, crashes, starts, passed>>

\* The orchestrator marks the run running, whatever it was, and executes.
StartRun(w) ==
    /\ workers[w].pc = "planning"
    /\ UpdateStatus(Run(w), "running")
    /\ starts' = [starts EXCEPT ![workers[w].job] = @ + 1]
    /\ Goto(w, "running")
    /\ UNCHANGED <<clients, crashes, passed>>

EndRun(w) ==
    /\ workers[w].pc = "running"
    /\ \E status \in {"completed", "failed", "waiting_for_approval"} :
          /\ UpdateStatus(Run(w), status)
          /\ workers' = [workers EXCEPT ![w].pc = "settling", ![w].outcome = status]
    /\ UNCHANGED <<clients, crashes, starts, passed>>

\* The plan is rejected, the dataset cannot be read, the store is unreachable.
RaiseInRun(w) ==
    /\ workers[w].pc \in {"planning", "running"}
    /\ workers' = [workers EXCEPT ![w].pc = "settling", ![w].outcome = "raised"]
    /\ UNCHANGED <<jobs, runs, clients, crashes, starts, passed>>

\* A run that waits for an approval is the end of its job as well.
SettleDone(w) ==
    /\ workers[w].pc = "settling"
    /\ workers[w].outcome \in {"completed", "waiting_for_approval"}
    /\ IF Owns(w, workers[w].job)
       THEN Complete(w, workers[w].job) ELSE UNCHANGED <<jobs, runs>>
    /\ CallEnds(w)
    /\ UNCHANGED <<clients, crashes, starts, passed>>

\* _retry_or_fail after an exception, _final_fail after a failed run.  Only a
\* worker that still owns the job gets past queue.fail; one that does goes on
\* to write the run's status if the job has died.
SettleFailed(w) ==
    /\ workers[w].pc = "settling"
    /\ workers[w].outcome \in {"raised", "failed"}
    /\ \/ /\ Fail(w, workers[w].job, workers[w].outcome = "raised")
          /\ IF jobs'[workers[w].job].status = "dead_letter"
             THEN Goto(w, "reporting") ELSE CallEnds(w)
       \/ ~Owns(w, workers[w].job) /\ CallEnds(w) /\ UNCHANGED <<jobs, runs>>
    /\ UNCHANGED <<clients, crashes, starts, passed>>

ReportFailed(w) ==
    /\ workers[w].pc = "reporting"
    /\ UpdateStatus(Run(w), "failed")
    /\ CallEnds(w)
    /\ UNCHANGED <<clients, crashes, starts, passed>>

WorkerStep(w) ==
    /\ \/ ClaimHit(w) \/ ClaimMiss(w) \/ Beat(w) \/ StartRun(w) \/ EndRun(w)
       \/ RaiseInRun(w) \/ SettleDone(w) \/ SettleFailed(w) \/ ReportFailed(w)
    /\ UNCHANGED looping

\* The process dies wherever it is and is started again, with an empty memory
\* and possibly with the same worker id.
Crash(w) ==
    /\ looping /\ crashes < MaxCrashes
    /\ workers' = [workers EXCEPT ![w] = NewWorker("polling")]
    /\ crashes' = crashes + 1
    /\ passed' = [passed EXCEPT ![w] = [wf \in Claimable |-> 0]]
    /\ UNCHANGED <<jobs, runs, looping, clients, starts>>

-----------------------------------------------------------------------------
(* The clients: enqueue_dynamic_workflow reads the run, then the run's     *)
(* jobs, then enqueues, then writes the run's status.                      *)

ReadRun(c, r) ==
    /\ clients[c].pc = "idle"
    /\ runs[r] = "pending"
    /\ clients' = [clients EXCEPT ![c] = [pc |-> "fresh", run |-> r]]
    /\ UNCHANGED <<jobs, runs, looping, workers, crashes, starts, passed>>

Active(r) == {j \in Jobs : jobs[j].run = r /\ jobs[j].status \in {"queued", "running"}}

FindActive(c) ==
    /\ clients[c].pc = "fresh"
    /\ clients' = [clients EXCEPT ![c] =
          IF Active(@.run) = {} THEN [@ EXCEPT !.pc = "clear"] ELSE IdleClient]
    /\ UNCHANGED <<jobs, runs, looping, workers, crashes, starts, passed>>

Submit(c) ==
    /\ clients[c].pc = "clear"
    /\ \E j \in Jobs : Enqueue(j, clients[c].run, [wf |-> Dynamic, max |-> 1])
    /\ clients' = [clients EXCEPT ![c].pc = "enqueued"]
    /\ UNCHANGED <<looping, workers, crashes, starts, passed>>

\* The response goes out; a local API then starts the background task.
MarkQueued(c) ==
    /\ clients[c].pc = "enqueued"
    /\ UpdateStatus(clients[c].run, "queued")
    /\ clients' = [clients EXCEPT ![c] = IdleClient]
    /\ \/ looping /\ UNCHANGED workers
       \/ ~looping /\ \E w \in Workers :
             /\ workers[w].pc = "off"
             /\ workers' = [workers EXCEPT ![w] = NewWorker("polling")]
    /\ UNCHANGED <<looping, crashes, starts, passed>>

ClientStep(c) ==
    \/ (\E r \in Runs : ReadRun(c, r)) \/ FindActive(c) \/ Submit(c)
    \/ MarkQueued(c)

\* The other endpoints, one repository call each: a run is created, a
\* procurement run is enqueued without a look at what is there, a dead letter
\* is retried or dismissed.
Operate ==
    /\ \/ \E r \in Runs :
             \/ CreateRun(r)
             \/ \E j \in Jobs, wf \in Claimable \ {Dynamic}, max \in Budgets :
                   Enqueue(j, r, [wf |-> wf, max |-> max])
       \/ \E j \in Jobs : RetryDeadLetter(j) \/ DismissDeadLetter(j)
    /\ UNCHANGED pool

PoolExpire == (\E j \in Jobs : Expire(j)) /\ UNCHANGED pool

PoolInit ==
    /\ Init
    /\ looping \in Modes
    /\ workers = [w \in Workers |-> NewWorker(IF looping THEN "polling" ELSE "off")]
    /\ clients = [c \in Clients |-> IdleClient]
    /\ crashes = 0
    /\ starts = [j \in Jobs |-> 0]
    /\ passed = [w \in Workers |-> [wf \in Claimable |-> 0]]

PoolNext ==
    \/ \E w \in Workers : WorkerStep(w) \/ Crash(w)
    \/ \E c \in Clients : ClientStep(c)
    \/ Operate
    \/ PoolExpire

PoolSpec == PoolInit /\ [][PoolNext]_poolvars

\* Worker loops keep running and the agents they call return; once a job is
\* running, time goes by until its heartbeat is too old.  A request that has
\* been accepted is carried to its end.
FairPool ==
    /\ PoolSpec
    /\ \A w \in Workers : WF_poolvars(WorkerStep(w))
    /\ \A c \in Clients : WF_poolvars(MarkQueued(c))
    /\ WF_poolvars(PoolExpire)

-----------------------------------------------------------------------------
(* Properties.                                                             *)

PoolTypeOK ==
    /\ TypeOK
    /\ looping \in BOOLEAN
    /\ workers \in [Workers -> Worker]
    /\ clients \in [Clients -> Client]
    /\ crashes \in 0..MaxCrashes
    /\ starts \in [Jobs -> Nat]
    /\ passed \in [Workers -> [Claimable -> Nat]]

\* The name fence is an attempt fence.  The store compares only worker ids,
\* yet whenever it would accept a call from a worker, the worker is executing
\* the very attempt the store has on record: a worker that lost its job to a
\* timeout and whose job was claimed again, by anyone, is refused.
OwnerHoldsCurrentAttempt ==
    \A w \in Workers : \A j \in Jobs :
        Owns(w, j) /\ workers[w].job = j => workers[w].attempt = jobs[j].attempts

\* No worker settles an attempt that is not its own: a job goes from `running'
\* to `completed' only in a step of the worker that executes the attempt on
\* record, and only if its execution has returned (_process_claimed_job).
SettledByItsWorker ==
    [][\A j \in Jobs :
          jobs[j].status = "running" /\ jobs'[j].status = "completed"
          => \E w \in Workers :
                /\ workers[w].pc = "settling" /\ workers[w].job = j
                /\ workers[w].attempt = jobs[j].attempts
                /\ workers[w].outcome # "raised"]_poolvars

\* A dynamic analysis, which is not idempotent, is executed once, and once
\* more for each manual retry; never twice by crashes, timeouts or zombies
\* (max_attempts=1 in enqueue_dynamic_workflow).  In general: as often as the
\* job was granted attempts, plus once for each manual retry.
StartsGranted == \A j \in Jobs : starts[j] <= jobs[j].granted + jobs[j].manual

\* The two together: a job is executed only as often as it was granted, and of
\* its executions only the current one can still settle it
\* (_ensure_job_owned_by_worker, claim_next_workflow_job).
AttemptsFenced == OwnerHoldsCurrentAttempt /\ StartsGranted

\* Rotating precedence: a worker that finds one queue full call after call
\* takes at most as many jobs from it as there are queues, of which there are
\* two, before it looks into every other one, so continuous procurement work
\* does not starve the dynamic jobs (process_next_job; within the life of one
\* process, the index is not kept).
NoStarvation ==
    looping => \A w \in Workers : \A wf \in Claimable : passed[w][wf] <= Len(Rotation)

\* Every job that is accepted is eventually settled, dead or dismissed, and
\* not stuck in the queue or in the hands of a dead worker.
JobsEnd ==
    \A j \in Jobs :
        Present(j) ~> jobs[j].status \in {"completed", "dead_letter", "dismissed"}
=============================================================================
