# Autonomous Enterprise AI OS: TLA+ development

This directory models the part of the system that must be right whatever the
processes, threads and people around it do in whatever order: the runs and the
jobs that execute them, the workers and the operators, and the services beside
them that keep records, count money, read data and publish results. Paths below
are relative to the repository; `aeai_os/` stands for `src/aeai_os/`.

* TLC checks the models on small instances (`*.cfg`).
* TLAPS proves, for every value of the constants, all the safety properties that
  TLC checks (`*_proofs.tla`; section 6; section 7 says what stays with TLC).
* `PROJECT.json` lists the runs, the source lines behind every definition, the
  hazards and the property that watches each, and the deliberate faults.

## 1. Inventory

| component | state it keeps | operations | interacts with |
|---|---|---|---|
| run repository, in memory (`runs/repository.py`) | dictionaries of runs, jobs, nodes, events, artifacts, checkpoints; the job order; one RLock | create, update and restore runs; enqueue, claim, heartbeat, complete, fail, retry, dismiss, recover jobs | called by everything else |
| run repository, SQL (`runs/sqlalchemy_repository.py`) | the same as tables | the same, one session per call; row locks in claim and recovery only | several processes at once |
| run archives (`runs/archive.py`) | none | export, import | repository |
| queue backends (`workflows/queue.py`) | nothing, or Redis lists of job ids | the job calls, plus push and pop of ids | repository, Redis |
| workers (`workflows/worker.py`, `scripts/managed_workflow_worker.py`) | the rotation index, the claimed record | `process_next_job`: poll, claim, heartbeat, execute, settle | queue, orchestrator, repository |
| submissions (`workflows/worker.py`, `api/runs.py`) | none | check, enqueue, mark queued; local background task | queue, repository |
| orchestrator (`orchestration/service.py`) | node records, checkpoint, run status | execute, resume, approve, retry a node | agents, repository, tool policy |
| graph validation (`orchestration/graph.py`) | none | validate | orchestrator |
| agents of an analysis (`agents/*.py`, `workflows/dynamic.py`) | artifact records and the files behind them | inspect, profile, analyse, draw, report, evaluate | repository, artifact store, sources |
| investigation agent (`agents/investigation.py`, `followup.py`) | evidence, two artifacts | ask a model, run checks, publish | model gateway, repository |
| run API (`api/runs.py`) | saved questions as events | submit, ask, calculate, stream progress, attach data | everything above |
| case reviews (`api/investigations.py`) | update events | read a case, update it | repository, analyses |
| deployment approvals (`deployments/approvals.py`) | a job that is decided, not claimed | request, decide | repository |
| artifact storage (`storage/artifacts.py`) | payload files, two download caches | write, read, local path | agents, API |
| risk screening (`scaling/risk.py`) | SQLite: scans, rows, checkpoints, lease | start, cancel, resume, claim, commit batch, finalise | API, its worker |
| monitoring (`monitoring/*.py`) | SQLite: monitors, dispatches, alerts | claim due, execute, alert, finish | orchestrator, ledger |
| model budget (`llm/budget.py`, `gateway.py`) | ledger file under a file lock, per-run counters | reserve, settle | agents, monitoring |
| ingestion (`connectors/ingestion.py`) | SQLite: records, cursor, audit | sync in one transaction, export | scheduler |
| connectors (`connectors/registry.py`, `installations.py`, `explorer.py`) | installations with a status; secrets are elsewhere | create, test, browse, publish an asset | credential providers, warehouse |
| data sources (`data/sources.py`, `data/warehouse.py`) | a dictionary and a catalog file; nothing for warehouses | register, validate, read | connectors, agents |
| figures of a file (`analytics/`, `quality/reconcile.py`, `scaling/summary.py`, `agents/analyst_tools.py`) | none | compute, audit, summarise, screen | agents, API |
| tool policy (`security/policy.py`) | rules | add a rule, evaluate | orchestrator, approvals |
| rendering, authentication, observability | none that matters here | | |

What is hard, and what would make each component correct:

* **Job repository.** Claims, timeouts, failures, manual retries and imports
  interleave for hours. Correct means: one owner per running job, an attempt
  budget that is never overdrawn, a complete failure log, a failed run for
  every dead job, and nothing happening to a settled job.
* **Workers.** A worker that is too slow is taken for dead while it lives; it
  may even share its id with its restarted successor. It must not settle the
  successor's attempt, and no execution may start that was not granted. Every
  job must end.
* **SQL repository and archives.** Most methods read, check and write without a
  lock, and an export reads a run that is being executed, part by part.
* **Redis queue.** Two stores without a common transaction.
* **Orchestrator.** Crashes leave nodes running; two calls may work on a run; a
  node must not run before its dependencies or without its approval.
* **Agents.** They find their inputs among the records of all executions a run
  has had, by kind and age, while datasets are attached and files overwritten.
  A report must be about the data it says it is about.
* **Run API.** Evidence is read, a model is called for seconds, then something
  is saved; allowance, evidence and progress must still be right then.
* **Approvals and case reviews.** Two deciders; several records changed by
  several calls.
* **Risk screening.** Leases with a timeout, a checkpoint that must agree with
  the rows, cancellation racing completion.
* **Monitoring.** At-most-once dispatch, alerts before the final record.
* **Budget.** A cap shared by processes, settlements that may be lost.
* **Ingestion.** Records and cursor must move together.
* **Sources and connectors.** Every reader resolves a connection anew, from
  three places, possibly in another process; a status may be out of date.
* **Figures.** Five pieces of code work out the same figures, each with a parser
  and a rounding of its own.

`PROJECT.json` "hazards" has these one by one, each at its line.

## 2. Plan

Done, in this order: `JobStore`, `JobLifecycle` (what any job store promises)
and the proofs; `WorkerPool`, `SqlJobs`, `RedisQueue` on top of `JobStore`, the
first and the last with proofs on top of its theorems;
`Orchestrator` and `RunLifecycle` (what it promises of one run); `RiskScan`, `Monitor`, `Ingestion`, `LlmBudget`,
`DeploymentApproval`, `Investigation`, `ToolPolicy`, `SourceCatalog`;
`AnalysisPipeline` and on top of it `RunResults`; `RunRecords`; the pure or
nearly pure ones, `ExecutionGraphs`, `SpendFigures`; `ArtifactCache`,
`CaseReviews`; `Connectors` and on top of it `WarehouseData`.

Left, in this order:

1. The state of alerts in `Monitor`; browsing and aggregates in the warehouse.
2. The text checks of `evaluation/quality_gates.py`, scores and forecasts of
   `analytics/`, as operators.

## 3. The modules

Modules that share no state in the code share no variables here. To keep the
number of runs down, such modules are checked together: `MCServices`,
`MCSqlStore` and `MCBackground` extend several of them and choose one in the
initial state; the others then stay as they begin. No property mentions two, so
this loses nothing; it only keeps TLC from multiplying independent states.

Names follow the code. An operator `Op_What` is `Op` with a fault in it (section
5); it is in no specification.

### JobStore

`jobs` is `_workflow_jobs` with the position of each job in
`_workflow_job_order` as its `rank`; `runs` is the status of every run. Each
method of the repository takes the lock for its whole body, so each is one
action, under its own name. Some notes on the correspondence:

* A claim with `stale_after_seconds` recovers first. `ClaimNext` and
  `ClaimNothing` are the two outcomes of that one critical section.
* Time is a boolean per running job: `stale`, its heartbeat is at or before the
  cutoff. `Expire` sets it, a heartbeat or the end of the attempt clears it.
* `failures` keeps the attempt numbers of `payload["failure_history"]` and
  `manual` is `payload["manual_retry_count"]`; the rest of the payload is left
  out. `granted` remembers the first `max_attempts` (auxiliary).
* `update_status` checks nothing, so `UpdateStatus` checks nothing.
* `ImportRun` replaces a run and its jobs by those of an archive. Archives are
  any that export can write: well-formed jobs of one run, running ones
  included. The import endpoint lets a caller overwrite.
* `update_workflow_job_result` checks nothing about the job; its only caller,
  `decide_deployment_approval`, calls it on the deployment job it has read. The
  guard on `wf` is that caller's, and the repeated decision stays possible.
* `Complete` on a job that is completed already returns it unchanged. That is a
  stuttering step here and is spelled out in `WorkerPool!SettleDone`.

### JobLifecycle

The abstract specification: an entry per job with a phase, a holder, tries and a
budget. `JobStore` implements it under the mapping `Ledger`. It rules out, step
by step, that a lease changes hands without a new try, that a try is given back,
that settled or discarded work comes back, or that a budget grows by anything
but a reinstatement, by one.

### WorkerPool

`process_next_job` as a process: `polling` (with the rotation and the offset of
the loop), `claimed`, `planning`, `running`, `settling`, `reporting`. Between
two repository calls anything may happen. `attempt` is the attempt count in the
record a worker keeps; the code never compares it with the store, which is what
`AttemptsFenced` is about. Clients run `enqueue_dynamic_workflow` in
its four steps. `Crash` may hit a worker anywhere; it comes back with an empty
memory and the same id.

`looping` says which deployment it is. TRUE: worker processes around
`process_next_job`. FALSE: the in-memory mode, in which `MarkQueued` starts a
one-shot worker, as the API's background task does. Worker slots are reused;
a reused slot stands for a fresh worker id, which is sound since the finished
worker has no call left to make.

What a workflow does inside is reduced to the run statuses that the orchestrator
writes and to the verdict the worker acts on. Two processes running under one
worker id at the same time are outside the model: ids are random unless set.

### SqlJobs

The SQL store on a READ COMMITTED database. Claim and recovery lock their rows
and are single steps, in two transactions where the locked store has one. The
other methods are a `Begin` (read and check) and a `Commit`; a commit writes the
columns whose value changed with respect to what was read, and the payload as a
whole. `raced` (auxiliary) collects the jobs on which calls have overlapped, so
that one run shows both what overlap breaks and that nothing else breaks.
SQLite ignores row locks and serialises writers instead; it is not modelled.

### RedisQueue

Extends `JobStore` by the list of one workflow. Every public operation of
`RedisWorkflowQueue` is a repository call and a push or pop after or before it;
processes die in between (`Callers` and `Workers` forget what they were about to
do), and the list may be lost as a whole (`MaxUpsets` bounds both). `claim_next`
pops until a popped id can be claimed or the list is empty, then asks the
repository directly (`ClaimPastIndex`). `QueuedIsClaimed` rests on this last
step: a job without an entry is reached only when a poll gets past the list,
which new submissions without end could prevent; here they are bounded.

### Orchestrator

One run's node records and checkpoint, and drivers: calls of `execute_run`,
`approve_node` and `retry_failed_node`, each of which goes on into
`resume_run`. Workers make the first kind and API requests the others, and
nothing keeps two of them off one run, so every repository call is a step of its
own and a driver keeps what it has read: `seen` (the node objects of the round),
`state` (its copy of the checkpoint), `list` (what its `for` loop has left, as a
set, of which the loop takes the `First` in the order of the plan).
The lists of node ids in the checkpoint are recomputed from the nodes at each
use (`sync_state_from_node_statuses`), so only the approvals and the artifacts
are kept. The policy of a tool and the verdict of an agent are choices; nodes in
`Gated` have a tool that wants an approval. The context's `approved` flag equals
the parameter of the call. Events and audit records are left out, except that
the decision recorded by `approve_node` sets `verdicts`.

`overlapped` (auxiliary) becomes true when a call arrives while another is at
work. Most of what the module promises holds only without overlap: the run's
status, the retry bound, completed nodes staying completed. `GateHolds` and
`CallsReturn` hold with it. `InputsReady` survives crashes for a reason worth
knowing: when no driver is at work, at most one node is failed or waiting, so a
run whose driver died in mid-round can only be executed anew.

### RunLifecycle

The abstract specification of one run, which `Orchestrator` implements with the
nodes, the status and the list of a renewing driver (`Unrenewed`) in its
variables. In it there are no drivers and nothing is remembered: each step looks
at the nodes as they are. A node begins when all before it are completed and
nothing else is at work, a failure is counted, a decision or a retry opens what
is stuck while the run rests, `execute_run` renews all nodes one by one or is
abandoned, and a status is written only if the nodes bear it out. A driver
decides on records it read many steps ago; that its writes are still such steps
is what the refinement says. Once calls have overlapped (`loose`) nothing is
promised.

### ExecutionGraphs

`validate` on every list of up to three nodes: repeated names, defective nodes,
missing dependencies, and the depth-first search of `_assert_acyclic` step by
step: `visiting` is the stack of calls of `visit`, the innermost last, and
`visited` the nodes whose call has returned. An accepted graph is then run as
`resume_run` would, any ready node first. The property relates the search to
the two things it stands for: an order exists, and the loop does not get stuck.

### RunRecords

What the repository keeps of one run beside its jobs: the row with status and
dataset, artifacts, nodes, checkpoint, events and evaluations. An execution
writes them node by node; datasets are attached; an export reads the seven parts
one by one (`ExportOrder`), an import puts an archive in the place of the run.
`update_status` and `add_artifact` of the SQL store are a read and a commit
each; the commit writes the columns that were changed, and a column set to the
value that was read counts as unchanged. `told` (auxiliary) remembers which
dataset and status were written last. After an import over a run that is being
executed (`told.mixed`) the model stops: two histories are mixed from there on.

### AnalysisPipeline

Six agents in the order of the dynamic and of the procurement graph; the
records of a run's artifacts as a sequence (records are never deleted) and the
files behind them as a function from names to contents. Of a content only the
dataset and the recipe it was computed from are kept. An attempt may break off
after any write and is then repeated by the orchestrator's retry, or the run is
executed anew; a dataset may be attached at any moment (`shifted`, auxiliary,
says that it was during the execution). How each agent finds its inputs is
translated as it is: the run's dataset, the latest of a kind, the latest of the
own execution first. The model's advice to the planner is any recipe, and
`Advised` is what `_apply_model_recommendation` makes of it. What an execution
knows of is the set of records it has made (`known`). The investigation
node of some graphs is module `Investigation`.

`history.torn` (auxiliary) are the files that an attempt wrote without living to
record them. A report's lineage does not always lead to its data when such a file
is an analysis: the file has a fixed name, so the attempt that died has
overwritten it from another dataset, while the record that still names it has the
sources of the earlier one, and a later execution may find the file through that
record. It takes several executions, attachments and breaks, more than the bounds
of the run; it was met while proving `DeliverablesTraced`, which now leaves those
analyses out.

### RunResults

Extends `AnalysisPipeline` by those who look: requests that ask questions or
calculate, in the steps in which they read, and a stream of snapshots that reads
the run before its nodes. Requests and streams write nothing an agent reads.

### Investigation

The three model answers, the validation of each, the fallback checks, the
numbering of evidence over follow-ups, and two files with two records written
one after the other, also by a repeated attempt. An answer is the names it lists
and whether the rest of it is valid.

### DeploymentApproval, CaseReviews

Both are sequences of repository calls without a lock around two of them.
`DeploymentApproval` has the five writes of a decision as five steps, with
calls that break off. In `CaseReviews` a case is what the code makes of it: the
row of an anomaly of the last analysis together with the update events that name
the row; `alone` (auxiliary) tells updates that overlapped no other.

### RiskScan

Every transaction and every autocommitted statement of `scaling/risk.py` is an
action; `workers` holds what a worker keeps between two of them (the row it is
at, counters not yet stored, what it knows of the file). Workers die, are taken
for dead while alive, are interrupted; users cancel and resume; the file may be
edited. `MaxMishaps` bounds all of these together.

### Monitor, Ingestion

`Monitor` has `claim` as one transaction and `execute_claim` statement by
statement, with crashes and exceptions at each; `seen` and `base` are what a
dispatch compared. `Ingestion` has `sync` as one transaction of pages with
failures inside, restarts with another configuration, a source that grows, and
`export_csv` by a temporary file. The four kinds of source appear as one that
pages by a growing key.

### LlmBudget

The ledger file as a sequence of lines, any of which may be cut short; what it
books is a sum over the requests (`Total`) of what the last line about each says
(`CostOf`), as the code's dictionary by request id; the month
passes; sessions of several processes reserve, call, settle or die. The file
lock makes each reservation one step.

### ToolPolicy, SourceCatalog

`ToolPolicy` evaluates every tool in every context under the default registry
and any added rules. `SourceCatalog` is the API's registry with its lock, cut
where the code releases it, the file, and the monitoring worker's copy.

### ArtifactCache

Two caches at the level of directory entries and file contents: a name points
to a file, a rename moves the name, opening for writing truncates, a write takes
two steps. Readers open and read in steps of their own and processes die.

### SpendFigures

Rows of classes of cells: amounts, names with capitals and blanks, dates with
times and padding, invoice numbers. Each of the five parts that compute figures
is translated by itself from its own parser on, and the properties compare their
results. The audit and the overview read row by row while the file is edited.
Amounts are exact, in ten-thousandths; quartiles, the one place where an order
of rounding matters, are rounded as the code does.

The five agree only up to premises that `FiguresReliable` names, and each of them
is a difference between two parsers that the code really has: `float` accepts an
infinite amount and `Decimal` is asked for finite ones (`Finite`; a file that
is analysed again after such an edit answers with other sums than the
calculation before it); the adapter of the analysis strips blanks around dates
(`Unpadded`); the screening lowers names and cuts dates (`Uniform`) and rounds
quartiles to whole ten-thousandths, so that a split of an odd number of them on
the threshold is missed (`Hundredths`); and the analysis files blank suppliers
under `<missing>`, together with a supplier of that name (`NoneMissing`).

### Connectors, WarehouseData

`Connectors` has one installation and its secret, and for each of two processes
an environment in which a setting is set, named by a file, or unset. `Layered`
is the order in which settings override each other, `Opens` what the clients
look for on their own. Settings that go together are one key.

`WarehouseData` extends it by one source: posted, with any mixture of what its
metadata and its URI tell, or published from an installation. `Validated`
is the validation before a run; each reading agent then finds its connection and
reads rows and columns in two steps, while the table is altered (`Alter`) and
the secret replaced (`Rotate`), the two definitions that model what is outside
the repository.

## 4. The runs

| run | instance | distinct states | shows |
|---|---|---|---|
| `job_store` | 2 jobs, 2 runs, 2 workers, 3 ranks, 1 manual retry | 112,938 | `Ownership`, the inductive invariant `IInv`, the refinement `ImplementsLifecycle` |
| `worker_pool` | 1 job, 2 workers, 1 client, 1 crash, 1 manual retry, both deployments | 248,918 | `AttemptsFenced`, `SettledByItsWorker` |
| `pool_ends` | 2 jobs, 1 worker, 1 client, 1 crash | 170,152 | `NoStarvation`, `JobsEnd` |
| `sql_store` | 1 job, 2 workers, 2 operators, 3 attempts; 2 nodes, 1 attachment, 2 executions, 1 death, 1 export, 1 import | 2,691,086 | `SerialJobsKeepLifecycle`, `RowKeepsBoth`, `ArchivesHoldTogether` |
| `orchestrator` | 3 nodes (2 independent, 1 behind both), 2 attempts, 4 calls one after the other with a crash, or 2 that overlap | 630,428 | `NodesInOrder`, `ApprovalsHold`, the refinement `ImplementsRunLifecycle` |
| `calls_return` | 1 node, 2 attempts, 3 calls by 2 drivers that overlap freely | 357,490 | `CallsReturn` |
| `redis_queue` | 2 jobs, 2 workers, 1 caller, 2 pops a poll, 1 upset | 265,092 | `HandedOutAsGranted`, `QueuedIsClaimed` |
| `risk_scan` | 1 scan of 3 rows, a checkpoint every 2, 2 workers, 5 mishaps | 214,484 | `LedgerAgrees`, `ResultWhole`, `CancelHonoured`, `ScanSettles` |
| `background` | 1 monitor, 2 workers, 2 states of the data, 2 dispatches, 2 troubles; 2 ingestion workers, 2 configurations, 3 rows, pages of 2, 2 faults | 237,642 | `AtMostOnce`, `OutcomesReliable`, `DueIsDispatched`; `CursorTellsRecords`, `ExportConverges` |
| `services` | see below | 1,186,597 | fifteen invariants, one for each question below |
| `sql_owners` | 1 job, 2 workers | (violation) | a completion lands on a job that was taken away |
| `completed_nodes` | 1 node without a gate, 2 drivers, 3 calls | (violation) | a retry reopens a node that another call has completed since the check |

What `services` asks, of which module, on what instance:

| property | module | instance |
|---|---|---|
| `WithinCaps` | `LlmBudget` | 2 sessions of 2 calls, 3 requests, 2 months, 1 failure |
| `RecordsAgree` | `DeploymentApproval` | 2 deployments, 2 approvers, 3 decisions, 1 break |
| `EvidenceSound` | `Investigation` | 4 checks, answers of 3 names, 2 follow-ups, 2 tries |
| `ExtensionNeverLoosens` | `ToolPolicy` | all tools and contexts, 6 rules that may be added |
| `AcknowledgedSurvive` | `SourceCatalog` | 2 sources, 2 threads, room for 1 |
| `SteadyDelivery`, `DeliverablesTraced`, `PlansFitData` | `AnalysisPipeline` | 3 datasets, 2 attachments, 2 executions, 2 attempts, 1 interruption |
| `ResultsReliable` | `RunResults` | 2 askers, an allowance of 1, or a stream |
| `DownloadsSound` | `ArtifactCache` | 2 readers, 2 versions, 1 death |
| `CasesAsDecided` | `CaseReviews` | 2 reviewers, 3 updates, a new analysis |
| `ValidationDecidesCycles` | `ExecutionGraphs` | every list of up to 3 nodes |
| `FiguresReliable` | `SpendFigures` | all pairs of 4 kinds of rows with an edit; all multisets of 4 of 20 kinds for the screening |
| `StatusTold` | `Connectors` | 3 environments, 4 secrets, 2 testers, 1 rotation |
| `ReadAsValidated` | `WarehouseData` | 6 posted sources and the published ones, a row limit of 2, 1 alteration |

Why these bounds are enough for what they ask:

* Two attempts (`max` 2) give a first, a retried and a last attempt; the code
  distinguishes nothing else. The dynamic jobs' budget of one is in the same
  instance. One manual retry is enough to reach `max_attempts + 1` and a second
  dead letter.
* Two jobs are needed for the order of claims, for recovery of several jobs at
  once, and for imports that replace one run's jobs and leave the other's.
  Where the question is about one job's attempts (`worker_pool`, `sql_store`)
  one job suffices, with two workers competing for it: the store's operations
  on other jobs do not read it.
* `MaxRank` bounds creations and imports (three ranks: two jobs and a
  re-import). `MaxAttempts` in `SqlJobs` replaces the bound by manual retries,
  since overlapping retries lose count.
* Three nodes have a round of two, a node that waits for both, and a failure, a
  pause or a retry in either half of a round. Four calls reach an execution, an
  approval, a later denial and a retry. `MaxTogether` bounds the calls of
  behaviours with overlap; with one node three of them fit, which is what two
  racing interventions on a failed or waiting node need. `calls_return` leaves
  the graph's shape to `orchestrator`: stale records concern one node.
* Two executions give an earlier and a present one, with a recipe and a dataset
  each: the latest record of a kind is then the wrong one whenever it can be.
  Two attachments let the dataset change before and during the second.
* Three rows with a checkpoint every two have a full batch, a partial one and a
  resumption behind each. Five mishaps allow a worker to be taken for dead, to
  come back, to be interrupted, and the file to be edited.
* Two ingestion configurations and one shared key make a cursor meet a source
  it was not made for; three rows on pages of two end on a partial page.
* Three nodes contain every simple cycle the search treats differently: a loop,
  a pair, a longer one, and one behind a shared dependency.
* A run of `services` has requests, a stream, or neither. Where it has clients,
  attempts do not break off, datasets are attached between executions, and the
  task speaks of procurement; without them all of this is free.
* Four rows are the least for which quartiles are computed.
* Three environments are a bare process, one with everything, and one where the
  two processes differ and a login is mounted as a file.
* In the run of `JobStore` alone, `Reported` cuts the statuses written into runs
  to two that the job operations do not write; `UpdateStatus` takes them all in
  the proofs. In the runs of the pool `Submissions` and `Reported` hold what its
  processes submit and report, as `PoolAssumption` asks.
* Jobs, workers, runs, clients, operators and drivers are symmetric wherever no
  liveness is checked.

`CHECK_DEADLOCK FALSE` is given where the in-memory deployment is included, for
`Orchestrator`, and for the services: all of these really stop when there are no
more requests.

**Fairness.** Nothing is assumed of users, new requests or failures.

* `FairPool` (`pool_ends`): worker loops take their next step, as
  `managed_workflow_worker.py` calls `process_next_job` in a loop that survives
  exceptions and its supervisor restarts it; agents return; an accepted request
  is carried to its end; and a running job's heartbeat grows old. `JobsEnd` does
  not need a job's own worker to survive: a crash leaves the job running, it
  grows stale, and the next poll of its workflow takes it over.
* `FairSpec` of `Orchestrator` (`calls_return`): a call that has arrived takes
  its next step. It is a thread of a worker or of the API, agents return or
  raise (`_call_agent` catches everything), and without a crash nothing else
  stops it.
* `FairRedisSpec`: workers poll and settle; a process that is going to push does.
* `RiskFairness`: workers that live take their next step and poll
  (`run_risk_worker.py` loops); a scan without a worker grows old.
* `BackgroundFairness`: each monitoring worker takes its next step and polls; an
  ingestion worker that can take a step again and again takes it (strong: another
  worker holds the lock at times, and sqlite3 waits and retries), and the next
  interval comes.

### Where code and documents disagree

Two of these are runs that expect a violation, listed under "findings":

* **A non-owner settles** (`sql_owners`). In the SQL store the check of the owner
  and the commit are apart. The in-memory store does not have this.
* **A completed node is restarted** (`completed_nodes`). `service.py:236` checks,
  `service.py:247` writes; another call may complete the node in between.

The others are reachable in the models and were read off them:

* **A stale job is replayed.** `docs/operations/upgrade125-automatic-execution.md:77`
  says it is not; `repository.py:482` requeues it while it has attempts, and the
  poll that found it may hand it out at once. `docs/development.md:358`
  describes the requeueing.
* **Two active jobs.** `worker.py:55` checks, `worker.py:65` enqueues, nothing
  holds the run in between.
* **The local worker takes the wrong job** (`api/runs.py:669`, against
  `async-live-upgrade.md:8`). It polls procurement first and makes one call.
* **A lost dispatch.** `monitoring/worker.py:8` says that a check whose worker
  died is recorded as stale; its dispatch stays `running`.
* **The allowance of questions** is overrun by as many requests as are at work
  (`api/runs.py:349`, `:411`, against `upgrade9-ask-your-results.md:44`).
* **The evaluation** does not compare the report with the dashboard
  (`docs/architecture.md:76`, `report.py:294`).
* **The audit's parser.** `reconcile.py:27` says it matches the accepted
  monetary forms of the analysis; `inf` is accepted by the one (`kpis.py:229`)
  and not by the other. Dates with blanks around them are counted by the
  analysis but not by the summary and the calculations.
* **Key files of object stores.** `README.md:197` lists files for the S3 keys;
  the health check reads them (`get_env_secret`), the client does not.

### Things worth knowing that no document speaks of

* A dataset attached during an execution leaves a report whose profile and
  figures are of two datasets; its lineage names both. The procurement endpoint
  follows a planner event of an earlier execution.
* Two downloads of one address share a temporary name, and the object cache is
  rewritten under its readers: a file may be read torn.
* A comment on a case may revert a decision made meanwhile. Cases are known by
  row number, so a new analysis attaches decisions to other rows.
* An archive exported during an execution may contain evaluations and completed
  nodes whose artifacts it lacks; one exported while a new execution begins may
  say completed and have pending nodes. Two imports without overwrite may both
  pass the check (`archive.py:76`). The SQL store's `save_checkpoint` reads and
  increments its version without a lock.
* The audit compares neither months nor anomalies; the calculations check only
  the row count and the total. An invoice number "n/a" counts as a number.
  Amounts over ten million are invalid to the screening only.
* The status of a new installation looks only at the process's environment
  (`registry.py:214`); a live probe that fails does not change it. Settings an
  installation's secret lacks silently come from the process, so API and worker
  may read with different ones. A process's `AWS_` keys win over an
  installation's own keys in the client.
* A source posted with a plain path validates, and every run of it fails. A
  posted file source with an installation's id is validated at its own path and
  read at the installation's. An analysis of more than 10,000 rows covers
  whichever rows an unordered `LIMIT` returns.

## 5. The table of faults

Each operator `Op_Fault` stands next to the `Op` it is a faulty version of. In
no specification; putting one in place of its original makes the property fail.

| property | fault |
|---|---|
| `Ownership` | requeueing keeps the worker id (`Lost_Unreleased`) |
| `IInv` | manual retry does not raise the budget (`Reinstated_Unfunded`) |
| `ImplementsLifecycle` | dismissed jobs can be retried (`RetryDeadLetter_Dismissed`) |
| `AttemptsFenced` | claims are not counted (`Claimed_Uncounted`) |
| `SettledByItsWorker` | the owner check only looks at the status (`Owns_AnyRunning`) |
| `NoStarvation` | the precedence does not rotate (`NextTurn_Fixed`) |
| `JobsEnd` | nobody recovers stale jobs (`TimedOut_Never`) |
| `SerialJobsKeepLifecycle` | a commit writes every column (`Written_AllColumns`) |
| `RowKeepsBoth` | a status is written with the whole row as it was read (`StatusWritten_Row`) |
| `ArchivesHoldTogether` | the run and its checkpoint are exported after the lists (`ExportOrder_ListsFirst`) |
| `NodesInOrder` | dependencies are not looked at (`Ready_AnyOrder`) |
| `ApprovalsHold` | a denial opens the gate as an approval does (`MayCall_Decided`) |
| `ImplementsRunLifecycle` | a retry does not check the node's status (`Admits_AnyRetry`) |
| `CallsReturn` | failures are not counted (`Outcome_Uncounted`) |
| `HandedOutAsGranted` | a popped id is trusted (`ClaimPopped_Trusting`) |
| `QueuedIsClaimed` | an empty list is taken for an empty queue (`ClaimPastIndex_Never`) |
| `LedgerAgrees` | only the status of a scan is looked at, not its worker (`HoldsLease_AnyWorker`) |
| `ResultWhole` | the file is not looked at again after the last row (`Reckon_Unchecked`) |
| `CancelHonoured` | the status is not read again before the result is written (`Publish_Blindly`) |
| `ScanSettles` | only running scans are taken from silent workers (`Swept_Running`) |
| `AtMostOnce` | the time of the next check is left as it is (`Advanced_Kept`) |
| `OutcomesReliable` | the fingerprint of a failed check is remembered (`FailRow_Recorded`) |
| `DueIsDispatched` | forced checks are not looked for (`DueMonitors_NotForced`) |
| `CursorTellsRecords` | another configuration goes on from the cursor it finds (`SameSource_Unchecked`) |
| `ExportConverges` | the file is exported only when rows have come in (`CommitSync_IfChanged`) |
| `WithinCaps` | only settled requests count (`Booked_Settled`) |
| `RecordsAgree` | a decided job is decided again (`ReadDecidable_Any`) |
| `EvidenceSound` | what was checked already is on offer again (`Remaining_All`) |
| `ExtensionNeverLoosens` | rules that allow come first (`Evaluate_AllowFirst`) |
| `AcknowledgedSurvive` | the record is written back as validate writes it (`WriteBack_Saved`) |
| `SteadyDelivery` | the first dataset of the run is analysed, not the attached one (`Analyze_FirstDataset`) |
| `DeliverablesTraced` | the sources of a report are not expanded (`ReportSources_Direct`) |
| `PlansFitData` | whatever the model advises is planned (`Advised_AnyRecipe`) |
| `ResultsReliable` | a snapshot reads the nodes before the run (`Snapshot_NodesFirst`) |
| `DownloadsSound` | the payload is written to the file everybody looks for (`Target_Cached`) |
| `CasesAsDecided` | a comment on a decided case reopens it (`Kept_Fresh`) |
| `ValidationDecidesCycles` | only loops and pairs are found (`Acyclic_Mutual`) |
| `FiguresReliable` | the file is not looked at again after an audit (`Unchanged_Never`) |
| `StatusTold` | the process's environment is checked, not the installation's (`Health_Process`) |
| `ReadAsValidated` | the process's environment comes before the configuration (`Layered_ProcessFirst`) |

## 6. What is proved

The assumptions are those on the constants, stated by name in each module, and
nothing else.

**`JobStore_proofs`** holds for every set of jobs, runs and workers, every set of
workflows and submissions, every bound and every set of archives that meets
`ConstantsAssumption` (well-formed job records of one run with a positive rank,
distinct roles for names).

* `Invariance`: `Spec => []IInv`, where `IInv` is `TypeOK`, `Ownership`,
  `Budget`, `History` and `Kinds` together. `TypeCorrect`, `OwnershipHolds`,
  `BudgetHolds`, `HistoryHolds`, `KindsHolds` are its parts;
  `DeadLettersFailRuns` is the action property that a burial fails the run.
* `Refinement`: `Spec` implements `JobLifecycle`.

None of the five is inductive alone. That a claim stays within the budget needs
`attempts < max` of queued jobs, which recovery establishes only because the
lost attempt was within the budget; that the log has one entry per attempt needs
the claim to start from a complete log and the kind of the job to say that
deployment jobs have no attempts; that a burial finds a run to fail needs the
part of `Kinds` that ties jobs to existing runs, also across imports; and all of
them need the archives to be well formed. The argument goes record by record:
for each transformation (`Submitted`, `Claimed`, `Lost`, `Reinstated`,
`Dismissed`) a lemma says that it takes well-formed records to well-formed
records, a lemma each for recovery and for the claim after it lifts this to the
store, and then every action has a short proof that cites its lemma. The
refinement has a step lemma per action in the same way: a record transformation
is one `Move` of the ledger, and recovery with a claim moves several entries.

**`Queues_proofs`** is about `WorkerPool` and `RedisQueue`. The first part holds
for any jobs, workers, clients, budgets, rotation and number of crashes and
manual retries. `PoolUsesStore` says that the pool, seen from the repository, is
a behaviour of `JobStore`, so that everything above holds of it; what a worker
must know for that is that the job it holds exists (`JobHeld`).
`AttemptsFencedHolds` is the fence: the repository compares worker ids, and what
makes the comparison enough is that only a claim makes a worker an owner, in the
step in which it also hands it the attempt number (`SameAttempts` says that no
other call does either). The number of executions is bounded by counting: every
attempt gives one start, which its worker makes, drops or loses in a crash, so
starts made and starts still to be made together never exceed the attempts
counted (`StartsCounted`), and these stay within the budget by `IInv`.
`SettledByItsWorkerHolds` follows from the fence. `NoQueueStarves` bounds, for
each worker and each workflow name, the claims since the worker last looked into
that queue by the distance of the name from the present place in the rotation
(`TurnsInv`), so the bound is the length of the rotation, whatever that is.
`PoolTypes` gives the types.

The second part holds for any jobs, workers, callers, pops and upsets.
`HandedOutAsGranted` follows from `IInv` once it is known that a worker is
handed a job in the very step in which the repository counts an attempt
(`Handed`); that every id in the list or in a process's hand is one of a job is
all that has to be known of the list.

**`Orchestrator_proofs`** holds for any graph, any gated nodes, any number of
drivers, calls and crashes. `ApprovalsHold` needs two invariants. Whatever
overlaps or dies, an approval in the checkpoint or in what a driver remembers of
it was given by an approver (`Earned`); this gives `GateHolds`. As long as calls
neither overlap nor die, the one driver's copy, and the checkpoint except between
a decision and its save, agree with the last decision on every node; this gives
`DenialStands`. Theorem: `GateStands`.

`NodesInOrder` asks what a run looks like when nobody works on it, and that is
only known from what the driver who left has seen. `OrderInv` says it for every
place a driver can be at: what is left of its round is as it was when the round
began (`Untouched`), the other nodes are done or still to be called (`Calm`), and
whatever dies, at most one node is stuck, in a run whose checkpoint has all that
is completed (`Resumable`). That a round without a ready node is the end of the
run uses that the graph has an order: the first
uncompleted node in it is ready, which is the least-number principle (`WFMin`
applied to `<` on numbers; nothing here uses a library theorem with an operator
parameter). `CompletedKept` follows from the same invariant;
it has no run of its own, the refinement below being the stronger property.

So does the refinement of `RunLifecycle`, with a lemma for each kind of step:
what a driver writes of a node (`LifeOfNode`), of the run (`LifeOfStatus`), the
renewal (`LifeOfRenewal`), and calls and deaths (`LifeOfCall`). A node that is
begun or concluded is as the driver read it (`Untouched`, `AtWork`); a decision
finds no node at work because a run with a stuck node is quiet (`Resumable`); a
status is written at a place where `OrderInv` says what the nodes are. Theorems:
`OrchestratorTypes`, `NodesGoInOrder`, `CompletedStaysKept`, `RunRefinement`.

**`SqlStore_proofs`** is about the two modules of the SQL store.

* `OverlapAloneHarms`: `SqlSpec => SerialJobsKeepLifecycle`. The invariant says
  that a call at work on a job that no other call has touched (`raced`) has read
  the row as it is, so its commit does what the locked method would do; on the
  other jobs only the attempt counter is claimed.
* `RowHoldsBoth`: the session of `update_status` commits the status alone, so the
  dataset never travels with it; and while it is open nobody else writes the
  status, so the status it writes is the last one told (`RowInv`).
* `ArchivesHold`: the seven parts of an archive are read in the order in which
  they may refer to each other, so each part is compared with the store as it is
  now: what was read earlier is contained in what is read later. Attempting the
  proof showed that the property was too strong as it had been stated: an import
  may bring evaluations of artifacts that its archive does not hold, and an export
  after it passes them on, which needs two exports and two imports in a row. The
  evaluations that an import brought (`told.brought`, auxiliary) are now left out
  of `CompletedIsWhole`.

**`Background_proofs`** holds for any sources, keys, page size, workers and faults,
and any finite set of monitors.

* `CursorsTellRecords`: the database is locked from the reading of the cursor to
  the commit, so the page about to be stored begins where the records end
  (`PageFollows`), and storing it moves records and cursor together
  (`PageStored`).
* `DispatchedAtMostOnce`: a monitor's dispatches and the occasion that is still
  due never exceed the occasions there were (`Spent`).
* `OutcomesAreReliable`: a dispatch is in the hands of one worker at most
  (`Apart`), a completed one stays so, and a worker that is about to record it
  has raised its alerts before (`InHand`).

**`RiskScan_proofs`** holds for any number of scans, workers, rows, checkpoints
and mishaps. `RiskInv` adds to what is checked the part a worker carries between
two transactions: if it still holds the scan, what it has counted and collected
since the last checkpoint continues that checkpoint exactly (`Continues`); if it
does not, nothing is said of it, and `HoldsLease` keeps it from writing. As long
as the file is the one the scan was signed for, the rows stored are all usable
ones (`ScanOK`), which is what makes a published result whole. Theorems:
`RiskInvHolds`, `RiskTypeCorrect`, `LedgerAgreesHolds`, `ResultsWhole`,
`CheckpointsAdvance` (no worker takes back what another stored) and
`CancellationsHonoured`.

**`Services_proofs`** is about the services, each with an invariant of its own.

* `ExtensionsNeverLoosen` goes by comparing decisions: the default rules say
  "block" or "escalate" of whatever the permissions restrict, adding rules only
  adds to what is said, and a decision that restricts wins.
* `AcknowledgedSourcesSurvive`: memory and catalog have to agree on what was
  acknowledged (`KeptTwice`), a record about to be written back has to be the
  present one (`ReadsCurrent`), and a thread that registers an id must be alone
  with it (`RegistersAlone`). The ids two threads have registered at once are
  excluded (`raced`), where the property is false.
* `ApprovalRecordsAgree`: for each deployment that was never disturbed, the calls
  at work on it and the events and artifacts it has are counted together.
* `CasesStayDecided`: a disposition that an update carries was justified when
  the update was checked, and a rationale is never taken back (`Justified`); an
  update that is alone with its case will leave the status asked for last
  (`Decided`). The updates of a row are a set of indices, the last is `Latest`.
* `DownloadsAreSound`: as long as downloads have not overlapped, one opener is at
  work. At an address nobody works any more once the name is there, and the file
  it leads to is whole (`SoloUrl`); in the object cache the one that works has
  torn the file, and has written it whole before it reads it (`SoloObject`). That
  there is always a free file is a pigeonhole argument.
* `StatusesTell`: a status that stands was given by a test that had the present
  secret, so it only has to be shown that the test and the client look for the
  same settings, setting by setting.
* `EvidenceIsSound`: the checks chosen are distinct and available. For the choice
  from a model's answer (`Picked`) this compares the positions of the names.
* `SourcesReadAsValidated`: `WarehouseInv`, together with what is known of the
  installation, says that a validation with the present secret still stands, and
  that what an agent finds is what the validation found wherever that came from
  the secret or the configuration.
* `CapsHold`: neither the month's budget nor a run's is ever exceeded. The
  argument is a ledger in the mind (`Covers`): in each month every request has a
  share of the budget, no less than what was sent or is promised for it, and,
  as long as the file can be read, no more than what the file books for it. An
  admitted request gets its estimate as share, a settlement lowers it to what was
  foreseen, and a file that cannot be read admits nothing. The sum over the
  requests (`Total`) is a recursive function; that it exists, and how it changes
  with one amount, is proved by counting over sets (`Counting`) from the
  least-number principle.
* `CyclesDecided`: any set of nodes that the search has left holds one that
  depends on none of the set (`Founded`), as a node is left after all that it
  depends on. In an accepted graph that set may be the nodes not yet completed, so
  one of them is ready. On the other side each node on the stack depends on the
  next, so any order would descend along it (`Descends`), and a node met there
  again would have to come before itself.

Beside these there are the type theorems `CatalogTypeCorrect`, `ApprovalTypes`,
`CacheTypes`, `ConnectorsTypes` and `BudgetTypesHold`. The last of them says more
than a type: the corrected expense of a run is never negative.

**`Pipeline_proofs`** is about `AnalysisPipeline` and, on top of it, `RunResults`,
for any datasets, charts, questions, clients, executions, attachments and breaks.
An agent writes several outputs and may break off after any of them, so the steps
of all agents are brought under one form first (`Attempted`: a prefix of some
outputs is written, and perhaps the next file without its record), and what the
stores owe to that form is proved once.

* `StoreInv`: records cite earlier records only, a record names a file that an
  agent of its type writes, and that file has content; a file named after a recipe
  has that recipe. An execution past an agent knows of what that agent has made
  and of nothing of later agents (`Passed`).
* `PlansFit` needs `PlanInv`: an undisturbed dynamic execution past the planner
  follows the last plan, and the schema it reads later is of that plan. A broken
  attempt can leave another schema behind, but only before the planner is passed.
* `DeliveryIsSteady` and `DeliverablesAreTraced` share `DataInv`. Among what an
  execution knows there is one KPI table, which its charts show and cite
  (`TableOK`). For whole histories, the last record that names an analysis leads
  to the dataset of that file, unless the file was overwritten unrecorded
  (`TornOK`): this is why the report agent may take the latest record of any age.
  Without an attachment in the middle it follows what the tables and the profile
  are of (`SteadyOK`), and where the report's links lead (`ReportOK`).
* `ResultsAreReliable`: the limit on questions is checked before the answer is
  computed and saved, so it can be overrun by the requests at work; saved and busy
  requests together never exceed the limit by more than the other clients
  (`AllowanceOK`), counted over finite sets. That a snapshot of a completed run
  has its nodes completed, or is older than the last execution, is `StreamOK`.

`PipelineTypes` and `ResultsTypes` give the types.

* `FiguresAreReliable` (`SpendFigures`), for any files, rows, edits and limits. The
  part about the steps says which rows each record tells of: two records with one
  stamp tell of the same rows, and a scan that ends with the stamp it began with has
  read the file as it is (`FiguresInv`). The rest compares operators. Over finite
  amounts both parsers count the same rows (`FiguresFit`, `GroupsAgree`); a rank
  between 1 and the number of rows is the amount of one of them (`RankedIs`),
  so that among whole hundredths a quartile is one too (`QuartileIs`) and neither
  rounding nor halving moves a threshold across an amount (`RoundedIs`,
  `HalvedIs`); rows have one key to the analysis just if they have one to the
  screening (`KeysAre`). That sums of whole amounts are whole (`SumIsWhole`) is
  proved of the fold of the library by counting over the sizes of sets. The proof
  showed three premises that were missing from the property (section 3).

The assumptions on the constants say what the code has: names that stand for
"nothing" are not among the real ones, bounds are numbers, the sets counted are
finite; and two facts of the code that a proof needs, that the checks preferred
by the investigation are distinct and contain the two of its fallback
(`InvestigationAssumption`), and that archives are well formed
(`ConstantsAssumption`, `RecordsAssumption`).

## 7. Only model-checked

Every safety property of the runs is proved. Liveness (`JobsEnd`, `CallsReturn`,
`QueuedIsClaimed`, `ScanSettles`, `DueIsDispatched`, `ExportConverges`) stays with
TLC, as the prover does not treat fairness and ENABLED.

## 8. Not modelled

* Rendering (`visualization/`, `reports/`), the web front end, authentication,
  redaction, tenants, tracing and metrics: computation or I/O without state that
  other parts depend on. Migrations and deployment files.
* Remote exchanges themselves: HTTP, S3, SQL text, the three managed secret
  providers (one here). They appear by their outcomes.
* In the analytics: anomaly scores, forecasts, supplier risk, savings, generic
  statistics; in the evaluation: the text checks. In the connectors: browsing,
  previews, deletion, aggregates in the warehouse.
* In monitoring: the life of an alert after it is stored, heartbeats. Two worker
  processes under one id at the same time (ids are random unless set).
* SQLite as the SQL store's database: it ignores row locks and serialises writers.
* Abstracted in what is modelled: texts, timestamps other than staleness, list
  filters, artifacts' metadata that nothing reads back.
