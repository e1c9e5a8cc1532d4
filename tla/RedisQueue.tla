----------------------------- MODULE RedisQueue -----------------------------
(***************************************************************************)
(* RedisWorkflowQueue (src/src/aeai_os/workflows/queue.py): a Redis list   *)
(* of job ids beside the job repository.  Every operation calls the        *)
(* repository first and touches the list afterwards, or pops the list and  *)
(* asks the repository for the job then; no transaction spans the two, and *)
(* the process may die in between.  The list itself may be lost.           *)
(*                                                                         *)
(* One list: the jobs of one workflow name.  The repository is JobStore.   *)
(***************************************************************************)
EXTENDS JobStore

CONSTANTS QueueName,     \* the workflow whose list this is
          Callers,       \* API processes that enqueue jobs and retry dead ones
          MaxPops,       \* _max_pop_attempts (100 in the code)
          MaxUpsets      \* bound: dying processes, lost lists and manual
                         \* retries together

ASSUME RedisAssumption ==
    /\ QueueName \in Claimable
    /\ Callers \cap Workers = {}
    /\ None \notin Callers
    /\ MaxPops \in Nat \ {0} /\ MaxUpsets \in Nat

VARIABLES index,         \* the Redis list of QueueName
          procs,         \* where each process is in its call
          upsets,        \* deaths and lost lists so far
          handed         \* auxiliary: how often each job was given to a worker

redis == <<index, procs, upsets, handed>>
redisvars == <<jobs, runs, index, procs, upsets, handed>>

\* owed  ids the process has to push still    job, tries  the loop of claim_next
\* next  where the process goes once it owes nothing
Proc == [pc : {"ready", "pushing", "popping", "popped", "holding"},
         owed : SUBSET Jobs, job : Jobs \cup {None}, tries : 0..MaxPops,
         next : {"ready", "popping"}]

Ready == [pc |-> "ready", owed |-> {}, job |-> None, tries |-> 0, next |-> "ready"]

Pushing(owed, next) ==
    [Ready EXCEPT !.pc = IF owed = {} THEN next ELSE "pushing",
                  !.owed = owed, !.next = next]

Upset == upsets < MaxUpsets /\ upsets' = upsets + 1

-----------------------------------------------------------------------------
(* The API's side.                                                         *)

\* enqueue: the job is committed before its id is pushed.
EnqueueAndOwe(c, j, r, sub) ==
    /\ procs[c].pc = "ready"
    /\ Enqueue(j, r, sub)
    /\ procs' = [procs EXCEPT ![c] = Pushing({j}, "ready")]
    /\ UNCHANGED <<index, upsets, handed>>

RetryAndOwe(c, j) ==
    /\ procs[c].pc = "ready"
    /\ Upset
    /\ RetryDeadLetter(j)
    /\ procs' = [procs EXCEPT ![c] = Pushing({j}, "ready")]
    /\ UNCHANGED <<index, handed>>

\* _push_job, for one job after the other in the order of the repository.
Push(p) ==
    /\ procs[p].pc = "pushing"
    /\ \E j \in procs[p].owed :
          /\ \A k \in procs[p].owed : jobs[j].rank <= jobs[k].rank
          /\ index' = Append(index, j)
          /\ procs' = [procs EXCEPT ![p] = Pushing(@.owed \ {j}, @.next)]
    /\ UNCHANGED <<jobs, runs, upsets, handed>>

-----------------------------------------------------------------------------
(* The worker's side.                                                      *)

\* claim_next with a stale_after: recovery comes first, and what it requeued
\* is pushed.
RecoverFirst(w) ==
    /\ procs[w].pc = "ready"
    /\ \/ Recover(QueueName)
       \/ TimedOut(QueueName) = {} /\ UNCHANGED <<jobs, runs>>
    /\ procs' = [procs EXCEPT ![w] =
          Pushing({j \in TimedOut(QueueName) : jobs'[j].status = "queued"}, "popping")]
    /\ UNCHANGED <<index, upsets, handed>>

Pop(w) ==
    /\ procs[w].pc = "popping"
    /\ procs[w].tries < MaxPops
    /\ index # <<>>
    /\ index' = Tail(index)
    /\ procs' = [procs EXCEPT ![w].pc = "popped", ![w].job = Head(index)]
    /\ UNCHANGED <<jobs, runs, upsets, handed>>

Holding(w, j) ==
    /\ procs' = [procs EXCEPT ![w] = [Ready EXCEPT !.pc = "holding", !.job = j]]
    /\ handed' = [handed EXCEPT ![j] = @ + 1]

\* Fault: the popped id is trusted, the job's status is not looked at.
ClaimPopped_Trusting(w) ==
    /\ procs[w].pc = "popped"
    /\ jobs' = [jobs EXCEPT ![procs[w].job] = Claimed(@, w)]
    /\ Holding(w, procs[w].job)
    /\ UNCHANGED <<runs, index, upsets>>

\* The popped id may be a duplicate, or its job was claimed past the list.
ClaimPopped(w) ==
    LET j == procs[w].job
    IN  /\ procs[w].pc = "popped"
        /\ \/ ClaimJob(w, j) /\ Holding(w, j)
           \/ /\ jobs[j].status # "queued"
              /\ procs' = [procs EXCEPT ![w].pc = "popping", ![w].tries = @ + 1]
              /\ UNCHANGED <<jobs, runs, handed>>
        /\ UNCHANGED <<index, upsets>>

\* Fault: an empty list is taken for an empty queue.
ClaimPastIndex_Never(w) ==
    /\ procs[w].pc = "popping"
    /\ index = <<>> \/ procs[w].tries = MaxPops
    /\ procs' = [procs EXCEPT ![w] = Ready]
    /\ UNCHANGED <<jobs, runs, index, upsets, handed>>

\* The list is empty or kept answering with dead ids: the repository itself is
\* asked for its oldest job.
ClaimPastIndex(w) ==
    /\ procs[w].pc = "popping"
    /\ index = <<>> \/ procs[w].tries = MaxPops
    /\ \/ \E j \in Jobs :
             NextInLine(jobs, QueueName, j) /\ ClaimJob(w, j) /\ Holding(w, j)
       \/ /\ Waiting(jobs, QueueName) = {}
          /\ procs' = [procs EXCEPT ![w] = Ready]
          /\ UNCHANGED <<jobs, runs, handed>>
    /\ UNCHANGED <<index, upsets>>

\* The job is over: settled, failed and perhaps pushed back, or no longer the
\* worker's.
Settle(w) ==
    LET j == procs[w].job
    IN  /\ procs[w].pc = "holding"
        /\ \/ Complete(w, j)
           \/ \E retry \in BOOLEAN : Fail(w, j, retry)
           \/ ~Owns(w, j) /\ UNCHANGED <<jobs, runs>>
        /\ procs' = [procs EXCEPT ![w] =
              Pushing(IF Owns(w, j) /\ jobs'[j].status = "queued" THEN {j} ELSE {},
                      "ready")]
        /\ UNCHANGED <<index, upsets, handed>>

-----------------------------------------------------------------------------
\* The process dies with what it has popped and not claimed, and with what it
\* has committed and not pushed.
Lose(p) ==
    /\ procs[p] # Ready
    /\ procs' = [procs EXCEPT ![p] = Ready]
    /\ Upset
    /\ UNCHANGED <<jobs, runs, index, handed>>

\* Redis comes back empty.
LoseIndex ==
    /\ index # <<>>
    /\ index' = <<>>
    /\ Upset
    /\ UNCHANGED <<jobs, runs, procs, handed>>

ClaimStep(w) ==
    RecoverFirst(w) \/ Push(w) \/ Pop(w) \/ ClaimPopped(w) \/ ClaimPastIndex(w)

CallerStep(c) ==
    \/ Push(c)
    \/ \E j \in Jobs :
          \/ RetryAndOwe(c, j)
          \/ \E r \in Runs, sub \in Submissions : EnqueueAndOwe(c, j, r, sub)

RedisInit ==
    /\ Init
    /\ index = <<>>
    /\ procs = [p \in Workers \cup Callers |-> Ready]
    /\ upsets = 0
    /\ handed = [j \in Jobs |-> 0]

RedisNext ==
    \/ \E w \in Workers : ClaimStep(w) \/ Settle(w)
    \/ \E c \in Callers : CallerStep(c)
    \/ \E p \in Workers \cup Callers : Lose(p)
    \/ LoseIndex
    \/ /\ \/ \E r \in Runs : CreateRun(r)
          \/ \E j \in Jobs : Expire(j)
       /\ UNCHANGED redis

RedisSpec == RedisInit /\ [][RedisNext]_redisvars

\* Workers poll for ever, the work they hold ends, and callers finish a push
\* they have begun.
FairRedisSpec ==
    /\ RedisSpec
    /\ \A w \in Workers : WF_redisvars(ClaimStep(w) \/ Settle(w))
    /\ \A c \in Callers : WF_redisvars(Push(c))

-----------------------------------------------------------------------------
(* Properties.                                                             *)

RedisTypeOK ==
    /\ TypeOK
    /\ index \in Seq(Jobs)
    /\ procs \in [Workers \cup Callers -> Proc]
    /\ upsets \in 0..MaxUpsets
    /\ handed \in [Jobs -> Nat]

\* "Duplicate Redis entries or stale ids cannot double-execute" (queue.py:164):
\* a job is handed out once for each attempt it was granted at enqueue and
\* once for each manual retry, whatever the list holds.
HandedOutAsGranted == \A j \in Jobs : handed[j] <= jobs[j].granted + jobs[j].manual

\* An id lost between the commit and the push, popped by a process that dies,
\* or lost with the list does not strand its job: every queued job is claimed.
QueuedIsClaimed == \A j \in Jobs : jobs[j].status = "queued" ~> jobs[j].status # "queued"
=============================================================================
