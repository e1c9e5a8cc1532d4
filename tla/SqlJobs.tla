------------------------------ MODULE SqlJobs -------------------------------
(***************************************************************************)
(* The workflow jobs of SQLAlchemyRunRepository                            *)
(* (src/src/aeai_os/runs/sqlalchemy_repository.py) on a READ COMMITTED     *)
(* database.  Claiming and recovery select their rows FOR UPDATE, so each  *)
(* of those transactions is one step.  The other methods read the row      *)
(* without a lock, check it, and later write it: the model gives them a    *)
(* step that reads and a step that commits, with anything in between.      *)
(*                                                                         *)
(* A commit writes the columns whose value the method changed with respect *)
(* to the row it read, and no others; that is what the unit of work of a   *)
(* SQLAlchemy session does, and no version column guards it.               *)
(*                                                                         *)
(* claim_next_workflow_job recovers and claims in two transactions here.   *)
(***************************************************************************)
EXTENDS JobStore

CONSTANTS Operators,     \* people (or retrying clients) at the dead letters
          MaxAttempts    \* bound: attempts of one job (lost updates of the
                         \* payload make MaxManual no bound of it here)

ASSUME SqlAssumption ==
    /\ None \notin Operators
    /\ Operators \cap Workers = {}
    /\ MaxAttempts \in Nat

VARIABLES calls,         \* the open session of every caller
          raced          \* auxiliary: the jobs that a transaction has touched
                         \* while another caller's session was open on them

sqlvars == <<jobs, runs, calls, raced>>

Callers == Workers \cup Operators

\* seen, seenRun   the job row and the run's status as the method read them
Call == [op: {"heartbeat", "complete", "retry", "fail", "reinstate", "dismiss"},
         job: Jobs, seen: JobRecord, seenRun: RunStatuses]

NoCall == [op |-> "none"]

Open(j) == {p \in Callers : calls[p] # NoCall /\ calls[p].job = j}

Touched(S) == raced' = raced \cup {j \in S : Open(j) # {}}

-----------------------------------------------------------------------------
(* What a method makes of the row it has read.                             *)

After(call) ==
    CASE call.op = "heartbeat" -> [call.seen EXCEPT !.stale = FALSE]
      [] call.op = "complete"  -> [call.seen EXCEPT !.status = "completed"]
      [] call.op = "retry"     -> Lost(call.seen, TRUE)
      [] call.op = "fail"      -> Lost(call.seen, FALSE)
      [] call.op = "reinstate" -> Reinstated(call.seen)
      [] call.op = "dismiss"   -> Dismissed(call.seen)

\* The run status that goes with it.
RunAfter(call) ==
    CASE After(call).status = "dead_letter" -> "failed"
      [] call.op = "reinstate" -> "pending"
      [] OTHER -> call.seenRun

\* failure_history and manual_retry_count share the payload column, which
\* these methods replace by an edited copy of what they read.
RewritesPayload(call) == call.op \in {"retry", "fail", "reinstate", "dismiss"}

\* Fault: every column is saved.
Written_AllColumns(row, call) == [After(call) EXCEPT !.stale = FALSE]

\* A commit touches the columns that changed (and ends the heartbeat's age:
\* it is written, or the job no longer runs).
Written(row, call) ==
    [f \in DOMAIN row |->
        IF f = "stale" THEN FALSE
        ELSE IF \/ After(call)[f] # call.seen[f]
                \/ f \in {"failures", "manual"} /\ RewritesPayload(call)
             THEN After(call)[f]
             ELSE row[f]]

-----------------------------------------------------------------------------
(* The read, with the checks that raise when they fail, and the write.     *)

Begin(p, op, j) ==
    /\ calls[p] = NoCall
    /\ Touched({j})
    /\ calls' = [calls EXCEPT ![p] =
          [op |-> op, job |-> j, seen |-> jobs[j], seenRun |-> runs[jobs[j].run]]]
    /\ UNCHANGED <<jobs, runs>>

WorkerCalls(w, j) ==
    /\ Owns(w, j)
    /\ \E op \in {"heartbeat", "complete", "retry", "fail"} : Begin(w, op, j)

OperatorCalls(o, j) ==
    /\ jobs[j].status = "dead_letter"
    /\ \/ jobs[j].manual < MaxManual /\ Begin(o, "reinstate", j)
       \/ Begin(o, "dismiss", j)

Commit(p) ==
    /\ calls[p] # NoCall
    /\ LET call == calls[p]
           run == call.seen.run
       IN /\ jobs' = [jobs EXCEPT ![call.job] = Written(@, call)]
          /\ runs' = IF RunAfter(call) # call.seenRun
                     THEN [runs EXCEPT ![run] = RunAfter(call)] ELSE runs
    /\ calls' = [calls EXCEPT ![p] = NoCall]
    /\ UNCHANGED raced

\* The connection or the process is lost, the transaction rolled back.
Abort(p) ==
    /\ calls[p] # NoCall
    /\ calls' = [calls EXCEPT ![p] = NoCall]
    /\ UNCHANGED <<jobs, runs, raced>>

\* The claiming transaction.
ClaimOldest(w, wf) ==
    /\ calls[w] = NoCall
    /\ \E j \in Jobs :
          /\ NextInLine(jobs, wf, j)
          /\ jobs[j].attempts < MaxAttempts
          /\ jobs' = [jobs EXCEPT ![j] = Claimed(@, w)]
          /\ Touched({j})
    /\ UNCHANGED <<runs, calls>>

\* The recovering transaction.
RecoverRows(wf) ==
    /\ Recover(wf)
    /\ Touched(TimedOut(wf))
    /\ UNCHANGED calls

SqlInit == Init /\ calls = [p \in Callers |-> NoCall] /\ raced = {}

SqlNext ==
    \/ \E w \in Workers : \/ \E j \in Jobs : WorkerCalls(w, j)
                          \/ \E wf \in Claimable : ClaimOldest(w, wf)
    \/ \E o \in Operators : \E j \in Jobs : OperatorCalls(o, j)
    \/ \E p \in Callers : Commit(p) \/ Abort(p)
    \/ \E wf \in Claimable : RecoverRows(wf)
    \/ /\ \/ \E r \in Runs :
                \/ CreateRun(r)
                \/ \E status \in Reported : UpdateStatus(r, status)
                \/ \E j \in Jobs : \E sub \in Submissions : Enqueue(j, r, sub)
          \/ \E j \in Jobs : Expire(j)
       /\ UNCHANGED <<calls, raced>>

SqlSpec == SqlInit /\ [][SqlNext]_sqlvars

-----------------------------------------------------------------------------
(* Properties.                                                             *)

SqlTypeOK ==
    /\ TypeOK
    /\ calls \in [Callers -> Call \cup {NoCall}]
    /\ raced \subseteq Jobs

\* As long as nobody else touches a job while a session on it is open, this
\* store keeps the life cycle of JobLifecycle, step by step.  What goes wrong
\* here goes wrong by overlap only.
SerialJobsMove == \A j \in Jobs \ raced' : Lifecycle!Move(Ledger[j], Ledger'[j])

\* However calls overlap, no attempt is handed out twice and none is handed
\* back: the attempt count moves only when a claim gives the next attempt to
\* one worker.  The locks of the claim and the column-wise writes of the other
\* methods together see to it.
AttemptGivenOnce ==
    \A j \in Jobs :
        Present(j) /\ jobs'[j].attempts # jobs[j].attempts
        => /\ jobs[j].status = "queued" /\ jobs'[j].status = "running"
           /\ jobs'[j].attempts = jobs[j].attempts + 1
           /\ \E w \in Workers : jobs'[j].worker = w

\* Both together are what the store promises without locks around its
\* read-check-write methods (heartbeat, complete, fail, retry and dismiss of
\* SQLAlchemyRunRepository).
SerialJobsKeepLifecycle == [][SerialJobsMove /\ AttemptGivenOnce]_sqlvars

\* "Workers will only complete or fail jobs they own" (development.md:358): a
\* completion or failure that changes a job is the owner's.
OnlyOwnersSettle ==
    [][\A w \in Workers :
          /\ calls[w] # NoCall /\ calls'[w] = NoCall
          /\ calls[w].op \in {"complete", "retry", "fail"}
          /\ jobs' # jobs
          => Owns(w, calls[w].job)]_sqlvars
=============================================================================
