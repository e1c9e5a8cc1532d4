--------------------------- MODULE SqlStore_proofs ---------------------------
(***************************************************************************)
(* Proofs about the SQLAlchemy repository: the workflow jobs of SqlJobs,   *)
(* for any jobs, workers and operators, on the lemmas about job records of *)
(* JobStore_proofs; and the rows of a run and its archives of RunRecords,  *)
(* for any number of writers, exports and imports.                         *)
(***************************************************************************)
EXTENDS SqlJobs, RunRecords, JobStore_proofs, WellFoundedInduction

-----------------------------------------------------------------------------
(* What the methods make of any row, well formed or not: a row that was    *)
(* written by calls that overlap need not be.                              *)

\* The methods that settle an attempt keep the type of the row they have read, its run and
\* its attempts, and none of them makes it disappear.
LEMMA LostTyped ==
    ASSUME NEW job \in JobRecord, NEW retry \in BOOLEAN
    PROVE  /\ Lost(job, retry) \in JobRecord
           /\ Lost(job, retry).attempts = job.attempts
           /\ Lost(job, retry).run = job.run
           /\ Lost(job, retry).stale = FALSE
           /\ Lost(job, retry).status \in {"queued", "dead_letter"}
<1> DEFINE again == retry /\ job.attempts < job.max
           new == [job EXCEPT !.status = IF again THEN "queued" ELSE "dead_letter",
                              !.worker = IF again THEN None ELSE @,
                              !.stale = FALSE,
                              !.failures = Append(@, job.attempts)]
<1>1. Append(job.failures, job.attempts) \in Seq(Nat)
  BY DEF JobRecord
<1>2. (IF again THEN "queued" ELSE "dead_letter") \in JobStatuses
  BY DEF JobStatuses
<1>3. (IF again THEN None ELSE job.worker) \in Workers \cup {None}
  BY DEF JobRecord
<1>4. new \in JobRecord
  <2> HIDE DEF again
  <2>1. QED
    BY <1>1, <1>2, <1>3 DEF JobRecord
<1>5. /\ new.attempts = job.attempts /\ new.run = job.run /\ new.stale = FALSE
      /\ new.status \in {"queued", "dead_letter"}
  BY DEF JobRecord
<1>6. QED
  BY <1>4, <1>5 DEF Lost

\* The same of the operators' methods.
LEMMA OperatorTyped ==
    ASSUME NEW job \in JobRecord
    PROVE  /\ Reinstated(job) \in JobRecord /\ Dismissed(job) \in JobRecord
           /\ Reinstated(job).attempts = job.attempts /\ Dismissed(job).attempts = job.attempts
           /\ Reinstated(job).run = job.run /\ Dismissed(job).run = job.run
           /\ Reinstated(job).status = "queued" /\ Dismissed(job).status = "dismissed"
<1>1. /\ "queued" \in JobStatuses /\ "dismissed" \in JobStatuses
      /\ job.manual + 1 \in Nat /\ job.attempts + 1 \in Nat /\ job.max \in Nat
  BY DEF JobStatuses, JobRecord
<1>2. (IF job.max > job.attempts THEN job.max ELSE job.attempts + 1) \in Nat
  BY <1>1
<1>3. Reinstated(job) \in JobRecord
  BY <1>1, <1>2 DEF Reinstated, JobRecord
<1>4. Dismissed(job) \in JobRecord
  BY <1>1 DEF Dismissed, JobRecord
<1>5. /\ Reinstated(job).attempts = job.attempts /\ Reinstated(job).run = job.run
      /\ Reinstated(job).status = "queued"
  BY DEF Reinstated, JobRecord
<1>6. /\ Dismissed(job).attempts = job.attempts /\ Dismissed(job).run = job.run
      /\ Dismissed(job).status = "dismissed"
  BY DEF Dismissed, JobRecord
<1>7. QED
  BY <1>3, <1>4, <1>5, <1>6

\* A call that is open has read a row of the status its method asks for.
CallOK(call) ==
    /\ call.seen.run \in Runs
    /\ call.seen.status = IF call.op \in {"reinstate", "dismiss"} THEN "dead_letter"
                          ELSE "running"

\* What an open call would write is of the right type, of the same run and attempts.
LEMMA AfterTyped ==
    ASSUME NEW call \in Call, CallOK(call)
    PROVE  /\ After(call) \in JobRecord
           /\ After(call).attempts = call.seen.attempts
           /\ After(call).run = call.seen.run
           /\ After(call).status # "absent"
           /\ RunAfter(call) \in RunStatuses
<1>1. call.seen \in JobRecord /\ call.seenRun \in RunStatuses
      /\ call.op \in {"heartbeat", "complete", "retry", "fail", "reinstate", "dismiss"}
  BY DEF Call
<1>2. RunAfter(call) \in RunStatuses
  BY <1>1 DEF RunAfter, RunStatuses
<1>3. CASE call.op = "heartbeat"
  <2>1. After(call) = [call.seen EXCEPT !.stale = FALSE]
    BY <1>3 DEF After
  <2>2. QED
    BY <1>1, <1>2, <1>3, <2>1 DEF JobRecord, CallOK
<1>4. CASE call.op = "complete"
  <2>1. After(call) = [call.seen EXCEPT !.status = "completed"]
    BY <1>4 DEF After
  <2>2. QED
    BY <1>1, <1>2, <1>4, <2>1 DEF JobRecord, JobStatuses, CallOK
<1>5. CASE call.op = "retry"
  <2>1. After(call) = Lost(call.seen, TRUE)
    BY <1>5 DEF After
  <2>2. TRUE \in BOOLEAN
    OBVIOUS
  <2>3. /\ Lost(call.seen, TRUE) \in JobRecord
        /\ Lost(call.seen, TRUE).attempts = call.seen.attempts
        /\ Lost(call.seen, TRUE).run = call.seen.run
        /\ Lost(call.seen, TRUE).status # "absent"
    BY <1>1, <2>2, LostTyped
  <2>4. QED
    BY <1>2, <2>1, <2>3
<1>6. CASE call.op = "fail"
  <2>1. After(call) = Lost(call.seen, FALSE)
    BY <1>6 DEF After
  <2>2. FALSE \in BOOLEAN
    OBVIOUS
  <2>3. /\ Lost(call.seen, FALSE) \in JobRecord
        /\ Lost(call.seen, FALSE).attempts = call.seen.attempts
        /\ Lost(call.seen, FALSE).run = call.seen.run
        /\ Lost(call.seen, FALSE).status # "absent"
    BY <1>1, <2>2, LostTyped
  <2>4. QED
    BY <1>2, <2>1, <2>3
<1>7. CASE call.op = "reinstate"
  <2>1. After(call) = Reinstated(call.seen)
    BY <1>7 DEF After
  <2>2. QED
    BY <1>1, <1>2, <2>1, OperatorTyped
<1>8. CASE call.op = "dismiss"
  <2>1. After(call) = Dismissed(call.seen)
    BY <1>8 DEF After
  <2>2. QED
    BY <1>1, <1>2, <2>1, OperatorTyped
<1>9. QED
  BY <1>1, <1>3, <1>4, <1>5, <1>6, <1>7, <1>8

\* A commit leaves a row of the right type, whatever became of it since it was read; it never
\* moves the attempts, nor the run, and no commit makes a row disappear.
LEMMA WrittenTyped ==
    ASSUME NEW row \in JobRecord, NEW call \in Call, CallOK(call)
    PROVE  /\ Written(row, call) \in JobRecord
           /\ Written(row, call).attempts = row.attempts
           /\ Written(row, call).run = row.run
           /\ row.status # "absent" => Written(row, call).status # "absent"
<1> DEFINE new == After(call)
           W(f) == IF \/ new[f] # call.seen[f]
                      \/ f \in {"failures", "manual"} /\ RewritesPayload(call)
                   THEN new[f] ELSE row[f]
<1>1. /\ new \in JobRecord /\ new.attempts = call.seen.attempts
      /\ new.run = call.seen.run /\ new.status # "absent"
  BY AfterTyped
<1>2. DOMAIN row = {"run", "wf", "status", "attempts", "max", "worker", "stale",
                    "failures", "manual", "granted", "rank"}
  BY DEF JobRecord
<1> DEFINE out == Written(row, call)
<1>3. /\ out = [f \in DOMAIN row |-> out[f]]
      /\ out.run = W("run") /\ out.wf = W("wf") /\ out.status = W("status")
      /\ out.attempts = W("attempts") /\ out.max = W("max") /\ out.worker = W("worker")
      /\ out.stale = FALSE /\ out.failures = W("failures") /\ out.manual = W("manual")
      /\ out.granted = W("granted") /\ out.rank = W("rank")
  BY <1>2 DEF Written
<1> HIDE DEF new, out
<1>4. /\ W("run") \in Runs \cup {None} /\ W("wf") \in Claimable \cup {Approval, None}
      /\ W("status") \in JobStatuses /\ W("attempts") \in Nat /\ W("max") \in Nat
      /\ W("worker") \in Workers \cup {None} /\ W("failures") \in Seq(Nat)
      /\ W("manual") \in Nat /\ W("granted") \in Nat /\ W("rank") \in Nat
  BY <1>1 DEF JobRecord
<1>5. /\ W("attempts") = row.attempts /\ W("run") = row.run
      /\ row.status # "absent" => W("status") # "absent"
  BY <1>1
<1> HIDE DEF W
<1>6. out \in JobRecord
  BY <1>2, <1>3, <1>4 DEF JobRecord
<1>7. QED
  BY <1>3, <1>5, <1>6 DEF out

-----------------------------------------------------------------------------
(* The invariant of the jobs: while nobody overlaps on a job, the one      *)
(* session on it has seen the row as it is.                                *)

\* The rows as any interleaving leaves them: a job that is there belongs to a run, and an open
\* session has read a row that its method accepts, of a job that is there (no call of this
\* store makes one disappear).
SqlRows ==
    /\ SqlTypeOK
    /\ \A j \in Jobs : Present(j) => jobs[j].run \in Runs
    /\ \A p \in Callers : calls[p] # NoCall => CallOK(calls[p]) /\ Present(calls[p].job)

\* The row of a job as one session has read it, but for the age of its heartbeat, which grows
\* without anybody writing it.
Unmoved(row, seen) == row = [seen EXCEPT !.stale = row.stale]

\* The rows that no two callers have touched at once.
SqlSerial ==
    \A j \in Jobs \ raced :
        /\ WellFormed(jobs[j])
        /\ \A p \in Open(j) : Unmoved(jobs[j], calls[p].seen) /\ Open(j) = {p}

SqlInv == SqlRows /\ SqlSerial

\* A row is what is in its columns.
LEMMA RowOfColumns ==
    ASSUME NEW job \in JobRecord
    PROVE  job = [run |-> job.run, wf |-> job.wf, status |-> job.status,
                  attempts |-> job.attempts, max |-> job.max, worker |-> job.worker,
                  stale |-> job.stale, failures |-> job.failures, manual |-> job.manual,
                  granted |-> job.granted, rank |-> job.rank]
BY DEF JobRecord

\* A call that is open on a job, with its type.
LEMMA OpenCall ==
    ASSUME SqlRows, NEW p \in Callers, calls[p] # NoCall
    PROVE  calls[p] \in Call /\ CallOK(calls[p]) /\ calls[p].job \in Jobs /\ Present(calls[p].job)
BY DEF SqlRows, SqlTypeOK, Call

\* What an overlap-free commit writes is what its method makes of the row as it is, and that
\* keeps the row well formed and within its life cycle.
LEMMA WrittenSerially ==
    ASSUME NEW row \in JobRecord, NEW call \in Call, CallOK(call), WellFormed(row),
           Unmoved(row, call.seen)
    PROVE  /\ WellFormed(Written(row, call))
           /\ Lifecycle!Move(EntryOf(row), EntryOf(Written(row, call)))
<1> DEFINE new == After(call)
           out == Written(row, call)
<1>1. call.seen \in JobRecord /\ new \in JobRecord /\ out \in JobRecord
  BY AfterTyped, WrittenTyped DEF Call
<1>2. /\ row.run = call.seen.run /\ row.wf = call.seen.wf
      /\ row.status = call.seen.status /\ row.attempts = call.seen.attempts
      /\ row.max = call.seen.max /\ row.worker = call.seen.worker
      /\ row.failures = call.seen.failures /\ row.manual = call.seen.manual
      /\ row.granted = call.seen.granted /\ row.rank = call.seen.rank
  BY <1>1 DEF Unmoved, JobRecord
<1>3. DOMAIN row = {"run", "wf", "status", "attempts", "max", "worker", "stale",
                    "failures", "manual", "granted", "rank"}
  BY DEF JobRecord
<1> HIDE DEF new
<1>4. /\ out.run = new.run /\ out.wf = new.wf /\ out.status = new.status
      /\ out.attempts = new.attempts /\ out.max = new.max /\ out.worker = new.worker
      /\ out.stale = FALSE /\ out.failures = new.failures /\ out.manual = new.manual
      /\ out.granted = new.granted /\ out.rank = new.rank
  BY <1>2, <1>3 DEF Written, new
<1> HIDE DEF out
<1>5. ASSUME NEW job \in JobRecord,
             job.run = new.run, job.wf = new.wf, job.status = new.status,
             job.attempts = new.attempts, job.max = new.max, job.worker = new.worker,
             job.stale = FALSE, job.failures = new.failures, job.manual = new.manual,
             job.granted = new.granted, job.rank = new.rank
      PROVE  out = job
  <2>1. /\ out.run = job.run /\ out.wf = job.wf /\ out.status = job.status
        /\ out.attempts = job.attempts /\ out.max = job.max /\ out.worker = job.worker
        /\ out.stale = job.stale /\ out.failures = job.failures /\ out.manual = job.manual
        /\ out.granted = job.granted /\ out.rank = job.rank
    BY <1>4, <1>5
  <2>2. out = [run |-> out.run, wf |-> out.wf, status |-> out.status,
               attempts |-> out.attempts, max |-> out.max, worker |-> out.worker,
               stale |-> out.stale, failures |-> out.failures, manual |-> out.manual,
               granted |-> out.granted, rank |-> out.rank]
    BY <1>1, RowOfColumns
  <2>3. job = [run |-> job.run, wf |-> job.wf, status |-> job.status,
               attempts |-> job.attempts, max |-> job.max, worker |-> job.worker,
               stale |-> job.stale, failures |-> job.failures, manual |-> job.manual,
               granted |-> job.granted, rank |-> job.rank]
    BY <1>5, RowOfColumns
  <2>4. QED
    BY <2>1, <2>2, <2>3
<1>6. ASSUME call.op = "heartbeat" PROVE out = [row EXCEPT !.stale = FALSE]
  <2>1. new = [call.seen EXCEPT !.stale = FALSE]
    BY <1>6 DEF new, After
  <2> DEFINE job == [row EXCEPT !.stale = FALSE]
  <2>2. job \in JobRecord
    BY DEF JobRecord
  <2>3. /\ job.run = new.run /\ job.wf = new.wf /\ job.status = new.status
        /\ job.attempts = new.attempts /\ job.max = new.max /\ job.worker = new.worker
        /\ job.stale = FALSE /\ job.failures = new.failures /\ job.manual = new.manual
        /\ job.granted = new.granted /\ job.rank = new.rank
    BY <1>1, <1>2, <2>1 DEF JobRecord
  <2> HIDE DEF job
  <2>4. out = job
    BY <1>5, <2>2, <2>3
  <2>5. QED
    BY <2>4 DEF job
<1>7. ASSUME call.op = "complete"
      PROVE  out = [row EXCEPT !.status = "completed", !.stale = FALSE]
  <2>1. new = [call.seen EXCEPT !.status = "completed"]
    BY <1>7 DEF new, After
  <2> DEFINE job == [row EXCEPT !.status = "completed", !.stale = FALSE]
  <2>2. job \in JobRecord
    BY DEF JobRecord, JobStatuses
  <2>3. /\ job.run = new.run /\ job.wf = new.wf /\ job.status = new.status
        /\ job.attempts = new.attempts /\ job.max = new.max /\ job.worker = new.worker
        /\ job.stale = FALSE /\ job.failures = new.failures /\ job.manual = new.manual
        /\ job.granted = new.granted /\ job.rank = new.rank
    BY <1>1, <1>2, <2>1 DEF JobRecord
  <2> HIDE DEF job
  <2>4. out = job
    BY <1>5, <2>2, <2>3
  <2>5. QED
    BY <2>4 DEF job
<1>8. ASSUME NEW retry \in BOOLEAN, new = Lost(call.seen, retry)
      PROVE  out = Lost(row, retry)
  <2>1. Lost(row, retry) \in JobRecord /\ Lost(row, retry).stale = FALSE
    BY LostTyped
  <2> DEFINE job == Lost(row, retry)
  <2>2. /\ job.run = new.run /\ job.wf = new.wf /\ job.status = new.status
        /\ job.attempts = new.attempts /\ job.max = new.max /\ job.worker = new.worker
        /\ job.failures = new.failures /\ job.manual = new.manual
        /\ job.granted = new.granted /\ job.rank = new.rank
    BY <1>1, <1>2, <1>8 DEF JobRecord, Lost
  <2> HIDE DEF job
  <2>3. out = job
    BY <1>5, <2>1, <2>2 DEF job
  <2>4. QED
    BY <2>3 DEF job
<1>9. ASSUME call.op \in {"reinstate", "dismiss"}
      PROVE  row.status = "dead_letter" /\ row.stale = FALSE
  BY <1>2, <1>9 DEF CallOK, WellFormed, OwnerOK, JobRecord
<1>10. ASSUME call.op = "reinstate" PROVE out = Reinstated(row)
  <2>1. new = Reinstated(call.seen) /\ Reinstated(row) \in JobRecord
    BY <1>10, OperatorTyped DEF new, After
  <2> DEFINE job == Reinstated(row)
  <2>2. /\ job.run = new.run /\ job.wf = new.wf /\ job.status = new.status
        /\ job.attempts = new.attempts /\ job.max = new.max /\ job.worker = new.worker
        /\ job.stale = FALSE /\ job.failures = new.failures /\ job.manual = new.manual
        /\ job.granted = new.granted /\ job.rank = new.rank
    BY <1>1, <1>2, <1>9, <1>10, <2>1, ZenonT(40) DEF JobRecord, Reinstated
  <2> HIDE DEF job
  <2>3. out = job
    BY <1>5, <2>1, <2>2 DEF job
  <2>4. QED
    BY <2>3 DEF job
<1>11. ASSUME call.op = "dismiss" PROVE out = Dismissed(row)
  <2>1. new = Dismissed(call.seen) /\ Dismissed(row) \in JobRecord
    BY <1>11, OperatorTyped DEF new, After
  <2> DEFINE job == Dismissed(row)
  <2>2. /\ job.run = new.run /\ job.wf = new.wf /\ job.status = new.status
        /\ job.attempts = new.attempts /\ job.max = new.max /\ job.worker = new.worker
        /\ job.stale = FALSE /\ job.failures = new.failures /\ job.manual = new.manual
        /\ job.granted = new.granted /\ job.rank = new.rank
    BY <1>1, <1>2, <1>9, <1>11, <2>1 DEF JobRecord, Dismissed
  <2> HIDE DEF job
  <2>3. out = job
    BY <1>5, <2>1, <2>2 DEF job
  <2>4. QED
    BY <2>3 DEF job
<1>12. CASE call.op = "heartbeat"
  <2>1. row.status = "running"
    BY <1>2, <1>12 DEF CallOK
  <2>2. WellFormed(out) /\ EntryOf(out) = EntryOf(row)
    BY <1>6, <1>12, <2>1, LeaseEndKept, HiddenMoves DEF Kept
  <2>3. QED
    BY <2>2, MoveRefl DEF out
<1>13. CASE call.op \in {"complete", "retry", "fail"}
  <2>1. row.status = "running"
    BY <1>2, <1>13 DEF CallOK
  <2>2. TRUE \in BOOLEAN /\ FALSE \in BOOLEAN
    OBVIOUS
  <2>3. \/ out = [row EXCEPT !.status = "completed", !.stale = FALSE]
        \/ out = Lost(row, TRUE) \/ out = Lost(row, FALSE)
    BY <1>7, <1>8, <1>13, <2>2 DEF new, After
  <2>4. WellFormed(out)
    BY <2>1, <2>2, <2>3, LeaseEndKept, LostKept DEF Kept
  <2>5. Lifecycle!Move(EntryOf(row), EntryOf(out))
    BY <2>1, <2>2, <2>3, LeaseMoves
  <2>6. QED
    BY <2>4, <2>5 DEF out
<1>14. CASE call.op \in {"reinstate", "dismiss"}
  <2>1. WellFormed(out)
    BY <1>9, <1>10, <1>11, <1>14, OperatorKept DEF Kept
  <2>2. Lifecycle!Move(EntryOf(row), EntryOf(out))
    BY <1>9, <1>10, <1>11, <1>14, OperatorMoves
  <2>3. QED
    BY <2>1, <2>2 DEF out
<1>15. QED
  BY <1>12, <1>13, <1>14 DEF Call

-----------------------------------------------------------------------------
(* The steps.                                                              *)

\* What a step owes to a job: its life cycle unless calls have overlapped on it, and that only
\* a claim counts an attempt.
RowMoves(j) ==
    /\ j \notin raced' => Lifecycle!Move(EntryOf(jobs[j]), EntryOf(jobs'[j]))
    /\ Present(j) /\ jobs'[j].attempts # jobs[j].attempts
       => /\ jobs[j].status = "queued" /\ jobs'[j].status = "running"
          /\ jobs'[j].attempts = jobs[j].attempts + 1
          /\ \E w \in Workers : jobs'[j].worker = w

\* A step that leaves the sessions alone, and changes the row of a job only if nobody has a
\* session on it or if it counts as touched (or in what no session writes by itself).
LEMMA StoreStep ==
    ASSUME SqlInv, calls' = calls,
           jobs' \in [Jobs -> JobRecord], runs' \in [Runs -> RunStatuses],
           raced \subseteq raced', raced' \subseteq Jobs,
           \A j \in Jobs :
              \/ jobs'[j] = jobs[j]
              \/ /\ jobs'[j].run \in Runs /\ jobs'[j].status # "absent"
                 /\ j \notin raced' =>
                      /\ WellFormed(jobs'[j])
                      /\ \A p \in Open(j) : Unmoved(jobs'[j], calls[p].seen)
    PROVE  SqlInv'
<1>1. SqlTypeOK'
  BY DEF SqlInv, SqlRows, SqlTypeOK, TypeOK
<1>2. \A j \in Jobs : Present(j)' => jobs'[j].run \in Runs
  BY DEF SqlInv, SqlRows, Present
<1>3. \A p \in Callers : calls'[p] # NoCall => CallOK(calls'[p]) /\ jobs'[calls'[p].job].status # "absent"
  BY OpenCall DEF SqlInv, SqlRows, Present
<1>4. SqlRows'
  BY <1>1, <1>2, <1>3 DEF SqlRows, CallOK, NoCall, Callers, Present
<1>5. \A j \in Jobs : Open(j)' = Open(j)
  BY DEF Open
<1>6. ASSUME NEW j \in Jobs, j \notin raced'
      PROVE  /\ WellFormed(jobs'[j])
             /\ \A p \in Open(j) : Unmoved(jobs'[j], calls'[p].seen) /\ Open(j) = {p}
  <2>1. WellFormed(jobs[j])
        /\ \A p \in Open(j) : Unmoved(jobs[j], calls[p].seen) /\ Open(j) = {p}
    BY <1>6 DEF SqlInv, SqlSerial
  <2>2. QED
    BY <1>6, <2>1
<1>7. SqlSerial'
  BY <1>5, <1>6 DEF SqlSerial, Unmoved, WellFormed, OwnerOK, BudgetOK, HistoryOK, KindOK
<1>8. QED
  BY <1>4, <1>7 DEF SqlInv

\* A step that changes no row moves no job.
LEMMA StillRows ==
    ASSUME jobs' = jobs
    PROVE  \A j \in Jobs : RowMoves(j)
BY MoveRefl DEF RowMoves

\* The types, and what is known of a row that nobody has overlapped on.
LEMMA RowTyped ==
    ASSUME SqlInv
    PROVE  /\ jobs \in [Jobs -> JobRecord] /\ runs \in [Runs -> RunStatuses]
           /\ calls \in [Callers -> Call \cup {NoCall}] /\ raced \subseteq Jobs
           /\ \A j \in Jobs : Present(j) => jobs[j].run \in Runs
           /\ \A j \in Jobs \ raced : WellFormed(jobs[j])
BY DEF SqlInv, SqlRows, SqlSerial, SqlTypeOK, TypeOK

\* The claim: it gives out the next attempt of a queued row.
LEMMA ClaimStep ==
    ASSUME SqlInv, NEW w \in Workers, NEW wf \in Claimable, ClaimOldest(w, wf)
    PROVE  SqlInv' /\ \A j \in Jobs : RowMoves(j)
<1>1. PICK j \in Jobs : /\ NextInLine(jobs, wf, j)
                        /\ jobs' = [jobs EXCEPT ![j] = Claimed(jobs[j], w)]
                        /\ Touched({j})
  BY DEF ClaimOldest
<1>2. /\ jobs[j] \in JobRecord /\ jobs[j].status = "queued" /\ jobs[j].run \in Runs
      /\ j \notin raced => WellFormed(jobs[j])
  BY <1>1, RowTyped DEF NextInLine, Waiting, Present
<1> DEFINE new == Claimed(jobs[j], w)
<1>3. /\ new \in JobRecord /\ new.attempts = jobs[j].attempts + 1
      /\ new.status = "running" /\ new.worker = w /\ new.run = jobs[j].run
  <2>1. jobs[j].attempts + 1 \in Nat /\ "running" \in JobStatuses
    BY <1>2 DEF JobRecord, JobStatuses
  <2>2. QED
    BY <1>2, <2>1 DEF Claimed, JobRecord
<1>4. raced \subseteq raced' /\ raced' \subseteq Jobs /\ (j \notin raced' => Open(j) = {})
  BY <1>1, RowTyped DEF Touched
<1>5. j \notin raced' => WellFormed(new) /\ Lifecycle!Move(EntryOf(jobs[j]), EntryOf(new))
  BY <1>2, <1>4, ClaimedKept, ClaimMoves DEF Kept
<1> HIDE DEF new
<1>6. jobs' = [jobs EXCEPT ![j] = new]
  BY <1>1 DEF new
<1>7. SqlInv'
  <2>1. jobs' \in [Jobs -> JobRecord] /\ runs' \in [Runs -> RunStatuses] /\ calls' = calls
    BY <1>3, <1>6, RowTyped DEF ClaimOldest
  <2>2. QED
    BY <1>2, <1>3, <1>4, <1>5, <1>6, <2>1, RowTyped, StoreStep
<1>8. \A k \in Jobs : RowMoves(k)
  BY <1>2, <1>3, <1>5, <1>6, RowTyped, MoveRefl DEF RowMoves
<1>9. QED
  BY <1>7, <1>8

\* The recovery: every overdue row loses its attempt.
LEMMA RecoverStep ==
    ASSUME SqlInv, NEW wf \in Claimable, RecoverRows(wf)
    PROVE  SqlInv' /\ \A j \in Jobs : RowMoves(j)
<1>1. /\ jobs' = Recovered(wf) /\ runs' = FailedBy(wf) /\ calls' = calls
      /\ Touched(TimedOut(wf))
  BY DEF RecoverRows, Recover
<1>2. raced \subseteq raced' /\ raced' \subseteq Jobs
      /\ \A j \in TimedOut(wf) : j \notin raced' => Open(j) = {}
  BY <1>1, RowTyped DEF Touched, TimedOut
<1>3. ASSUME NEW j \in TimedOut(wf)
      PROVE  /\ jobs[j] \in JobRecord /\ jobs[j].run \in Runs
             /\ Lost(jobs[j], TRUE) \in JobRecord
             /\ Lost(jobs[j], TRUE).attempts = jobs[j].attempts
             /\ Lost(jobs[j], TRUE).run = jobs[j].run
             /\ Lost(jobs[j], TRUE).status # "absent"
             /\ j \notin raced => /\ WellFormed(Lost(jobs[j], TRUE))
                                  /\ Lifecycle!Move(EntryOf(jobs[j]), EntryOf(Lost(jobs[j], TRUE)))
  <2>1. TRUE \in BOOLEAN
    OBVIOUS
  <2>2. jobs[j] \in JobRecord /\ jobs[j].run \in Runs /\ jobs[j].status = "running"
        /\ (j \notin raced => WellFormed(jobs[j]))
    BY <1>3, RowTyped DEF TimedOut, Present
  <2>3. QED
    BY <2>1, <2>2, LostTyped, LostKept, LeaseMoves DEF Kept
<1>4. \A j \in Jobs : jobs'[j] = IF j \in TimedOut(wf) THEN Lost(jobs[j], TRUE) ELSE jobs[j]
  BY <1>1 DEF Recovered
<1>5. jobs' \in [Jobs -> JobRecord]
  BY <1>1, <1>3, RowTyped DEF Recovered
<1>6. runs' \in [Runs -> RunStatuses]
  BY <1>1, RowTyped DEF FailedBy, RunStatuses
<1>7. SqlInv'
  BY <1>1, <1>2, <1>3, <1>4, <1>5, <1>6, StoreStep
<1>8. ASSUME NEW j \in Jobs PROVE RowMoves(j)
  <2>1. CASE j \in TimedOut(wf)
    BY <1>2, <1>3, <1>4, <2>1 DEF RowMoves
  <2>2. CASE j \notin TimedOut(wf)
    BY <1>4, <2>2, MoveRefl DEF RowMoves
  <2>3. QED
    BY <2>1, <2>2
<1>9. QED
  BY <1>7, <1>8

\* What the callers of the API do to jobs and runs, and the passing of time.
LEMMA OutsideStep ==
    ASSUME SqlInv, UNCHANGED <<calls, raced>>,
           \/ \E r \in Runs :
                 \/ CreateRun(r)
                 \/ \E status \in Reported : UpdateStatus(r, status)
                 \/ \E j \in Jobs : \E sub \in Submissions : Enqueue(j, r, sub)
           \/ \E j \in Jobs : Expire(j)
    PROVE  SqlInv' /\ \A j \in Jobs : RowMoves(j)
<1>0. calls' = calls /\ raced' = raced
  OBVIOUS
<1>1. ASSUME NEW r \in Runs, CreateRun(r) \/ \E status \in Reported : UpdateStatus(r, status)
      PROVE  SqlInv' /\ \A j \in Jobs : RowMoves(j)
  <2>1. jobs' = jobs
    BY <1>1 DEF CreateRun, UpdateStatus
  <2>2. Reported \subseteq RunStatuses /\ "pending" \in RunStatuses
    BY ConstantsAssumption DEF RunStatuses
  <2>3. runs' \in [Runs -> RunStatuses]
    BY <1>1, <2>2, RowTyped DEF CreateRun, UpdateStatus
  <2>4. SqlInv'
    BY <1>0, <2>1, <2>3, RowTyped, StoreStep
  <2>5. QED
    BY <2>1, <2>4, StillRows
<1>2. ASSUME NEW r \in Runs, NEW j \in Jobs, NEW sub \in Submissions, Enqueue(j, r, sub)
      PROVE  SqlInv' /\ \A k \in Jobs : RowMoves(k)
  <2>1. PICK n \in 0..(MaxRank - 1) :
           LastRank(n) /\ jobs' = [jobs EXCEPT ![j] = Submitted(r, sub, n + 1)]
    BY <1>2 DEF Enqueue
  <2> DEFINE new == Submitted(r, sub, n + 1)
  <2>2. n + 1 \in Nat /\ n \in Nat
    BY <2>1, ConstantsAssumption
  <2>3. new \in JobRecord /\ WellFormed(new) /\ new.run = r /\ new.status # "absent"
    BY <2>2, EnqueuedKept
  <2>4. new.rank = n + 1
    <3>1. Absent \in JobRecord
      BY AbsentOK
    <3>2. QED
      BY <3>1 DEF Submitted, JobRecord
  <2>5. jobs[j] \in JobRecord /\ jobs[j].status = "absent" /\ new.rank > jobs[j].rank
    BY <1>2, <2>1, <2>2, <2>4, RowTyped DEF Enqueue, Present, LastRank, JobRecord
  <2> HIDE DEF new
  <2>6. jobs' = [jobs EXCEPT ![j] = new]
    BY <2>1 DEF new
  <2>7. j \notin raced => Open(j) = {}
    <3>1. ASSUME j \notin raced, NEW p \in Open(j)
          PROVE  FALSE
      <4>1. calls[p] \in Call /\ CallOK(calls[p]) /\ Unmoved(jobs[j], calls[p].seen)
        BY <3>1, OpenCall DEF SqlInv, SqlSerial, Open
      <4>2. calls[p].seen \in JobRecord
        BY <4>1 DEF Call
      <4>3. jobs[j].status = calls[p].seen.status
        BY <2>5, <4>1, <4>2 DEF Unmoved, JobRecord
      <4>4. QED
        BY <2>5, <4>1, <4>3 DEF CallOK
    <3>2. QED
      BY <3>1
  <2>8. SqlInv'
    <3>1. jobs' \in [Jobs -> JobRecord] /\ runs' \in [Runs -> RunStatuses]
      BY <1>2, <2>3, <2>6, RowTyped DEF Enqueue
    <3>2. QED
      BY <1>0, <2>3, <2>6, <2>7, <3>1, RowTyped, StoreStep
  <2>9. Lifecycle!Move(EntryOf(jobs[j]), EntryOf(new))
    BY <2>3, <2>5, BeginMoves
  <2>10. \A k \in Jobs : RowMoves(k)
    BY <2>5, <2>6, <2>9, RowTyped, MoveRefl DEF RowMoves, Present
  <2>11. QED
    BY <2>8, <2>10
<1>3. ASSUME NEW j \in Jobs, Expire(j)
      PROVE  SqlInv' /\ \A k \in Jobs : RowMoves(k)
  <2> DEFINE new == [jobs[j] EXCEPT !.stale = TRUE]
  <2>1. /\ jobs[j] \in JobRecord /\ jobs[j].status = "running" /\ jobs[j].run \in Runs
        /\ jobs' = [jobs EXCEPT ![j] = new] /\ runs' = runs
        /\ j \notin raced => WellFormed(jobs[j])
    BY <1>3, RowTyped DEF Expire, Present
  <2>2. /\ new \in JobRecord /\ new.run = jobs[j].run /\ new.attempts = jobs[j].attempts
        /\ new.stale = TRUE /\ new.status # "absent"
    BY <2>1 DEF JobRecord
  <2>3. j \notin raced => WellFormed(new)
    BY <2>1, LeaseEndKept DEF Kept
  <2>4. EntryOf(new) = EntryOf(jobs[j])
    BY <2>1, HiddenMoves
  <2>5. ASSUME j \notin raced, NEW p \in Open(j)
        PROVE  Unmoved(new, calls[p].seen)
    <3>1. calls[p] \in Call /\ Unmoved(jobs[j], calls[p].seen)
      BY <2>5, OpenCall DEF SqlInv, SqlSerial, Open
    <3>2. calls[p].seen \in JobRecord
      BY <3>1 DEF Call
    <3>3. QED
      BY <2>1, <2>2, <3>1, <3>2 DEF Unmoved, JobRecord
  <2> HIDE DEF new
  <2>6. SqlInv'
    <3>1. jobs' \in [Jobs -> JobRecord]
      BY <2>1, <2>2, RowTyped
    <3>2. QED
      BY <1>0, <2>1, <2>2, <2>3, <2>5, <3>1, RowTyped, StoreStep
  <2>7. \A k \in Jobs : RowMoves(k)
    BY <2>1, <2>2, <2>4, RowTyped, MoveRefl DEF RowMoves
  <2>8. QED
    BY <2>6, <2>7
<1>4. QED
  BY <1>1, <1>2, <1>3

\* A session that is opened has seen the row as it is, and it is the only one on the job
\* unless the job counts as touched from now on.
LEMMA BeginStep ==
    ASSUME SqlInv, NEW p \in Callers, NEW j \in Jobs,
           NEW op \in {"heartbeat", "complete", "retry", "fail", "reinstate", "dismiss"},
           jobs[j].status = IF op \in {"reinstate", "dismiss"} THEN "dead_letter" ELSE "running",
           Begin(p, op, j)
    PROVE  SqlInv' /\ \A k \in Jobs : RowMoves(k)
<1> DEFINE call == [op |-> op, job |-> j, seen |-> jobs[j], seenRun |-> runs[jobs[j].run]]
<1>1. /\ jobs' = jobs /\ runs' = runs /\ calls' = [calls EXCEPT ![p] = call]
      /\ calls[p] = NoCall /\ raced' = raced \cup {k \in {j} : Open(k) # {}}
  BY DEF Begin, Touched
<1>2. /\ call \in Call /\ CallOK(call) /\ call.job = j /\ call.seen = jobs[j]
      /\ call # NoCall
  BY RowTyped DEF Call, CallOK, Present, NoCall
<1> HIDE DEF call
<1>3. raced \subseteq raced' /\ raced' \subseteq Jobs /\ (j \notin raced' => Open(j) = {})
  BY <1>1, RowTyped
<1>4. calls' \in [Callers -> Call \cup {NoCall}]
  BY <1>1, <1>2, RowTyped
<1>5. SqlRows'
  <2>1. SqlTypeOK'
    BY <1>1, <1>3, <1>4, RowTyped DEF SqlTypeOK, TypeOK
  <2>2. \A k \in Jobs : Present(k)' => jobs'[k].run \in Runs
    BY <1>1, RowTyped DEF Present
  <2>3. \A q \in Callers : calls'[q] # NoCall => CallOK(calls'[q]) /\ Present(calls'[q].job)
    BY <1>1, <1>2, RowTyped DEF SqlInv, SqlRows, Present
  <2>4. QED
    BY <1>1, <2>1, <2>2, <2>3 DEF SqlRows, CallOK, NoCall, Callers, Present
<1>6. ASSUME NEW k \in Jobs, k \notin raced'
      PROVE  /\ WellFormed(jobs'[k])
             /\ \A q \in Open(k)' : Unmoved(jobs'[k], calls'[q].seen) /\ Open(k)' = {q}
  <2>1. /\ WellFormed(jobs[k])
        /\ \A q \in Open(k) : Unmoved(jobs[k], calls[q].seen) /\ Open(k) = {q}
    BY <1>3, <1>6 DEF SqlInv, SqlSerial
  <2>2. CASE k = j
    <3>1. Open(k)' = {p}
      BY <1>1, <1>2, <1>3, <1>6, <2>2, RowTyped DEF Open
    <3>2. Unmoved(jobs'[k], calls'[p].seen)
      BY <1>1, <1>2, <2>2, RowTyped DEF Unmoved, JobRecord
    <3>3. QED
      BY <1>1, <2>1, <3>1, <3>2
  <2>3. CASE k # j
    <3>1. Open(k)' = Open(k) /\ p \notin Open(k)
      BY <1>1, <1>2, <2>3, RowTyped DEF Open
    <3>2. \A q \in Open(k) : calls'[q] = calls[q]
      BY <1>1, <3>1, RowTyped DEF Open
    <3>3. QED
      BY <1>1, <2>1, <3>1, <3>2
  <2>4. QED
    BY <2>2, <2>3
<1>7. SqlSerial'
  BY <1>6 DEF SqlSerial, Unmoved, WellFormed, OwnerOK, BudgetOK, HistoryOK, KindOK
<1>8. QED
  BY <1>1, <1>5, <1>7, StillRows DEF SqlInv

\* A session that ends, with what it writes or without.
LEMMA EndStep ==
    ASSUME SqlInv, NEW p \in Callers, Commit(p) \/ Abort(p)
    PROVE  SqlInv' /\ \A k \in Jobs : RowMoves(k)
<1> DEFINE call == calls[p]
           j == call.job
           new == IF Commit(p) THEN Written(jobs[j], call) ELSE jobs[j]
<1>1. /\ call \in Call /\ CallOK(call) /\ call # NoCall /\ j \in Jobs /\ jobs[j] \in JobRecord
      /\ Present(j) /\ jobs[j].run \in Runs
      /\ j \notin raced => WellFormed(jobs[j])
  <2>1. calls[p] # NoCall
    BY DEF Commit, Abort
  <2>2. QED
    BY <2>1, OpenCall, RowTyped DEF SqlInv
<1>2. /\ jobs' = [jobs EXCEPT ![j] = new] /\ calls' = [calls EXCEPT ![p] = NoCall]
      /\ raced' = raced
  <2>1. CASE Commit(p)
    BY <2>1 DEF Commit
  <2>2. CASE ~Commit(p)
    BY <1>1, <2>2, RowTyped DEF Abort
  <2>3. QED
    BY <2>1, <2>2
<1>3. runs' \in [Runs -> RunStatuses]
  <2>1. CASE Commit(p)
    BY <1>1, <2>1, AfterTyped, RowTyped DEF Commit
  <2>2. CASE ~Commit(p)
    BY <1>1, <2>2, RowTyped DEF Abort
  <2>3. QED
    BY <2>1, <2>2
<1>4. /\ new \in JobRecord /\ new.attempts = jobs[j].attempts /\ new.run = jobs[j].run
      /\ new.status # "absent"
  BY <1>1, WrittenTyped DEF Present
<1>5. j \notin raced => /\ Open(j) = {p}
                        /\ WellFormed(new)
                        /\ Lifecycle!Move(EntryOf(jobs[j]), EntryOf(new))
  <2>1. j \notin raced => Open(j) = {p} /\ Unmoved(jobs[j], call.seen)
    BY <1>1 DEF SqlInv, SqlSerial, Open
  <2>2. QED
    BY <1>1, <2>1, WrittenSerially, MoveRefl
<1> HIDE DEF new
<1>6. jobs' \in [Jobs -> JobRecord] /\ calls' \in [Callers -> Call \cup {NoCall}]
  BY <1>2, <1>4, RowTyped
<1>7. SqlRows'
  <2>1. SqlTypeOK'
    BY <1>2, <1>3, <1>6, RowTyped DEF SqlTypeOK, TypeOK
  <2>2. \A k \in Jobs : Present(k) => Present(k)' /\ jobs'[k].run \in Runs
    BY <1>1, <1>2, <1>4, RowTyped DEF Present
  <2>3. \A k \in Jobs : Present(k)' => jobs'[k].run \in Runs
    BY <1>1, <1>2, <1>4, RowTyped DEF Present
  <2>4. ASSUME NEW q \in Callers, calls'[q] # NoCall
        PROVE  CallOK(calls'[q]) /\ jobs'[calls'[q].job].status # "absent"
    <3>1. calls'[q] = calls[q] /\ calls[q] # NoCall
      BY <1>2, <2>4, RowTyped
    <3>2. CallOK(calls[q]) /\ calls[q].job \in Jobs /\ Present(calls[q].job)
      BY <3>1, OpenCall DEF SqlInv
    <3>3. jobs'[calls[q].job].status # "absent"
      BY <2>2, <3>2 DEF Present
    <3>4. QED
      BY <3>1, <3>2, <3>3
  <2>5. QED
    BY <2>1, <2>3, <2>4 DEF SqlRows, CallOK, NoCall, Callers, Present
<1>8. ASSUME NEW k \in Jobs, k \notin raced'
      PROVE  /\ WellFormed(jobs'[k])
             /\ \A q \in Open(k)' : Unmoved(jobs'[k], calls'[q].seen) /\ Open(k)' = {q}
  <2>1. /\ WellFormed(jobs[k])
        /\ \A q \in Open(k) : Unmoved(jobs[k], calls[q].seen) /\ Open(k) = {q}
    BY <1>2, <1>8 DEF SqlInv, SqlSerial
  <2>2. CASE k = j
    <3>1. Open(k)' = {}
      BY <1>2, <1>5, <1>8, <2>2, RowTyped DEF Open
    <3>2. QED
      BY <1>1, <1>2, <1>5, <1>8, <2>2, <3>1, RowTyped
  <2>3. CASE k # j
    <3>1. Open(k)' = Open(k) /\ p \notin Open(k)
      BY <1>1, <1>2, <2>3, RowTyped DEF Open
    <3>2. \A q \in Open(k) : calls'[q] = calls[q]
      BY <1>2, <3>1, RowTyped DEF Open
    <3>3. QED
      BY <1>1, <1>2, <2>1, <2>3, <3>1, <3>2, RowTyped
  <2>4. QED
    BY <2>2, <2>3
<1>9. SqlSerial'
  BY <1>8 DEF SqlSerial, Unmoved, WellFormed, OwnerOK, BudgetOK, HistoryOK, KindOK
<1>10. \A k \in Jobs : RowMoves(k)
  BY <1>1, <1>2, <1>4, <1>5, RowTyped, MoveRefl DEF RowMoves
<1>11. QED
  BY <1>7, <1>9, <1>10 DEF SqlInv

\* Before there are any jobs.
LEMMA SqlBegins == ASSUME SqlInit PROVE SqlInv
<1>1. jobs = [j \in Jobs |-> Absent] /\ runs = [r \in Runs |-> "absent"]
      /\ calls = [p \in Callers |-> NoCall] /\ raced = {}
  BY DEF SqlInit, Init
<1>2. SqlTypeOK
  BY <1>1, AbsentOK DEF SqlTypeOK, TypeOK, RunStatuses
<1>3. SqlRows
  BY <1>1, <1>2 DEF SqlRows, Present, Absent
<1>4. SqlSerial
  BY <1>1, AbsentOK DEF SqlSerial, Open
<1>5. QED
  BY <1>3, <1>4 DEF SqlInv

\* Every step of the store keeps the invariant and moves every job as it owes.
LEMMA SqlStep ==
    ASSUME SqlInv, [SqlNext]_sqlvars
    PROVE  SqlInv' /\ \A j \in Jobs : RowMoves(j)
<1>1. ASSUME NEW w \in Workers, NEW j \in Jobs, WorkerCalls(w, j)
      PROVE  SqlInv' /\ \A k \in Jobs : RowMoves(k)
  <2>1. PICK op \in {"heartbeat", "complete", "retry", "fail"} : Begin(w, op, j)
    BY <1>1 DEF WorkerCalls
  <2>2. w \in Callers /\ jobs[j].status = "running"
    BY <1>1 DEF WorkerCalls, Callers, Owns
  <2>3. QED
    BY <2>1, <2>2, BeginStep
<1>2. ASSUME NEW o \in Operators, NEW j \in Jobs, OperatorCalls(o, j)
      PROVE  SqlInv' /\ \A k \in Jobs : RowMoves(k)
  <2>1. PICK op \in {"reinstate", "dismiss"} : Begin(o, op, j)
    BY <1>2 DEF OperatorCalls
  <2>2. o \in Callers /\ jobs[j].status = "dead_letter"
    BY <1>2 DEF OperatorCalls, Callers
  <2>3. QED
    BY <2>1, <2>2, BeginStep
<1>3. CASE UNCHANGED sqlvars
  <2>1. /\ jobs' = jobs /\ runs' = runs /\ calls' = calls /\ raced' = raced
    BY <1>3 DEF sqlvars
  <2>2. SqlInv'
    BY <2>1, RowTyped, StoreStep
  <2>3. QED
    BY <2>1, <2>2, StillRows
<1>4. QED
  BY <1>1, <1>2, <1>3, ClaimStep, RecoverStep, OutsideStep, EndStep DEF SqlNext

\* The rows keep their types, however calls overlap.
THEOREM SqlTypes == SqlSpec => []SqlTypeOK
<1>1. SqlInit => SqlInv
  BY SqlBegins
<1>2. SqlInv /\ [SqlNext]_sqlvars => SqlInv'
  BY SqlStep
<1>3. SqlInv => SqlTypeOK
  BY DEF SqlInv, SqlRows
<1>4. QED
  BY <1>1, <1>2, <1>3, PTL DEF SqlSpec

\* A job that no two callers have touched at once keeps the life cycle of the ledger, and no
\* attempt is given twice or given back whatever the callers do.
THEOREM OverlapAloneHarms == SqlSpec => SerialJobsKeepLifecycle
<1>1. SqlInit => SqlInv
  BY SqlBegins
<1>2. SqlInv /\ [SqlNext]_sqlvars => SqlInv'
  BY SqlStep
<1>3. ASSUME SqlInv, [SqlNext]_sqlvars
      PROVE  [SerialJobsMove /\ AttemptGivenOnce]_sqlvars
  <2>1. \A j \in Jobs : RowMoves(j)
    BY <1>3, SqlStep
  <2>2. SerialJobsMove
    BY <2>1 DEF SerialJobsMove, RowMoves, Ledger, EntryOf, Phase, PhaseOf
  <2>3. AttemptGivenOnce
    BY <2>1 DEF AttemptGivenOnce, RowMoves
  <2>4. QED
    BY <2>2, <2>3
<1>4. SqlInv /\ [SqlNext]_sqlvars => [SerialJobsMove /\ AttemptGivenOnce]_sqlvars
  BY <1>3
<1>5. QED
  BY <1>1, <1>2, <1>4, PTL DEF SqlSpec, SerialJobsKeepLifecycle
-----------------------------------------------------------------------------
(* The records of a run (RunRecords).                                      *)

NodeStates == {"absent", "pending", "running", "completed", "failed"}

Outputs == [WorkNodes -> SUBSET Nat]

Tables == [row : Row, artifacts : SUBSET [id : Nat, producer : WorkNodes \cup {"user"}],
           nodes : [WorkNodes -> NodeStates],
           evaluations : SUBSET [id : Nat, target : Nat], logged : SUBSET Nat,
           checkpoint : Outputs]

Driver == [pc : {"reset", "first save", "status", "look", "begin", "begun", "agent",
                 "evaluation", "complete", "ended", "closed"},
           at : 1 .. Len(Work), outputs : Outputs, status : RecordStatuses]

Exports == [at : 2 .. 7, sound : BOOLEAN, steady : BOOLEAN,
            brought : SUBSET [id : Nat, target : Nat], parts : Tables]

RecordsTypeOK ==
    /\ records \in Tables
    /\ fresh \in Nat \ {0}
    /\ driver = Idle \/ driver \in Driver
    /\ session = Shut \/ session \in [open : {TRUE}, seen : Row]
    /\ export = NoExport \/ (export \in Exports /\ export.at < 7)
    /\ archive = NoArchive \/ archive \in Exports
    /\ told \in [row : Row, mixed : BOOLEAN, restarting : BOOLEAN,
                 brought : SUBSET [id : Nat, target : Nat],
                 rounds : Nat, losses : Nat, exports : Nat, imports : Nat]

\* The row is what was told of it, and an open session of update_status has seen its status as
\* it is: nobody else writes that while an execution is under way, but an import.
RowInv ==
    /\ records.row = told.row
    /\ session # Shut /\ ~told.mixed =>
          driver # Idle /\ driver.pc = "status" /\ session.seen.status = records.row.status

\* What checkpoint and outputs name are artifacts of the nodes they name them for.
Named(outputs, artifacts) ==
    \A n \in WorkNodes : \A id \in outputs[n] : \E a \in artifacts : a.id = id /\ a.producer = n

\* Nodes whose outputs a checkpoint names have completed.
Settled(outputs, nodes) == \A n \in WorkNodes : outputs[n] # {} => nodes[n] = "completed"

Covered(outputs) == \A n \in WorkNodes : outputs[n] # {}
AllDone(nodes) == \A n \in WorkNodes : nodes[n] = "completed"
Resolves(evaluations, artifacts) == \E e \in evaluations : e.target \in Ids(artifacts)

\* The tables r, of which an import has brought some evaluations; restarting as in told.
TablesHold(r, brought, restarting) ==
    /\ r.row.dataset \in Ids(r.artifacts) \cup {Unlinked}
    /\ Named(r.checkpoint, r.artifacts)
    /\ r.logged \subseteq Ids(r.evaluations)
    /\ \A e \in r.evaluations \ brought : e.target \in Ids(r.artifacts)
    /\ ~restarting => Settled(r.checkpoint, r.nodes)
    /\ ~restarting /\ r.row.status = "completed" =>
          AllDone(r.nodes) /\ Covered(r.checkpoint) /\ Resolves(r.evaluations, r.artifacts)

Last == Work[Len(Work)]

\* An execution d before it has saved its first checkpoint.
Restarts(d, r, restarting) ==
    /\ restarting /\ d.outputs = NoOutputs /\ d.status = "running"
    /\ \A i \in DOMAIN Work :
          (d.pc = "reset" /\ i >= d.at) \/ r.nodes[Work[i]] = "pending"

\* And after it: what it carries along, and where it is.
Carries(d, r) ==
    /\ Named(d.outputs, r.artifacts)
    /\ Settled(r.checkpoint, r.nodes)
    /\ \A n \in WorkNodes :
          /\ r.nodes[n] = "completed" => d.outputs[n] # {}
          /\ d.outputs[n] # {} =>
                \/ r.nodes[n] = "completed"
                \/ n = Work[d.at] /\ d.pc \in {"evaluation", "complete"}
    /\ r.nodes[Last] = "completed" => Resolves(r.evaluations, r.artifacts)
    /\ d.pc \in {"status", "look", "begin", "closed"} => r.checkpoint = d.outputs

Stands(d, r, restarting) ==
    /\ IF d.pc = "status" /\ d.status = "running"
       THEN restarting /\ \A n \in WorkNodes : r.nodes[n] = "pending"
       ELSE ~restarting /\ (d.pc # "closed" => r.row.status = "running")
    /\ d.pc = "status" /\ d.status = "completed" => AllDone(r.nodes)
    /\ d.pc = "begin" => r.nodes[Work[d.at]] = "pending"
    /\ d.pc \in {"begun", "agent"} =>
          r.nodes[Work[d.at]] = "running" /\ d.outputs[Work[d.at]] = {}
    /\ d.pc \in {"evaluation", "complete"} => r.nodes[Work[d.at]] = "running"
    /\ d.pc = "complete" => d.outputs[Work[d.at]] # {}
    /\ d.pc = "evaluation" => d.at = Len(Work) /\ d.outputs[Work[d.at]] # {}
    /\ d.pc = "complete" /\ d.at = Len(Work) => Resolves(r.evaluations, r.artifacts)

DriverHolds(d, r, restarting) ==
    d # Idle => IF d.pc \in {"reset", "first save"} THEN Restarts(d, r, restarting)
                ELSE Carries(d, r) /\ Stands(d, r, restarting)

\* An export e of the tables r: what has been read of it, with what there is where nothing has
\* been read yet.
ExportHolds(e, r, brought, restarting) ==
    LET row == e.parts.row
        checkpoint == e.parts.checkpoint
        artifacts == IF e.at > 3 THEN e.parts.artifacts ELSE r.artifacts
        nodes == IF e.at > 4 THEN e.parts.nodes ELSE r.nodes
    IN  /\ e.brought = brought
        /\ row.dataset \in Ids(artifacts) \cup {Unlinked}
        /\ e.at > 2 => Named(checkpoint, artifacts)
        /\ e.at > 5 => e.parts.logged \subseteq Ids(r.evaluations)
        /\ e.steady =>
              /\ ~restarting
              /\ e.at > 2 => Settled(checkpoint, nodes)
        /\ e.steady /\ row.status = "completed" =>
              /\ r.row.status = "completed"
              /\ e.at > 2 => Covered(checkpoint)
              /\ AllDone(nodes)
              /\ Resolves(r.evaluations, artifacts)
              /\ \A x \in r.evaluations \ brought : x.target \in Ids(artifacts)

ExportInv ==
    export # NoExport /\ export.sound =>
        ExportHolds(export, records, told.brought, told.restarting)

\* What import_run_archive relies on.

ArchiveHolds(a) ==
    /\ a.parts.row.dataset \in Ids(a.parts.artifacts) \cup {Unlinked}
    /\ Named(a.parts.checkpoint, a.parts.artifacts)
    /\ a.parts.logged \subseteq Ids(a.parts.evaluations)
    /\ a.steady => Settled(a.parts.checkpoint, a.parts.nodes)
    /\ a.steady /\ a.parts.row.status = "completed" =>
          /\ Covered(a.parts.checkpoint) /\ AllDone(a.parts.nodes)
          /\ Resolves(a.parts.evaluations, a.parts.artifacts)
          /\ \A e \in a.parts.evaluations \ a.brought : e.target \in Ids(a.parts.artifacts)

ArchiveInv == archive # NoArchive /\ archive.sound => ArchiveHolds(archive)

RecordsInv ==
    /\ RecordsTypeOK /\ RowInv /\ ArchiveInv
    /\ ~told.mixed => /\ TablesHold(records, told.brought, told.restarting)
                      /\ DriverHolds(driver, records, told.restarting)
                      /\ ExportInv

\* The graph, as the proofs use it.
LEMMA WorkOK ==
    /\ DOMAIN Work = 1 .. Len(Work) /\ Len(Work) \in Nat /\ Len(Work) >= 2
    /\ \A i \in 1 .. Len(Work) : Work[i] \in WorkNodes
    /\ \A i, j \in 1 .. Len(Work) : Work[i] = Work[j] => i = j
    /\ \A n \in WorkNodes : \E i \in 1 .. Len(Work) : n = Work[i]
    /\ Last \in WorkNodes /\ NoOutputs \in Outputs /\ MaxRecords \in Nat
<1>1. /\ DOMAIN Work = 1 .. Len(Work) /\ Len(Work) \in Nat /\ Len(Work) >= 2
      /\ \A i, j \in DOMAIN Work : Work[i] = Work[j] => i = j
      /\ MaxRecords \in Nat
  BY RecordsAssumption
<1>2. QED
  BY <1>1 DEF WorkNodes, Last, NoOutputs, Outputs

\* What the writes of a node and of a checkpoint make of the tables.
LEMMA TablesUpdated ==
    ASSUME NEW r \in Tables
    PROVE  /\ \A n \in WorkNodes, s \in NodeStates :
                 LET new == WithNode(r, n, s)
                 IN  /\ new \in Tables /\ new.nodes = [r.nodes EXCEPT ![n] = s]
                     /\ new.row = r.row /\ new.artifacts = r.artifacts
                     /\ new.evaluations = r.evaluations /\ new.logged = r.logged
                     /\ new.checkpoint = r.checkpoint
           /\ \A outputs \in Outputs :
                 LET new == WithCheckpoint(r, outputs)
                 IN  /\ new \in Tables /\ new.checkpoint = outputs
                     /\ new.row = r.row /\ new.artifacts = r.artifacts /\ new.nodes = r.nodes
                     /\ new.evaluations = r.evaluations /\ new.logged = r.logged
BY DEF WithNode, WithCheckpoint, Tables

\* What the inserts make of them: a dataset,
LEMMA DatasetInserted ==
    ASSUME NEW r \in Tables, NEW id \in 1 .. MaxRecords
    PROVE  /\ WithDataset(r, id) \in Tables
           /\ WithDataset(r, id).row = [r.row EXCEPT !.dataset = id]
           /\ WithDataset(r, id).artifacts = r.artifacts \cup {[id |-> id, producer |-> "user"]}
           /\ WithDataset(r, id).nodes = r.nodes
           /\ WithDataset(r, id).evaluations = r.evaluations
           /\ WithDataset(r, id).logged = r.logged
           /\ WithDataset(r, id).checkpoint = r.checkpoint
<1>1. id \in Nat /\ id \in 0 .. MaxRecords
  BY WorkOK
<1>2. [r.row EXCEPT !.dataset = id] \in Row
  BY <1>1 DEF Tables, Row
<1>3. r.artifacts \cup {[id |-> id, producer |-> "user"]}
         \in SUBSET [id : Nat, producer : WorkNodes \cup {"user"}]
  BY <1>1 DEF Tables
<1>4. QED
  BY <1>2, <1>3 DEF WithDataset, Tables

\* the artifact of a node,
LEMMA ArtifactInserted ==
    ASSUME NEW r \in Tables, NEW id \in 1 .. MaxRecords, NEW n \in WorkNodes
    PROVE  /\ WithArtifact(r, id, n) \in Tables
           /\ WithArtifact(r, id, n).artifacts = r.artifacts \cup {[id |-> id, producer |-> n]}
           /\ WithArtifact(r, id, n).row = r.row
           /\ WithArtifact(r, id, n).nodes = r.nodes
           /\ WithArtifact(r, id, n).evaluations = r.evaluations
           /\ WithArtifact(r, id, n).logged = r.logged
           /\ WithArtifact(r, id, n).checkpoint = r.checkpoint
<1>1. id \in Nat
  BY WorkOK
<1>2. r.artifacts \cup {[id |-> id, producer |-> n]}
         \in SUBSET [id : Nat, producer : WorkNodes \cup {"user"}]
  BY <1>1 DEF Tables
<1>3. QED
  BY <1>2 DEF WithArtifact, Tables

\* and an evaluation.
LEMMA EvaluationInserted ==
    ASSUME NEW r \in Tables, NEW id \in 1 .. MaxRecords, NEW target \in Nat
    PROVE  /\ WithEvaluation(r, id, target) \in Tables
           /\ WithEvaluation(r, id, target).evaluations
                 = r.evaluations \cup {[id |-> id, target |-> target]}
           /\ WithEvaluation(r, id, target).logged = r.logged \cup {id}
           /\ WithEvaluation(r, id, target).row = r.row
           /\ WithEvaluation(r, id, target).nodes = r.nodes
           /\ WithEvaluation(r, id, target).artifacts = r.artifacts
           /\ WithEvaluation(r, id, target).checkpoint = r.checkpoint
<1>1. id \in Nat
  BY WorkOK
<1>2. /\ r.evaluations \cup {[id |-> id, target |-> target]} \in SUBSET [id : Nat, target : Nat]
      /\ r.logged \cup {id} \in SUBSET Nat
  BY <1>1 DEF Tables
<1>3. QED
  BY <1>2 DEF WithEvaluation, Tables

\* The status of the row, written by an execution that has seen it as it is.
LEMMA StatusStored ==
    ASSUME NEW r \in Tables, NEW seen \in Row, seen.status = r.row.status,
           NEW status \in RecordStatuses
    PROVE  LET new == StatusWritten(r, seen, status)
           IN  /\ new \in Tables /\ new.row = [r.row EXCEPT !.status = status]
               /\ new.artifacts = r.artifacts /\ new.nodes = r.nodes
               /\ new.evaluations = r.evaluations /\ new.logged = r.logged
               /\ new.checkpoint = r.checkpoint
<1>1. r.row \in Row /\ [r.row EXCEPT !.status = status] \in Row
  BY DEF Tables, Row
<1>2. CASE seen.status = status
  <2>1. r.row = [r.row EXCEPT !.status = status]
    BY <1>1, <1>2 DEF Row
  <2>2. QED
    BY <1>2, <2>1 DEF StatusWritten
<1>3. CASE seen.status # status
  BY <1>1, <1>3 DEF StatusWritten, Tables
<1>4. QED
  BY <1>2, <1>3

\* Every set of numbers that is not empty has a least one.
LEMMA LeastNumber ==
    ASSUME NEW T, T \subseteq Nat, T # {}
    PROVE  \E i \in T : \A k \in T : i <= k
<1> DEFINE R == {ss \in Nat \X Nat : ss[1] < ss[2]}
<1>1. IsWellFoundedOn(R, Nat)
  BY NatLessThanWellFounded DEF OpToRel
<1>2. PICK i \in T : \A k \in T : <<k, i>> \notin R
  BY <1>1, WFMin
<1>3. ASSUME NEW k \in T
      PROVE  i <= k
  <2>1. i \in Nat /\ k \in Nat /\ ~(k < i)
    BY <1>2
  <2>2. QED
    BY <2>1
<1>4. QED
  BY <1>3

\* The ids of a table that grows.
LEMMA IdsGrow == \A S, T : S \subseteq T => Ids(S) \subseteq Ids(T)
BY DEF Ids

\* An export is not disturbed by a step that only adds to the tables, that leaves completed
\* nodes alone once the execution is called running, and a completed run alone altogether.
LEMMA ExportStays ==
    ASSUME NEW e \in Exports, NEW r \in Tables, NEW q \in Tables, NEW brought,
           NEW restarting \in BOOLEAN, NEW later \in BOOLEAN,
           ExportHolds(e, r, brought, restarting),
           ~restarting => ~later,
           r.artifacts \subseteq q.artifacts,
           r.evaluations \subseteq q.evaluations,
           ~restarting =>
              \A n \in WorkNodes : r.nodes[n] = "completed" => q.nodes[n] = "completed",
           ~restarting /\ r.row.status = "completed" =>
              q.row.status = "completed" /\ q.evaluations = r.evaluations
    PROVE  ExportHolds(e, q, brought, later)
<1> DEFINE row == e.parts.row
           checkpoint == e.parts.checkpoint
           artifacts == IF e.at > 3 THEN e.parts.artifacts ELSE r.artifacts
           nodes == IF e.at > 4 THEN e.parts.nodes ELSE r.nodes
           artifacts2 == IF e.at > 3 THEN e.parts.artifacts ELSE q.artifacts
           nodes2 == IF e.at > 4 THEN e.parts.nodes ELSE q.nodes
<1>1. /\ artifacts \subseteq artifacts2 /\ Ids(artifacts) \subseteq Ids(artifacts2)
      /\ Ids(r.evaluations) \subseteq Ids(q.evaluations)
  BY IdsGrow
<1>2. ~restarting => \A n \in WorkNodes : nodes[n] = "completed" => nodes2[n] = "completed"
  OBVIOUS
<1>3. /\ e.brought = brought
      /\ row.dataset \in Ids(artifacts) \cup {Unlinked}
      /\ e.at > 2 => Named(checkpoint, artifacts)
      /\ e.at > 5 => e.parts.logged \subseteq Ids(r.evaluations)
      /\ e.steady => ~restarting /\ (e.at > 2 => Settled(checkpoint, nodes))
      /\ e.steady /\ row.status = "completed" =>
            /\ r.row.status = "completed"
            /\ e.at > 2 => Covered(checkpoint)
            /\ AllDone(nodes)
            /\ Resolves(r.evaluations, artifacts)
            /\ \A x \in r.evaluations \ brought : x.target \in Ids(artifacts)
  BY DEF ExportHolds
<1> HIDE DEF artifacts, nodes, artifacts2, nodes2
<1>4. /\ row.dataset \in Ids(artifacts2) \cup {Unlinked}
      /\ e.at > 2 => Named(checkpoint, artifacts2)
      /\ e.at > 5 => e.parts.logged \subseteq Ids(q.evaluations)
  BY <1>1, <1>3 DEF Named
<1>5. e.steady => ~later /\ (e.at > 2 => Settled(checkpoint, nodes2))
  BY <1>2, <1>3 DEF Settled
<1>6. e.steady /\ row.status = "completed" =>
            /\ q.row.status = "completed"
            /\ e.at > 2 => Covered(checkpoint)
            /\ AllDone(nodes2)
            /\ Resolves(q.evaluations, artifacts2)
            /\ \A x \in q.evaluations \ brought : x.target \in Ids(artifacts2)
  BY <1>1, <1>2, <1>3 DEF AllDone, Resolves
<1>7. QED
  BY <1>3, <1>4, <1>5, <1>6 DEF ExportHolds, artifacts2, nodes2

\* A step of the execution that does not write the status of the run: what it owes.
LEMMA QuietStep ==
    ASSUME RecordsInv, ~told.mixed,
           NEW r \in Tables, NEW d, NEW f \in Nat \ {0},
           records' = r, driver' = d, fresh' = f, d = Idle \/ d \in Driver,
           session' = session, told' = told, export' = export, archive' = archive,
           session = Shut, r.row = records.row,
           records.artifacts \subseteq r.artifacts,
           records.evaluations \subseteq r.evaluations,
           ~told.restarting =>
              \A n \in WorkNodes : records.nodes[n] = "completed" => r.nodes[n] = "completed",
           ~told.restarting /\ records.row.status = "completed" =>
              r.evaluations = records.evaluations,
           TablesHold(r, told.brought, told.restarting),
           DriverHolds(d, r, told.restarting)
    PROVE  RecordsInv'
<1>1. RecordsTypeOK'
  BY DEF RecordsInv, RecordsTypeOK
<1>2. RowInv' /\ ArchiveInv'
  BY DEF RecordsInv, RowInv, ArchiveInv
<1>3. ASSUME export # NoExport, export.sound
      PROVE  ExportHolds(export, r, told.brought, told.restarting)
  <2>1. /\ export \in Exports /\ records \in Tables /\ told.restarting \in BOOLEAN
        /\ ExportHolds(export, records, told.brought, told.restarting)
    BY <1>3 DEF RecordsInv, RecordsTypeOK, ExportInv
  <2>2. QED
    BY <2>1, ExportStays
<1>4. ExportInv'
  BY <1>3 DEF ExportInv
<1>5. QED
  BY <1>1, <1>2, <1>4 DEF RecordsInv

\* While an execution is not at the status of the run, no session is open, and its steps leave
\* what was told as it is.
LEMMA QuietTold ==
    ASSUME RecordsInv, ~told.mixed, Execution, driver.pc # "status"
    PROVE  /\ session = Shut
           /\ session' = Shut => told' = told /\ session' = session
           /\ export' = export /\ archive' = archive
           /\ records \in Tables /\ driver \in Driver /\ fresh \in Nat \ {0}
           /\ told.restarting \in BOOLEAN
           /\ TablesHold(records, told.brought, told.restarting)
           /\ DriverHolds(driver, records, told.restarting)
           /\ driver # Idle
<1>1. session = Shut /\ driver # Idle
  BY DEF RecordsInv, RowInv, Execution
<1>2. /\ told \in [row : Row, mixed : BOOLEAN, restarting : BOOLEAN,
                   brought : SUBSET [id : Nat, target : Nat],
                   rounds : Nat, losses : Nat, exports : Nat, imports : Nat]
      /\ records \in Tables /\ driver \in Driver /\ fresh \in Nat \ {0}
  BY <1>1 DEF RecordsInv, RecordsTypeOK
<1>3. told' = [told EXCEPT !.row.status = IF WrittenNow THEN driver.status ELSE @,
                           !.restarting = @ /\ ~(WrittenNow /\ driver.status = "running")]
  BY DEF Execution
<1>4. ~WrittenNow
  BY <1>1 DEF WrittenNow
<1>5. told' = told
  <2>1. told' = [told EXCEPT !.row = [told.row EXCEPT !.status = told.row.status],
                             !.restarting = told.restarting]
    BY <1>2, <1>3, <1>4
  <2>2. [told.row EXCEPT !.status = told.row.status] = told.row
    BY <1>2 DEF Row
  <2>3. QED
    BY <1>2, <2>1, <2>2
<1>6. QED
  BY <1>1, <1>2, <1>5 DEF RecordsInv, Execution

\* The loop that resets the nodes.
LEMMA ResetsStep ==
    ASSUME RecordsInv, ~told.mixed, Execution, Resets
    PROVE  RecordsInv'
<1>1. driver.pc = "reset" /\ session' = session
  BY DEF Resets
<1>2. /\ session = Shut /\ told' = told /\ export' = export /\ archive' = archive
      /\ records \in Tables /\ driver \in Driver /\ fresh \in Nat \ {0}
      /\ TablesHold(records, told.brought, told.restarting)
      /\ DriverHolds(driver, records, told.restarting) /\ driver # Idle
  BY <1>1, QuietTold
<1>3. Restarts(driver, records, told.restarting)
  BY <1>1, <1>2 DEF DriverHolds
<1> DEFINE r == WithNode(records, Node, "pending")
           d == IF driver.at < Len(Work) THEN [driver EXCEPT !.at = @ + 1]
                ELSE [driver EXCEPT !.pc = "first save"]
<1>4. records' = r /\ driver' = d /\ fresh' = fresh
  BY DEF Resets
<1>5. Node \in WorkNodes /\ driver.at \in 1 .. Len(Work) /\ "pending" \in NodeStates
  BY <1>2, WorkOK DEF Node, Driver, NodeStates
<1>6. /\ r \in Tables /\ r.nodes = [records.nodes EXCEPT ![Node] = "pending"]
      /\ r.row = records.row /\ r.artifacts = records.artifacts
      /\ r.evaluations = records.evaluations /\ r.logged = records.logged
      /\ r.checkpoint = records.checkpoint
  BY <1>2, <1>5, TablesUpdated
<1>7. /\ d \in Driver /\ d.outputs = NoOutputs /\ d.status = "running"
      /\ \/ d.pc = "reset" /\ d.at = driver.at + 1
         \/ d.pc = "first save" /\ driver.at = Len(Work)
  <2>1. Len(Work) \in Nat /\ driver.outputs = NoOutputs /\ driver.status = "running"
    BY <1>3, WorkOK DEF Restarts
  <2>2. CASE driver.at < Len(Work)
    <3>1. d = [driver EXCEPT !.at = driver.at + 1] /\ driver.at + 1 \in 1 .. Len(Work)
      BY <1>5, <2>1, <2>2
    <3> HIDE DEF d
    <3>2. QED
      BY <1>1, <1>2, <2>1, <3>1 DEF Driver
  <2>3. CASE ~(driver.at < Len(Work))
    <3>1. d = [driver EXCEPT !.pc = "first save"] /\ driver.at = Len(Work)
      BY <1>5, <2>1, <2>3
    <3> HIDE DEF d
    <3>2. QED
      BY <1>2, <2>1, <3>1 DEF Driver
  <2>4. QED
    BY <2>2, <2>3
<1> HIDE DEF r, d
<1>8. \A n \in WorkNodes : records.nodes[n] = "pending" => r.nodes[n] = "pending"
  BY <1>2, <1>6 DEF Tables
<1>9. r.nodes[Node] = "pending"
  BY <1>2, <1>5, <1>6 DEF Tables
<1>10. ASSUME NEW i \in DOMAIN Work
       PROVE  (d.pc = "reset" /\ i >= d.at) \/ r.nodes[Work[i]] = "pending"
  <2>1. i \in 1 .. Len(Work) /\ Work[i] \in WorkNodes /\ Len(Work) \in Nat
    BY <1>10, WorkOK
  <2>2. CASE i = driver.at
    BY <1>9, <2>2 DEF Node
  <2>3. CASE i # driver.at
    <3>1. (driver.pc = "reset" /\ i >= driver.at) \/ records.nodes[Work[i]] = "pending"
      BY <1>3, <1>10 DEF Restarts
    <3>2. ASSUME i >= driver.at PROVE d.pc = "reset" /\ i >= d.at
      <4>1. driver.at # Len(Work) /\ driver.at + 1 <= i
        BY <1>5, <2>1, <2>3, <3>2
      <4>2. d.pc = "reset" /\ d.at = driver.at + 1
        BY <1>7, <4>1
      <4>3. QED
        BY <4>1, <4>2
    <3>3. QED
      BY <1>8, <2>1, <3>1, <3>2
  <2>4. QED
    BY <2>2, <2>3
<1>11. told.restarting
  BY <1>3 DEF Restarts
<1>12. DriverHolds(d, r, told.restarting)
  BY <1>7, <1>10, <1>11 DEF DriverHolds, Restarts
<1>13. TablesHold(r, told.brought, told.restarting)
  BY <1>2, <1>6, <1>11 DEF TablesHold
<1>14. QED
  BY <1>1, <1>2, <1>4, <1>6, <1>7, <1>11, <1>12, <1>13, QuietStep

\* A checkpoint.
LEMMA SaveStep ==
    ASSUME RecordsInv, ~told.mixed, Execution, SavesCheckpoint
    PROVE  RecordsInv'
<1>1. driver.pc \in {"first save", "begun", "ended", "closed"} /\ session' = session
  BY DEF SavesCheckpoint, AfterSave
<1>2. /\ session = Shut /\ told' = told /\ export' = export /\ archive' = archive
      /\ records \in Tables /\ driver \in Driver /\ fresh \in Nat \ {0}
      /\ TablesHold(records, told.brought, told.restarting)
      /\ DriverHolds(driver, records, told.restarting) /\ driver # Idle
  BY <1>1, QuietTold
<1> DEFINE r == WithCheckpoint(records, driver.outputs)
           d == IF driver.pc = "closed" THEN Idle
                ELSE [driver EXCEPT !.pc = AfterSave[driver.pc]]
<1>3. records' = r /\ driver' = d /\ fresh' = fresh
  BY DEF SavesCheckpoint
<1>4. driver.outputs \in Outputs
  BY <1>2 DEF Driver
<1>5. /\ r \in Tables /\ r.checkpoint = driver.outputs
      /\ r.row = records.row /\ r.artifacts = records.artifacts /\ r.nodes = records.nodes
      /\ r.evaluations = records.evaluations /\ r.logged = records.logged
  BY <1>2, <1>4, TablesUpdated
<1>6. ASSUME driver.pc # "closed"
      PROVE  /\ d \in Driver /\ d.outputs = driver.outputs /\ d.status = driver.status
             /\ d.at = driver.at
             /\ driver.pc = "first save" => d.pc = "status"
             /\ driver.pc = "begun" => d.pc = "agent"
             /\ driver.pc = "ended" => d.pc = "look"
  <2>1. /\ driver.pc = "first save" => AfterSave[driver.pc] = "status"
        /\ driver.pc = "begun" => AfterSave[driver.pc] = "agent"
        /\ driver.pc = "ended" => AfterSave[driver.pc] = "look"
    BY DEF AfterSave
  <2>2. AfterSave[driver.pc] \in {"status", "agent", "look"}
    BY <1>1, <1>6, <2>1
  <2>3. d = [driver EXCEPT !.pc = AfterSave[driver.pc]]
    BY <1>6
  <2> HIDE DEF d
  <2>4. QED
    BY <1>2, <2>1, <2>2, <2>3 DEF Driver
<1>7. driver.pc = "closed" => d = Idle
  OBVIOUS
<1> HIDE DEF r, d
<1>8. CASE driver.pc = "first save"
  <2>1. /\ told.restarting /\ driver.outputs = NoOutputs /\ driver.status = "running"
        /\ \A i \in DOMAIN Work : records.nodes[Work[i]] = "pending"
    BY <1>2, <1>8 DEF DriverHolds, Restarts
  <2>2. \A n \in WorkNodes : records.nodes[n] = "pending"
    BY <2>1, WorkOK
  <2>3. Named(NoOutputs, records.artifacts) /\ Settled(NoOutputs, records.nodes)
    BY DEF Named, Settled, NoOutputs
  <2>4. TablesHold(r, told.brought, told.restarting)
    BY <1>2, <1>5, <2>1, <2>3 DEF TablesHold
  <2>5. Carries(d, r)
    BY <1>5, <1>6, <1>8, <2>1, <2>2, <2>3, WorkOK, ZenonT(40) DEF Carries, NoOutputs
  <2>6. Stands(d, r, told.restarting)
    BY <1>5, <1>6, <1>8, <2>1, <2>2 DEF Stands
  <2>7. DriverHolds(d, r, told.restarting)
    BY <1>6, <1>8, <2>5, <2>6 DEF DriverHolds
  <2>8. QED
    BY <1>1, <1>2, <1>3, <1>5, <1>6, <1>8, <2>1, <2>4, <2>7, QuietStep
<1>9. CASE driver.pc \in {"begun", "ended"}
  <2>1. Carries(driver, records) /\ Stands(driver, records, told.restarting)
    BY <1>2, <1>9 DEF DriverHolds
  <2>2. ~told.restarting /\ records.row.status = "running"
    BY <1>9, <2>1 DEF Stands
  <2>3. Named(driver.outputs, records.artifacts) /\ Settled(driver.outputs, records.nodes)
    BY <1>9, <2>1 DEF Carries, Settled
  <2>4. TablesHold(r, told.brought, told.restarting)
    BY <1>2, <1>5, <2>2, <2>3 DEF TablesHold
  <2>5. d \in Driver /\ d.outputs = driver.outputs /\ d.at = driver.at /\ d.pc \in {"agent", "look"}
        /\ (driver.pc = "begun" => d.pc = "agent") /\ (driver.pc = "ended" => d.pc = "look")
    BY <1>6, <1>9
  <2>6. Carries(d, r)
    BY <1>5, <1>9, <2>1, <2>3, <2>5 DEF Carries
  <2>7. Stands(d, r, told.restarting)
    BY <1>5, <1>9, <2>1, <2>2, <2>5 DEF Stands
  <2>8. DriverHolds(d, r, told.restarting)
    BY <2>5, <2>6, <2>7 DEF DriverHolds
  <2>9. QED
    BY <1>1, <1>2, <1>3, <1>5, <2>2, <2>4, <2>5, <2>8, QuietStep
<1>10. CASE driver.pc = "closed"
  <2>1. Carries(driver, records) /\ Stands(driver, records, told.restarting)
    BY <1>2, <1>10 DEF DriverHolds
  <2>2. records.checkpoint = driver.outputs
    BY <1>10, <2>1 DEF Carries
  <2>3. TablesHold(r, told.brought, told.restarting)
    BY <1>2, <1>5, <2>2 DEF TablesHold
  <2>4. d = Idle /\ DriverHolds(d, r, told.restarting)
    BY <1>7, <1>10 DEF DriverHolds
  <2>5. QED
    BY <1>1, <1>2, <1>3, <1>5, <2>3, <2>4, QuietStep
<1>11. QED
  BY <1>1, <1>8, <1>9, <1>10

\* The next node is chosen, or the end of the execution.
LEMMA LookStep ==
    ASSUME RecordsInv, ~told.mixed, Execution, Looks
    PROVE  RecordsInv'
<1>1. driver.pc = "look" /\ session' = session /\ records' = records /\ fresh' = fresh
  BY DEF Looks
<1>2. /\ session = Shut /\ told' = told /\ export' = export /\ archive' = archive
      /\ records \in Tables /\ driver \in Driver /\ fresh \in Nat \ {0}
      /\ TablesHold(records, told.brought, told.restarting)
      /\ DriverHolds(driver, records, told.restarting) /\ driver # Idle
  BY <1>1, QuietTold
<1>3. Carries(driver, records) /\ Stands(driver, records, told.restarting)
  BY <1>1, <1>2 DEF DriverHolds
<1>4. /\ records.checkpoint = driver.outputs
      /\ ~told.restarting /\ records.row.status = "running"
  BY <1>1, <1>3 DEF Carries, Stands
<1> DEFINE left == {i \in DOMAIN Work : records.nodes[Work[i]] # "completed"}
           next == CHOOSE i \in left : \A j \in left : i <= j
           loaded == [driver EXCEPT !.outputs = records.checkpoint]
<1>5. left # {} => next \in left /\ next \in 1 .. Len(Work)
  <2>1. left \subseteq 1 .. Len(Work) /\ left \subseteq Nat
    BY WorkOK
  <2>2. left # {} => \E i \in left : \A j \in left : i <= j
    BY <2>1, LeastNumber
  <2> HIDE DEF left
  <2>3. QED
    BY <2>1, <2>2
<1>6. loaded = driver
  BY <1>2, <1>4 DEF Driver
<1>7. driver' = IF left = {} THEN [loaded EXCEPT !.pc = "status", !.status = "completed"]
             ELSE IF records.nodes[Work[next]] = "pending"
             THEN [loaded EXCEPT !.pc = "begin", !.at = next]
             ELSE [loaded EXCEPT !.pc = "status", !.status = "failed"]
  BY Zenon DEF Looks
<1>8. left = {} => AllDone(records.nodes)
  BY WorkOK DEF AllDone
<1> HIDE DEF left, next, loaded
<1>9. PICK d \in Driver :
         /\ driver' = d /\ d.outputs = driver.outputs
         /\ \/ left = {} /\ d.pc = "status" /\ d.status = "completed"
            \/ d.pc = "begin" /\ records.nodes[Work[d.at]] = "pending"
            \/ d.pc = "status" /\ d.status = "failed"
  <2>1. CASE left = {}
    <3> DEFINE d == [driver EXCEPT !.pc = "status", !.status = "completed"]
    <3>1. driver' = d
      BY <1>6, <1>7, <2>1
    <3>2. d \in Driver /\ d.outputs = driver.outputs /\ d.pc = "status" /\ d.status = "completed"
      BY <1>2 DEF Driver, RecordStatuses
    <3> HIDE DEF d
    <3>3. QED
      BY <2>1, <3>1, <3>2
  <2>2. CASE left # {} /\ records.nodes[Work[next]] = "pending"
    <3> DEFINE d == [driver EXCEPT !.pc = "begin", !.at = next]
    <3>1. driver' = d
      BY <1>6, <1>7, <2>2
    <3>2. d \in Driver /\ d.outputs = driver.outputs /\ d.pc = "begin" /\ d.at = next
      BY <1>2, <1>5, <2>2 DEF Driver
    <3> HIDE DEF d
    <3>3. QED
      BY <2>2, <3>1, <3>2
  <2>3. CASE left # {} /\ records.nodes[Work[next]] # "pending"
    <3> DEFINE d == [driver EXCEPT !.pc = "status", !.status = "failed"]
    <3>1. driver' = d
      BY <1>6, <1>7, <2>3
    <3>2. d \in Driver /\ d.outputs = driver.outputs /\ d.pc = "status" /\ d.status = "failed"
      BY <1>2 DEF Driver, RecordStatuses
    <3> HIDE DEF d
    <3>3. QED
      BY <3>1, <3>2
  <2>4. QED
    BY <2>1, <2>2, <2>3
<1>10. Carries(d, records)
  BY <1>1, <1>3, <1>4, <1>9 DEF Carries
<1>11. Stands(d, records, told.restarting)
  BY <1>4, <1>8, <1>9 DEF Stands
<1>12. DriverHolds(d, records, told.restarting)
  BY <1>9, <1>10, <1>11 DEF DriverHolds
<1>13. QED
  BY <1>1, <1>2, <1>9, <1>12, QuietStep

\* A write of the node at work, which is not a completed one.
LEMMA NodeWritten ==
    ASSUME NEW r \in Tables, NEW d \in Driver, NEW c \in Driver, NEW s \in NodeStates, NEW n,
           NEW brought, NEW restarting \in BOOLEAN,
           TablesHold(r, brought, restarting), Carries(d, r),
           n = Work[d.at], c.at = d.at, ~restarting, r.row.status = "running",
           r.nodes[n] # "completed",
           c.pc \in {"begun", "ended"}, c.pc = "begun" => s = "running",
           \A m \in WorkNodes : m # n => c.outputs[m] = d.outputs[m],
           \A m \in WorkNodes : c.outputs[m] \subseteq d.outputs[m],
           s = "completed" <=> c.outputs[n] # {},
           s = "completed" /\ n = Last => Resolves(r.evaluations, r.artifacts)
    PROVE  /\ TablesHold(WithNode(r, n, s), brought, restarting)
           /\ DriverHolds(c, WithNode(r, n, s), restarting)
           /\ WithNode(r, n, s) \in Tables /\ WithNode(r, n, s).row = r.row
           /\ WithNode(r, n, s).artifacts = r.artifacts
           /\ WithNode(r, n, s).evaluations = r.evaluations
           /\ \A m \in WorkNodes : r.nodes[m] = "completed" => WithNode(r, n, s).nodes[m] = "completed"
<1>1. n \in WorkNodes /\ d.at \in 1 .. Len(Work)
  BY WorkOK DEF Driver
<1> DEFINE q == WithNode(r, n, s)
<1>2. /\ q \in Tables /\ q.nodes = [r.nodes EXCEPT ![n] = s]
      /\ q.row = r.row /\ q.artifacts = r.artifacts
      /\ q.evaluations = r.evaluations /\ q.logged = r.logged
      /\ q.checkpoint = r.checkpoint
  BY <1>1, TablesUpdated
<1> HIDE DEF q
<1>3. /\ q.nodes[n] = s
      /\ \A m \in WorkNodes : m # n => q.nodes[m] = r.nodes[m]
  <2>1. r.nodes \in [WorkNodes -> NodeStates]
    BY DEF Tables
  <2>2. QED
    BY <1>1, <1>2, <2>1
<1>4. \A m \in WorkNodes : r.nodes[m] = "completed" => q.nodes[m] = "completed"
  BY <1>3
<1>5. TablesHold(q, brought, restarting)
  BY <1>2, <1>4 DEF TablesHold, Settled
<1>6. Named(c.outputs, q.artifacts) /\ Settled(q.checkpoint, q.nodes)
  BY <1>2, <1>4 DEF Carries, Named, Settled
<1>7. ASSUME NEW m \in WorkNodes
      PROVE  q.nodes[m] = "completed" <=> c.outputs[m] # {}
  <2>1. CASE m = n
    BY <1>3, <2>1
  <2>2. CASE m # n
    <3>1. r.nodes[m] = "completed" <=> d.outputs[m] # {}
      BY <2>2 DEF Carries
    <3>2. QED
      BY <1>3, <2>2, <3>1
  <2>3. QED
    BY <2>1, <2>2
<1>8. q.nodes[Last] = "completed" => Resolves(q.evaluations, q.artifacts)
  <2>1. CASE n = Last
    BY <1>2, <1>3, <2>1
  <2>2. CASE n # Last
    BY <1>2, <1>3, <2>2, WorkOK DEF Carries
  <2>3. QED
    BY <2>1, <2>2
<1>9. Carries(c, q)
  BY <1>6, <1>7, <1>8 DEF Carries
<1>10. Stands(c, q, restarting)
  BY <1>2, <1>3 DEF Stands
<1>11. DriverHolds(c, q, restarting)
  BY <1>9, <1>10 DEF DriverHolds
<1>12. QED
  BY <1>2, <1>4, <1>5, <1>11 DEF q

\* A node begins: its outputs are none, as it is waiting.
LEMMA BeginsNodeStep ==
    ASSUME RecordsInv, ~told.mixed, Execution, BeginsNode
    PROVE  RecordsInv'
<1>1. driver.pc = "begin" /\ session' = session /\ fresh' = fresh
  BY DEF BeginsNode
<1>2. /\ session = Shut /\ told' = told /\ export' = export /\ archive' = archive
      /\ records \in Tables /\ driver \in Driver /\ fresh \in Nat \ {0}
      /\ told.restarting \in BOOLEAN
      /\ TablesHold(records, told.brought, told.restarting)
      /\ DriverHolds(driver, records, told.restarting) /\ driver # Idle
  BY <1>1, QuietTold
<1>3. Carries(driver, records) /\ Stands(driver, records, told.restarting)
  BY <1>1, <1>2 DEF DriverHolds
<1>4. Node \in WorkNodes /\ Node = Work[driver.at]
  BY <1>2, WorkOK DEF Node, Driver
<1>5. /\ ~told.restarting /\ records.row.status = "running"
      /\ records.nodes[Node] = "pending"
  BY <1>1, <1>3, <1>4 DEF Stands
<1> DEFINE d == [driver EXCEPT !.pc = "begun"]
<1>6. d \in Driver /\ d.at = driver.at /\ d.pc = "begun" /\ d.outputs = driver.outputs
  BY <1>2 DEF Driver
<1>7. driver' = d /\ records' = WithNode(records, Node, "running") /\ "running" \in NodeStates
  BY DEF BeginsNode, Goes, NodeStates
<1> HIDE DEF d
<1>8. d.outputs[Node] = {}
  BY <1>1, <1>3, <1>4, <1>5, <1>6 DEF Carries
<1>9. /\ TablesHold(records', told.brought, told.restarting)
      /\ DriverHolds(d, records', told.restarting)
      /\ records' \in Tables /\ records'.row = records.row
      /\ records'.artifacts = records.artifacts /\ records'.evaluations = records.evaluations
      /\ \A m \in WorkNodes : records.nodes[m] = "completed" => records'.nodes[m] = "completed"
  BY <1>2, <1>3, <1>4, <1>5, <1>6, <1>7, <1>8, NodeWritten
<1>10. QED
  BY <1>1, <1>2, <1>6, <1>7, <1>9, QuietStep

\* A node completes: what it has stored is among the outputs, and the evaluation if it is the
\* last one.
LEMMA CompletesNodeStep ==
    ASSUME RecordsInv, ~told.mixed, Execution, CompletesNode
    PROVE  RecordsInv'
<1>1. driver.pc = "complete" /\ session' = session /\ fresh' = fresh
  BY DEF CompletesNode
<1>2. /\ session = Shut /\ told' = told /\ export' = export /\ archive' = archive
      /\ records \in Tables /\ driver \in Driver /\ fresh \in Nat \ {0}
      /\ told.restarting \in BOOLEAN
      /\ TablesHold(records, told.brought, told.restarting)
      /\ DriverHolds(driver, records, told.restarting) /\ driver # Idle
  BY <1>1, QuietTold
<1>3. Carries(driver, records) /\ Stands(driver, records, told.restarting)
  BY <1>1, <1>2 DEF DriverHolds
<1>4. Node \in WorkNodes /\ Node = Work[driver.at] /\ driver.at \in 1 .. Len(Work)
  BY <1>2, WorkOK DEF Node, Driver
<1>5. /\ ~told.restarting /\ records.row.status = "running"
      /\ records.nodes[Node] = "running" /\ driver.outputs[Node] # {}
      /\ driver.at = Len(Work) => Resolves(records.evaluations, records.artifacts)
  BY <1>1, <1>3, <1>4 DEF Stands
<1>6. Node = Last => Resolves(records.evaluations, records.artifacts)
  <2>1. Len(Work) \in 1 .. Len(Work)
    BY WorkOK
  <2>2. Node = Last => driver.at = Len(Work)
    BY <1>4, <2>1, WorkOK DEF Last
  <2>3. QED
    BY <1>5, <2>2
<1> DEFINE d == [driver EXCEPT !.pc = "ended"]
<1>7. d \in Driver /\ d.at = driver.at /\ d.pc = "ended" /\ d.outputs = driver.outputs
  BY <1>2 DEF Driver
<1>8. driver' = d /\ records' = WithNode(records, Node, "completed") /\ "completed" \in NodeStates
  BY DEF CompletesNode, Goes, NodeStates
<1> HIDE DEF d
<1>8a. /\ records.nodes[Node] # "completed" /\ d.outputs[Node] # {}
       /\ d.pc \in {"begun", "ended"} /\ d.pc # "begun"
       /\ \A m \in WorkNodes : d.outputs[m] = driver.outputs[m]
       /\ \A m \in WorkNodes : d.outputs[m] \subseteq driver.outputs[m]
  BY <1>5, <1>7
<1>9. /\ TablesHold(records', told.brought, told.restarting)
      /\ DriverHolds(d, records', told.restarting)
      /\ records' \in Tables /\ records'.row = records.row
      /\ records'.artifacts = records.artifacts /\ records'.evaluations = records.evaluations
      /\ \A m \in WorkNodes : records.nodes[m] = "completed" => records'.nodes[m] = "completed"
  BY <1>2, <1>3, <1>4, <1>5, <1>6, <1>7, <1>8, <1>8a, NodeWritten, SMTT(30)
<1>10. QED
  BY <1>1, <1>2, <1>7, <1>8, <1>9, QuietStep

\* A node fails: what it has stored stays, but not among the outputs.
LEMMA FailsNodeStep ==
    ASSUME RecordsInv, ~told.mixed, Execution, FailsNode
    PROVE  RecordsInv'
<1>1. driver.pc \in {"agent", "evaluation", "complete"} /\ session' = session /\ fresh' = fresh
  BY DEF FailsNode
<1>2. /\ session = Shut /\ told' = told /\ export' = export /\ archive' = archive
      /\ records \in Tables /\ driver \in Driver /\ fresh \in Nat \ {0}
      /\ told.restarting \in BOOLEAN
      /\ TablesHold(records, told.brought, told.restarting)
      /\ DriverHolds(driver, records, told.restarting) /\ driver # Idle
  BY <1>1, QuietTold
<1>3. Carries(driver, records) /\ Stands(driver, records, told.restarting)
  BY <1>1, <1>2 DEF DriverHolds
<1>4. Node \in WorkNodes /\ Node = Work[driver.at]
  BY <1>2, WorkOK DEF Node, Driver
<1>5. /\ ~told.restarting /\ records.row.status = "running"
      /\ records.nodes[Node] = "running"
  BY <1>1, <1>3, <1>4 DEF Stands
<1> DEFINE outputs == [driver.outputs EXCEPT ![Node] = {}]
           d == [driver EXCEPT !.pc = "ended", !.outputs = outputs]
<1>6. /\ outputs \in Outputs /\ outputs[Node] = {}
      /\ \A m \in WorkNodes : m # Node => outputs[m] = driver.outputs[m]
      /\ \A m \in WorkNodes : outputs[m] \subseteq driver.outputs[m]
  <2>1. driver.outputs \in [WorkNodes -> SUBSET Nat]
    BY <1>2 DEF Driver, Outputs
  <2>2. QED
    BY <1>4, <2>1 DEF Outputs
<1>7. driver' = d /\ records' = WithNode(records, Node, "failed") /\ "failed" \in NodeStates
  BY DEF FailsNode, NodeStates
<1> HIDE DEF outputs
<1>8. d \in Driver /\ d.at = driver.at /\ d.pc = "ended" /\ d.outputs = outputs
  BY <1>2, <1>6 DEF Driver
<1> HIDE DEF d
<1>9. /\ TablesHold(records', told.brought, told.restarting)
      /\ DriverHolds(d, records', told.restarting)
      /\ records' \in Tables /\ records'.row = records.row
      /\ records'.artifacts = records.artifacts /\ records'.evaluations = records.evaluations
      /\ \A m \in WorkNodes : records.nodes[m] = "completed" => records'.nodes[m] = "completed"
  BY <1>2, <1>3, <1>4, <1>5, <1>6, <1>7, <1>8, NodeWritten
<1>10. QED
  BY <1>1, <1>2, <1>7, <1>8, <1>9, QuietStep

\* The artifact of a node.
LEMMA ProducesStep ==
    ASSUME RecordsInv, ~told.mixed, Execution, Produces
    PROVE  RecordsInv'
<1>1. driver.pc = "agent" /\ session' = session /\ fresh <= MaxRecords
  BY DEF Produces
<1>2. /\ session = Shut /\ told' = told /\ export' = export /\ archive' = archive
      /\ records \in Tables /\ driver \in Driver /\ fresh \in Nat \ {0}
      /\ told.restarting \in BOOLEAN
      /\ TablesHold(records, told.brought, told.restarting)
      /\ DriverHolds(driver, records, told.restarting) /\ driver # Idle
  BY <1>1, QuietTold
<1>3. Carries(driver, records) /\ Stands(driver, records, told.restarting)
  BY <1>1, <1>2 DEF DriverHolds
<1>4. Node \in WorkNodes /\ Node = Work[driver.at] /\ driver.at \in 1 .. Len(Work)
  BY <1>2, WorkOK DEF Node, Driver
<1>5. /\ ~told.restarting /\ records.row.status = "running"
      /\ records.nodes[Node] = "running" /\ driver.outputs[Node] = {}
  BY <1>1, <1>3, <1>4 DEF Stands
<1>6. fresh \in 1 .. MaxRecords /\ fresh \in Nat /\ fresh + 1 \in Nat \ {0}
  BY <1>1, <1>2, WorkOK
<1> DEFINE r == WithArtifact(records, fresh, Node)
           made == [id |-> fresh, producer |-> Node]
           outputs == [driver.outputs EXCEPT ![Node] = {fresh}]
           pc == IF driver.at = Len(Work) THEN "evaluation" ELSE "complete"
           d == [driver EXCEPT !.outputs = outputs, !.pc = pc]
<1>7. /\ r \in Tables /\ r.artifacts = records.artifacts \cup {made}
      /\ r.row = records.row /\ r.nodes = records.nodes /\ r.evaluations = records.evaluations
      /\ r.logged = records.logged /\ r.checkpoint = records.checkpoint
  BY <1>2, <1>4, <1>6, ArtifactInserted
<1>8. /\ outputs \in Outputs /\ outputs[Node] = {fresh}
      /\ \A m \in WorkNodes : m # Node => outputs[m] = driver.outputs[m]
  <2>1. driver.outputs \in [WorkNodes -> SUBSET Nat]
    BY <1>2 DEF Driver, Outputs
  <2>2. QED
    BY <1>4, <1>6, <2>1 DEF Outputs
<1>9. records' = r /\ driver' = d /\ fresh' = fresh + 1
  BY DEF Produces
<1>10. made.id = fresh /\ made.producer = Node
  OBVIOUS
<1> HIDE DEF r, made, outputs
<1>11. /\ d \in Driver /\ d.at = driver.at /\ d.outputs = outputs
       /\ d.pc = pc
  BY <1>2, <1>8 DEF Driver
<1>12. d.pc \in {"evaluation", "complete"} /\ (d.pc = "evaluation" <=> driver.at = Len(Work))
  BY <1>11
<1> HIDE DEF d, pc
<1>13. Ids(records.artifacts) \subseteq Ids(r.artifacts)
  BY <1>7, IdsGrow
<1>14. TablesHold(r, told.brought, told.restarting)
  <2>1. Named(r.checkpoint, r.artifacts)
    BY <1>2, <1>7 DEF TablesHold, Named
  <2>2. QED
    BY <1>2, <1>5, <1>7, <1>13, <2>1 DEF TablesHold
<1>15. Named(outputs, r.artifacts)
  <2>1. ASSUME NEW m \in WorkNodes, NEW id \in outputs[m]
        PROVE  \E a \in r.artifacts : a.id = id /\ a.producer = m
    <3>1. CASE m = Node
      BY <1>7, <1>8, <1>10, <2>1, <3>1
    <3>2. CASE m # Node
      BY <1>3, <1>7, <1>8, <2>1, <3>2 DEF Carries, Named
    <3>3. QED
      BY <3>1, <3>2
  <2>2. QED
    BY <2>1 DEF Named
<1>16. Resolves(records.evaluations, records.artifacts) => Resolves(r.evaluations, r.artifacts)
  BY <1>7, <1>13 DEF Resolves
<1>17. Carries(d, r)
  <2>1. Settled(r.checkpoint, r.nodes)
    BY <1>3, <1>7 DEF Carries
  <2>2. ASSUME NEW n \in WorkNodes
        PROVE  /\ r.nodes[n] = "completed" => d.outputs[n] # {}
               /\ d.outputs[n] # {} => r.nodes[n] = "completed" \/ n = Node
    <3>1. CASE n = Node
      BY <1>5, <1>7, <3>1
    <3>2. CASE n # Node
      BY <1>1, <1>3, <1>7, <1>8, <1>11, <2>2, <3>2 DEF Carries
    <3>3. QED
      BY <3>1, <3>2
  <2>3. r.nodes[Last] = "completed" => Resolves(r.evaluations, r.artifacts)
    BY <1>3, <1>7, <1>16 DEF Carries
  <2>4. QED
    BY <1>4, <1>11, <1>12, <1>15, <2>1, <2>2, <2>3 DEF Carries
<1>18. Stands(d, r, told.restarting)
  <2>1. d.outputs[Work[d.at]] # {} /\ r.nodes[Work[d.at]] = "running"
    BY <1>4, <1>5, <1>7, <1>8, <1>11
  <2>2. QED
    BY <1>5, <1>7, <1>11, <1>12, <2>1 DEF Stands
<1>19. DriverHolds(d, r, told.restarting)
  BY <1>12, <1>17, <1>18 DEF DriverHolds
<1>20. QED
  BY <1>1, <1>2, <1>6, <1>7, <1>9, <1>11, <1>14, <1>19, QuietStep

\* The evaluation, of an artifact that is there.
LEMMA EvaluatesStep ==
    ASSUME RecordsInv, ~told.mixed, Execution, Evaluates
    PROVE  RecordsInv'
<1>1. driver.pc = "evaluation" /\ session' = session /\ fresh <= MaxRecords
  BY DEF Evaluates
<1>2. /\ session = Shut /\ told' = told /\ export' = export /\ archive' = archive
      /\ records \in Tables /\ driver \in Driver /\ fresh \in Nat \ {0}
      /\ told.restarting \in BOOLEAN
      /\ TablesHold(records, told.brought, told.restarting)
      /\ DriverHolds(driver, records, told.restarting) /\ driver # Idle
  BY <1>1, QuietTold
<1>3. Carries(driver, records) /\ Stands(driver, records, told.restarting)
  BY <1>1, <1>2 DEF DriverHolds
<1>4. Node \in WorkNodes /\ Node = Work[driver.at] /\ driver.at \in 1 .. Len(Work)
  BY <1>2, WorkOK DEF Node, Driver
<1>5. /\ ~told.restarting /\ records.row.status = "running"
      /\ records.nodes[Node] = "running" /\ driver.outputs[Node] # {}
  BY <1>1, <1>3, <1>4 DEF Stands
<1>6. fresh \in 1 .. MaxRecords /\ fresh \in Nat /\ fresh + 1 \in Nat \ {0}
  BY <1>1, <1>2, WorkOK
<1>7. PICK target \in records.artifacts : records' = WithEvaluation(records, fresh, target.id)
  BY DEF Evaluates
<1>8. target.id \in Nat /\ target.id \in Ids(records.artifacts)
  BY <1>2 DEF Tables, Ids
<1> DEFINE r == WithEvaluation(records, fresh, target.id)
           made == [id |-> fresh, target |-> target.id]
           d == [driver EXCEPT !.pc = "complete"]
<1>9. /\ r \in Tables /\ r.evaluations = records.evaluations \cup {made}
      /\ r.logged = records.logged \cup {fresh}
      /\ r.row = records.row /\ r.nodes = records.nodes /\ r.artifacts = records.artifacts
      /\ r.checkpoint = records.checkpoint
  BY <1>2, <1>6, <1>8, EvaluationInserted, SMTT(30)
<1>10. records' = r /\ driver' = d /\ fresh' = fresh + 1
  BY <1>7 DEF Evaluates, Goes
<1>11. /\ d \in Driver /\ d.at = driver.at /\ d.outputs = driver.outputs /\ d.pc = "complete"
  BY <1>2 DEF Driver
<1>12. made.id = fresh /\ made.target = target.id
  OBVIOUS
<1> HIDE DEF r, d, made
<1>13. /\ r.logged \subseteq Ids(r.evaluations)
       /\ Resolves(r.evaluations, r.artifacts)
  <2>1. Ids(records.evaluations) \subseteq Ids(r.evaluations) /\ fresh \in Ids(r.evaluations)
    BY <1>9, <1>12 DEF Ids
  <2>2. records.logged \subseteq Ids(records.evaluations)
    BY <1>2 DEF TablesHold
  <2>3. QED
    BY <1>8, <1>9, <1>12, <2>1, <2>2 DEF Resolves
<1>14. TablesHold(r, told.brought, told.restarting)
  BY <1>2, <1>5, <1>8, <1>9, <1>12, <1>13 DEF TablesHold
<1>15. Carries(d, r)
  BY <1>1, <1>3, <1>4, <1>9, <1>11, <1>13 DEF Carries
<1>16. Stands(d, r, told.restarting)
  <2>1. d.outputs[Work[d.at]] # {} /\ r.nodes[Work[d.at]] = "running"
    BY <1>4, <1>5, <1>9, <1>11
  <2>2. QED
    BY <1>5, <1>9, <1>11, <1>13, <2>1 DEF Stands
<1>17. DriverHolds(d, r, told.restarting)
  BY <1>11, <1>15, <1>16 DEF DriverHolds
<1>18. QED
  BY <1>1, <1>2, <1>5, <1>6, <1>9, <1>10, <1>11, <1>14, <1>17, QuietStep

\* A session of update_status begins: it has seen the row as it is.
LEMMA ReadsRowStep ==
    ASSUME RecordsInv, ~told.mixed, Execution, ReadsRow
    PROVE  RecordsInv'
<1>1. /\ driver.pc = "status" /\ session = Shut
      /\ session' = [open |-> TRUE, seen |-> records.row]
      /\ driver' = driver /\ records' = records /\ fresh' = fresh
      /\ driver # Idle /\ export' = export /\ archive' = archive
  BY DEF ReadsRow, Execution
<1>2. /\ told \in [row : Row, mixed : BOOLEAN, restarting : BOOLEAN,
                   brought : SUBSET [id : Nat, target : Nat],
                   rounds : Nat, losses : Nat, exports : Nat, imports : Nat]
      /\ records \in Tables
  BY DEF RecordsInv, RecordsTypeOK
<1>3. told' = told
  <2>1. told' = [told EXCEPT !.row.status = IF WrittenNow THEN driver.status ELSE @,
                             !.restarting = @ /\ ~(WrittenNow /\ driver.status = "running")]
    BY DEF Execution
  <2>2. ~WrittenNow
    BY <1>1 DEF WrittenNow
  <2>3. told' = [told EXCEPT !.row = [told.row EXCEPT !.status = told.row.status],
                             !.restarting = told.restarting]
    BY <1>2, <2>1, <2>2
  <2>4. [told.row EXCEPT !.status = told.row.status] = told.row
    BY <1>2 DEF Row
  <2>5. QED
    BY <1>2, <2>3, <2>4
<1>4. records.row \in Row /\ session' \in [open : {TRUE}, seen : Row]
      /\ session'.seen = records.row
  BY <1>1, <1>2 DEF Tables
<1>5. RecordsTypeOK'
  BY <1>1, <1>3, <1>4 DEF RecordsInv, RecordsTypeOK
<1>6. RowInv' /\ ArchiveInv' /\ ExportInv'
  BY <1>1, <1>3, <1>4 DEF RecordsInv, RowInv, ArchiveInv, ExportInv
<1>7. QED
  BY <1>1, <1>3, <1>5, <1>6 DEF RecordsInv

\* And ends: the status it writes is the only change of the row, and an execution that is called
\* running is no longer a new one.
LEMMA WritesStatusStep ==
    ASSUME RecordsInv, ~told.mixed, Execution, WritesStatus
    PROVE  RecordsInv'
<1>1. /\ driver.pc = "status" /\ session # Shut /\ session' = Shut /\ fresh' = fresh
      /\ driver # Idle /\ export' = export /\ archive' = archive
      /\ records' = StatusWritten(records, session.seen, driver.status)
      /\ driver' = [driver EXCEPT !.pc = IF driver.status = "running" THEN "look" ELSE "closed"]
      /\ WrittenNow
  BY DEF WritesStatus, Execution, Goes, WrittenNow
<1>2. /\ told \in [row : Row, mixed : BOOLEAN, restarting : BOOLEAN,
                   brought : SUBSET [id : Nat, target : Nat],
                   rounds : Nat, losses : Nat, exports : Nat, imports : Nat]
      /\ records \in Tables /\ driver \in Driver /\ session.seen \in Row
      /\ session.seen.status = records.row.status /\ records.row = told.row
      /\ TablesHold(records, told.brought, told.restarting)
      /\ DriverHolds(driver, records, told.restarting)
  BY <1>1 DEF RecordsInv, RecordsTypeOK, RowInv
<1>3. driver.status \in RecordStatuses /\ records.row \in Row
  BY <1>2 DEF Driver, Tables
<1> DEFINE r == StatusWritten(records, session.seen, driver.status)
           d == [driver EXCEPT !.pc = IF driver.status = "running" THEN "look" ELSE "closed"]
           row == [told.row EXCEPT !.status = driver.status]
           later == told.restarting /\ driver.status # "running"
<1>4. /\ r \in Tables /\ r.row = [records.row EXCEPT !.status = driver.status]
      /\ r.artifacts = records.artifacts /\ r.nodes = records.nodes
      /\ r.evaluations = records.evaluations /\ r.logged = records.logged
      /\ r.checkpoint = records.checkpoint
  BY <1>2, <1>3, StatusStored
<1>5. /\ d \in Driver /\ d.at = driver.at /\ d.outputs = driver.outputs
      /\ d.status = driver.status
      /\ driver.status = "running" => d.pc = "look"
      /\ driver.status # "running" => d.pc = "closed"
  BY <1>2 DEF Driver
<1>6. told' = [told EXCEPT !.row = row, !.restarting = later]
  BY <1>1, <1>2 DEF Execution
<1>7. /\ row \in Row /\ row.status = driver.status /\ r.row = row
      /\ row.dataset = records.row.dataset
  BY <1>2, <1>3, <1>4 DEF Row
<1>8. later \in BOOLEAN /\ (driver.status = "running" => ~later) /\ (~told.restarting => ~later)
      /\ (later => told.restarting)
  BY <1>2
<1> HIDE DEF r, d, row, later
<1>9. /\ told' \in [row : Row, mixed : BOOLEAN, restarting : BOOLEAN,
                    brought : SUBSET [id : Nat, target : Nat],
                    rounds : Nat, losses : Nat, exports : Nat, imports : Nat]
      /\ told'.row = row /\ told'.restarting = later /\ told'.brought = told.brought
      /\ told'.mixed = told.mixed
  BY <1>2, <1>6, <1>7, <1>8
<1>10. records' = r /\ driver' = d
  BY <1>1 DEF r, d
<1>11. RecordsTypeOK'
  BY <1>1, <1>4, <1>5, <1>9, <1>10 DEF RecordsInv, RecordsTypeOK
<1>12. RowInv' /\ ArchiveInv'
  BY <1>1, <1>7, <1>9, <1>10 DEF RecordsInv, RowInv, ArchiveInv
<1>13. Carries(driver, records) /\ Stands(driver, records, told.restarting)
  BY <1>1, <1>2 DEF DriverHolds
<1>14. /\ Settled(r.checkpoint, r.nodes)
       /\ driver.status = "completed" => AllDone(r.nodes)
       /\ driver.status # "running" => ~told.restarting /\ records.row.status = "running"
       /\ driver.status = "running" => told.restarting
       /\ records.checkpoint = driver.outputs
  BY <1>1, <1>4, <1>13 DEF Carries, Stands
<1>15. driver.status = "completed" =>
          Covered(r.checkpoint) /\ Resolves(r.evaluations, r.artifacts)
  BY <1>4, <1>13, <1>14, WorkOK DEF Carries, AllDone, Covered
<1>16. TablesHold(r, told.brought, later)
  <2>1. r.row.dataset \in Ids(r.artifacts) \cup {Unlinked}
    BY <1>2, <1>4, <1>7 DEF TablesHold
  <2>2. /\ Named(r.checkpoint, r.artifacts) /\ r.logged \subseteq Ids(r.evaluations)
        /\ \A e \in r.evaluations \ told.brought : e.target \in Ids(r.artifacts)
    BY <1>2, <1>4 DEF TablesHold
  <2>3. QED
    BY <1>7, <1>14, <1>15, <2>1, <2>2 DEF TablesHold
<1>17. Carries(d, r)
  BY <1>1, <1>4, <1>5, <1>13, <1>14 DEF Carries
<1>18. Stands(d, r, later)
  BY <1>5, <1>7, <1>8, <1>14 DEF Stands
<1>19. DriverHolds(d, r, later)
  BY <1>5, <1>17, <1>18 DEF DriverHolds
<1>20. ASSUME export # NoExport, export.sound
       PROVE  ExportHolds(export, r, told.brought, later)
  <2>1. /\ export \in Exports /\ told.restarting \in BOOLEAN
        /\ ExportHolds(export, records, told.brought, told.restarting)
    BY <1>2, <1>20 DEF RecordsInv, RecordsTypeOK, ExportInv
  <2>2. ~told.restarting => records.row.status # "completed"
    BY <1>14
  <2>3. QED
    BY <1>2, <1>4, <1>8, <2>1, <2>2, ExportStays
<1>21. ExportInv'
  BY <1>1, <1>9, <1>10, <1>20 DEF ExportInv
<1>22. QED
  BY <1>9, <1>10, <1>11, <1>12, <1>16, <1>19, <1>21 DEF RecordsInv

\* What holds of an execution survives a dataset being attached.
LEMMA DriverStays ==
    ASSUME NEW d, NEW r, NEW q, NEW restarting,
           DriverHolds(d, r, restarting),
           r.artifacts \subseteq q.artifacts,
           q.nodes = r.nodes, q.evaluations = r.evaluations,
           q.checkpoint = r.checkpoint, q.row.status = r.row.status
    PROVE  DriverHolds(d, q, restarting)
<1>1. CASE d = Idle
  BY <1>1 DEF DriverHolds
<1>2. CASE d # Idle /\ d.pc \in {"reset", "first save"}
  BY <1>2 DEF DriverHolds, Restarts
<1>3. CASE d # Idle /\ d.pc \notin {"reset", "first save"}
  <2>1. Carries(d, r) /\ Stands(d, r, restarting)
    BY <1>3 DEF DriverHolds
  <2>2. Ids(r.artifacts) \subseteq Ids(q.artifacts)
    BY IdsGrow
  <2>3. Resolves(r.evaluations, r.artifacts) => Resolves(q.evaluations, q.artifacts)
    BY <2>2 DEF Resolves
  <2>4. Named(d.outputs, q.artifacts)
    BY <2>1 DEF Carries, Named
  <2>5. Carries(d, q)
    BY <2>1, <2>3, <2>4 DEF Carries
  <2>6. Stands(d, q, restarting)
    BY <2>1, <2>3 DEF Stands
  <2>7. QED
    BY <1>3, <2>5, <2>6 DEF DriverHolds
<1>4. QED
  BY <1>1, <1>2, <1>3

\* A dataset is attached, whatever is under way.
LEMMA AttachStep ==
    ASSUME RecordsInv, ~told.mixed, NEW a, Attach(a)
    PROVE  RecordsInv'
<1>1. /\ fresh <= MaxRecords /\ records' = WithDataset(records, fresh)
      /\ told' = [told EXCEPT !.row = [told.row EXCEPT !.dataset = fresh]]
      /\ fresh' = fresh + 1
      /\ driver' = driver /\ session' = session /\ export' = export /\ archive' = archive
  BY DEF Attach
<1>2. /\ told \in [row : Row, mixed : BOOLEAN, restarting : BOOLEAN,
                   brought : SUBSET [id : Nat, target : Nat],
                   rounds : Nat, losses : Nat, exports : Nat, imports : Nat]
      /\ records \in Tables /\ fresh \in Nat \ {0} /\ records.row = told.row
      /\ TablesHold(records, told.brought, told.restarting)
      /\ DriverHolds(driver, records, told.restarting)
  BY DEF RecordsInv, RecordsTypeOK, RowInv
<1>3. fresh \in 1 .. MaxRecords /\ fresh + 1 \in Nat \ {0}
  BY <1>1, <1>2, WorkOK
<1> DEFINE q == WithDataset(records, fresh)
           row == [told.row EXCEPT !.dataset = fresh]
           new == [id |-> fresh, producer |-> "user"]
<1>4. /\ q \in Tables /\ q.row = row
      /\ q.artifacts = records.artifacts \cup {new}
      /\ q.nodes = records.nodes /\ q.evaluations = records.evaluations
      /\ q.logged = records.logged /\ q.checkpoint = records.checkpoint
  BY <1>2, <1>3, DatasetInserted
<1>5. row \in Row /\ row.status = told.row.status /\ row.dataset = fresh
  BY <1>2, <1>3 DEF Row
<1>6. new.id = fresh
  OBVIOUS
<1>7. records' = q
  BY <1>1
<1> HIDE DEF q, row, new
<1>8. told' = [told EXCEPT !.row = row]
  BY <1>1 DEF row
<1>9. /\ told' \in [row : Row, mixed : BOOLEAN, restarting : BOOLEAN,
                    brought : SUBSET [id : Nat, target : Nat],
                    rounds : Nat, losses : Nat, exports : Nat, imports : Nat]
      /\ told'.row = row /\ told'.restarting = told.restarting /\ told'.brought = told.brought
      /\ told'.mixed = told.mixed
  BY <1>2, <1>5, <1>8
<1>10. RecordsTypeOK'
  BY <1>1, <1>3, <1>4, <1>7, <1>9 DEF RecordsInv, RecordsTypeOK
<1>11. RowInv' /\ ArchiveInv'
  BY <1>1, <1>2, <1>4, <1>5, <1>7, <1>9 DEF RecordsInv, RowInv, ArchiveInv
<1>12. Ids(records.artifacts) \subseteq Ids(q.artifacts) /\ fresh \in Ids(q.artifacts)
  BY <1>4, <1>6 DEF Ids
<1>13. TablesHold(q, told.brought, told.restarting)
  <2>1. q.row.dataset \in Ids(q.artifacts) \cup {Unlinked}
    BY <1>4, <1>5, <1>12
  <2>2. Named(q.checkpoint, q.artifacts)
    BY <1>2, <1>4 DEF TablesHold, Named
  <2>3. Resolves(records.evaluations, records.artifacts) => Resolves(q.evaluations, q.artifacts)
    BY <1>4, <1>12 DEF Resolves
  <2>4. /\ q.logged \subseteq Ids(q.evaluations)
        /\ \A e \in q.evaluations \ told.brought : e.target \in Ids(q.artifacts)
        /\ ~told.restarting => Settled(q.checkpoint, q.nodes)
    BY <1>2, <1>4, <1>12 DEF TablesHold
  <2>5. ~told.restarting /\ q.row.status = "completed" =>
           AllDone(q.nodes) /\ Covered(q.checkpoint) /\ Resolves(q.evaluations, q.artifacts)
    BY <1>2, <1>4, <1>5, <2>3 DEF TablesHold
  <2>6. QED
    BY <2>1, <2>2, <2>4, <2>5 DEF TablesHold
<1>14. DriverHolds(driver, q, told.restarting)
  BY <1>2, <1>4, <1>5, DriverStays
<1>15. ASSUME export # NoExport, export.sound
       PROVE  ExportHolds(export, q, told.brought, told.restarting)
  <2>1. /\ export \in Exports /\ told.restarting \in BOOLEAN
        /\ ExportHolds(export, records, told.brought, told.restarting)
    BY <1>2, <1>15 DEF RecordsInv, RecordsTypeOK, ExportInv
  <2>2. QED
    BY <1>2, <1>4, <1>5, <2>1, ExportStays
<1>16. ExportInv'
  BY <1>1, <1>7, <1>9, <1>15 DEF ExportInv
<1>17. QED
  BY <1>1, <1>7, <1>9, <1>10, <1>11, <1>13, <1>14, <1>16 DEF RecordsInv

\* An execution begins: whatever is being exported is no longer steady.
LEMMA BeginExecutionStep ==
    ASSUME RecordsInv, ~told.mixed, BeginExecution
    PROVE  RecordsInv'
<1>1. /\ driver = Idle
      /\ driver' = [pc |-> "reset", at |-> 1, outputs |-> NoOutputs, status |-> "running"]
      /\ export' = IF export = NoExport THEN NoExport ELSE [export EXCEPT !.steady = FALSE]
      /\ told' = [told EXCEPT !.rounds = told.rounds + 1, !.restarting = TRUE]
      /\ records' = records /\ fresh' = fresh /\ session' = session /\ archive' = archive
  BY DEF BeginExecution
<1>2. /\ told \in [row : Row, mixed : BOOLEAN, restarting : BOOLEAN,
                   brought : SUBSET [id : Nat, target : Nat],
                   rounds : Nat, losses : Nat, exports : Nat, imports : Nat]
      /\ records \in Tables /\ session = Shut
      /\ TablesHold(records, told.brought, told.restarting)
  BY <1>1 DEF RecordsInv, RecordsTypeOK, RowInv
<1>3. /\ driver' \in Driver /\ driver'.pc = "reset" /\ driver'.at = 1
      /\ driver'.outputs = NoOutputs /\ driver'.status = "running"
  BY <1>1, WorkOK DEF Driver, RecordStatuses
<1>4. /\ told' \in [row : Row, mixed : BOOLEAN, restarting : BOOLEAN,
                    brought : SUBSET [id : Nat, target : Nat],
                    rounds : Nat, losses : Nat, exports : Nat, imports : Nat]
      /\ told'.row = told.row /\ told'.restarting = TRUE /\ told'.brought = told.brought
      /\ told'.mixed = told.mixed
  <2>1. ASSUME NEW yes \in BOOLEAN, NEW n \in Nat,
               told' = [told EXCEPT !.rounds = n, !.restarting = yes]
        PROVE  /\ told' \in [row : Row, mixed : BOOLEAN, restarting : BOOLEAN,
                             brought : SUBSET [id : Nat, target : Nat],
                             rounds : Nat, losses : Nat, exports : Nat, imports : Nat]
               /\ told'.row = told.row /\ told'.restarting = yes /\ told'.brought = told.brought
               /\ told'.mixed = told.mixed
    BY <1>2, <2>1
  <2>2. TRUE \in BOOLEAN /\ told.rounds + 1 \in Nat
    BY <1>2
  <2>3. QED
    BY <1>1, <2>1, <2>2
<1>5. ASSUME export # NoExport
      PROVE  /\ export' \in Exports /\ export'.at = export.at /\ export.at < 7
             /\ export'.sound = export.sound /\ export'.steady = FALSE
             /\ export'.brought = export.brought /\ export'.parts = export.parts
  <2>1. export \in Exports /\ export.at < 7
    BY <1>5 DEF RecordsInv, RecordsTypeOK
  <2>2. export' = [export EXCEPT !.steady = FALSE]
    BY <1>1, <1>5
  <2>3. QED
    BY <2>1, <2>2 DEF Exports
<1>6. export = NoExport => export' = NoExport
  BY <1>1
<1>7. RecordsTypeOK'
  BY <1>1, <1>3, <1>4, <1>5, <1>6 DEF RecordsInv, RecordsTypeOK
<1>8. RowInv' /\ ArchiveInv'
  BY <1>1, <1>2, <1>4 DEF RecordsInv, RowInv, ArchiveInv
<1>9. TablesHold(records, told.brought, TRUE)
  BY <1>2 DEF TablesHold
<1>10. DriverHolds(driver', records, TRUE)
  <2>1. \A i \in DOMAIN Work : i >= driver'.at
    BY <1>3, WorkOK
  <2>2. Restarts(driver', records, TRUE)
    BY <1>3, <2>1 DEF Restarts
  <2>3. QED
    BY <1>3, <2>2 DEF DriverHolds
<1>11. ASSUME export # NoExport, export.sound
       PROVE  ExportHolds(export', records, told.brought, TRUE)
  <2>1. ExportHolds(export, records, told.brought, told.restarting)
    BY <1>11 DEF RecordsInv, ExportInv
  <2>2. QED
    BY <1>5, <1>11, <2>1 DEF ExportHolds
<1>12. ExportInv'
  BY <1>1, <1>4, <1>5, <1>6, <1>11 DEF ExportInv
<1>13. QED
  BY <1>1, <1>4, <1>7, <1>8, <1>9, <1>10, <1>12 DEF RecordsInv

\* It breaks off: the tables stay as they are, and nobody is at them.
LEMMA BreaksOffStep ==
    ASSUME RecordsInv, ~told.mixed, BreaksOff
    PROVE  RecordsInv'
<1>1. /\ driver' = Idle /\ session' = Shut
      /\ told' = [told EXCEPT !.losses = told.losses + 1]
      /\ records' = records /\ fresh' = fresh /\ export' = export /\ archive' = archive
  BY DEF BreaksOff
<1>2. told \in [row : Row, mixed : BOOLEAN, restarting : BOOLEAN,
                brought : SUBSET [id : Nat, target : Nat],
                rounds : Nat, losses : Nat, exports : Nat, imports : Nat]
  BY DEF RecordsInv, RecordsTypeOK
<1>3. /\ told' \in [row : Row, mixed : BOOLEAN, restarting : BOOLEAN,
                    brought : SUBSET [id : Nat, target : Nat],
                    rounds : Nat, losses : Nat, exports : Nat, imports : Nat]
      /\ told'.row = told.row /\ told'.restarting = told.restarting
      /\ told'.brought = told.brought /\ told'.mixed = told.mixed
  BY <1>1, <1>2
<1>4. RecordsTypeOK' /\ RowInv' /\ ArchiveInv' /\ ExportInv'
  BY <1>1, <1>3 DEF RecordsInv, RecordsTypeOK, RowInv, ArchiveInv, ExportInv
<1>5. DriverHolds(Idle, records, told.restarting)
  BY DEF DriverHolds
<1>6. QED
  BY <1>1, <1>3, <1>4, <1>5 DEF RecordsInv

\* An export begins with the row of the run, which is completed only if all of it is there.
LEMMA BeginExportStep ==
    ASSUME RecordsInv, ~told.mixed, BeginExport
    PROVE  RecordsInv'
<1>1. /\ export' = [at |-> 2, sound |-> TRUE, steady |-> ~told.restarting,
                    brought |-> told.brought,
                    parts |-> [Created EXCEPT !["row"] = records["row"]]]
      /\ told' = [told EXCEPT !.exports = told.exports + 1]
      /\ records' = records /\ fresh' = fresh /\ driver' = driver /\ session' = session
      /\ archive' = archive
  BY DEF BeginExport, ExportOrder
<1>2. /\ told \in [row : Row, mixed : BOOLEAN, restarting : BOOLEAN,
                   brought : SUBSET [id : Nat, target : Nat],
                   rounds : Nat, losses : Nat, exports : Nat, imports : Nat]
      /\ records \in Tables
      /\ TablesHold(records, told.brought, told.restarting)
  BY DEF RecordsInv, RecordsTypeOK
<1>3. /\ told' \in [row : Row, mixed : BOOLEAN, restarting : BOOLEAN,
                    brought : SUBSET [id : Nat, target : Nat],
                    rounds : Nat, losses : Nat, exports : Nat, imports : Nat]
      /\ told'.row = told.row /\ told'.restarting = told.restarting
      /\ told'.brought = told.brought /\ told'.mixed = told.mixed
  BY <1>1, <1>2
<1> DEFINE parts == [Created EXCEPT !.row = records.row]
<1>4. parts \in Tables /\ parts.row = records.row
  <2>1. Created \in Tables
    BY WorkOK DEF Created, Tables, Row, RecordStatuses, Unlinked, NodeStates
  <2>2. QED
    BY <1>2, <2>1 DEF Tables
<1> DEFINE steady == ~told.restarting
           e == [at |-> 2, sound |-> TRUE, steady |-> steady, brought |-> told.brought,
                 parts |-> parts]
<1>5. export' = e
  BY <1>1
<1>6. steady \in BOOLEAN /\ (steady => ~told.restarting)
  BY <1>2
<1> HIDE DEF parts, steady
<1>7. /\ e \in Exports /\ e.at = 2 /\ e.brought = told.brought /\ e.parts = parts
      /\ e.steady = steady
  <2>1. 2 \in 2 .. 7 /\ TRUE \in BOOLEAN
    OBVIOUS
  <2>2. told.brought \in SUBSET [id : Nat, target : Nat]
    BY <1>2
  <2>3. QED
    BY <1>4, <1>6, <2>1, <2>2 DEF Exports
<1> HIDE DEF e
<1>8. RecordsTypeOK'
  <2>1. /\ records' = records /\ fresh' = fresh /\ driver' = driver /\ session' = session
        /\ archive' = archive
    BY <1>1
  <2>2. e.at < 7
    BY <1>7
  <2>3. QED
    BY <1>3, <1>5, <1>7, <2>1, <2>2 DEF RecordsInv, RecordsTypeOK
<1>9. RowInv' /\ ArchiveInv'
  BY <1>1, <1>3 DEF RecordsInv, RowInv, ArchiveInv
<1>10. ExportHolds(e, records, told.brought, told.restarting)
  BY <1>2, <1>4, <1>6, <1>7 DEF ExportHolds, TablesHold
<1>11. ExportInv'
  BY <1>1, <1>3, <1>5, <1>10 DEF ExportInv
<1>12. QED
  BY <1>1, <1>3, <1>8, <1>9, <1>11 DEF RecordsInv

\* It reads a table: what it has read before is covered by what it reads now.
LEMMA ReadPartStep ==
    ASSUME RecordsInv, ~told.mixed, ReadPart
    PROVE  RecordsInv'
<1>1. /\ export # NoExport /\ records' = records /\ fresh' = fresh /\ driver' = driver
      /\ session' = session /\ told' = told
  BY DEF ReadPart
<1>2. /\ export \in Exports /\ export.at < 7 /\ records \in Tables
      /\ told.restarting \in BOOLEAN
      /\ TablesHold(records, told.brought, told.restarting)
  BY <1>1 DEF RecordsInv, RecordsTypeOK
<1>3. export.at \in 2 .. 6 /\ export.parts \in Tables
  BY <1>2 DEF Exports
<1> DEFINE part == ExportOrder[export.at]
           parts == [export.parts EXCEPT ![part] = records[part]]
           e == [export EXCEPT !.parts = parts, !.at = export.at + 1]
<1>4. IF export.at < 6 THEN export' = e /\ archive' = archive
      ELSE export' = NoExport /\ archive' = e
  BY DEF ReadPart, ExportOrder
<1>5. /\ export.at = 2 => parts = [export.parts EXCEPT !.checkpoint = records.checkpoint]
      /\ export.at = 3 => parts = [export.parts EXCEPT !.artifacts = records.artifacts]
      /\ export.at = 4 => parts = [export.parts EXCEPT !.nodes = records.nodes]
      /\ export.at = 5 => parts = [export.parts EXCEPT !.logged = records.logged]
      /\ export.at = 6 => parts = [export.parts EXCEPT !.evaluations = records.evaluations]
  BY DEF ExportOrder
<1> HIDE DEF parts
<1>6. /\ parts \in Tables /\ parts.row = export.parts.row
      /\ parts.checkpoint = IF export.at = 2 THEN records.checkpoint ELSE export.parts.checkpoint
      /\ parts.artifacts = IF export.at = 3 THEN records.artifacts ELSE export.parts.artifacts
      /\ parts.nodes = IF export.at = 4 THEN records.nodes ELSE export.parts.nodes
      /\ parts.logged = IF export.at = 5 THEN records.logged ELSE export.parts.logged
      /\ parts.evaluations = IF export.at = 6 THEN records.evaluations
                             ELSE export.parts.evaluations
  <2>1. CASE export.at = 2
    BY <1>2, <1>3, <1>5, <2>1 DEF Tables
  <2>2. CASE export.at = 3
    BY <1>2, <1>3, <1>5, <2>2 DEF Tables
  <2>3. CASE export.at = 4
    BY <1>2, <1>3, <1>5, <2>3 DEF Tables
  <2>4. CASE export.at = 5
    BY <1>2, <1>3, <1>5, <2>4 DEF Tables
  <2>5. CASE export.at = 6
    BY <1>2, <1>3, <1>5, <2>5 DEF Tables
  <2>6. QED
    BY <1>3, <2>1, <2>2, <2>3, <2>4, <2>5
<1>7. /\ e \in Exports /\ e.at = export.at + 1 /\ e.parts = parts
      /\ e.sound = export.sound /\ e.steady = export.steady /\ e.brought = export.brought
  <2>1. export.at + 1 \in 2 .. 7
    BY <1>3
  <2>2. QED
    BY <1>2, <1>6, <2>1 DEF Exports
<1> HIDE DEF e
<1>8. RecordsTypeOK'
  <2>1. /\ export' = NoExport \/ (export' \in Exports /\ export'.at < 7)
        /\ archive' = NoArchive \/ archive' \in Exports
    BY <1>3, <1>4, <1>7 DEF RecordsInv, RecordsTypeOK
  <2>2. QED
    BY <1>1, <2>1 DEF RecordsInv, RecordsTypeOK
<1>9. RowInv'
  BY <1>1 DEF RecordsInv, RowInv
<1>10. ASSUME export.sound
       PROVE  ExportHolds(export, records, told.brought, told.restarting)
  BY <1>1, <1>10 DEF RecordsInv, ExportInv
<1>11. ASSUME export.sound, export.at < 6
       PROVE  ExportHolds(e, records, told.brought, told.restarting)
  <2>1. ExportHolds(export, records, told.brought, told.restarting)
    BY <1>10, <1>11
  <2>2. CASE export.at = 2
    BY <1>2, <1>6, <1>7, <2>1, <2>2 DEF ExportHolds, TablesHold
  <2>3. CASE export.at = 3
    BY <1>2, <1>6, <1>7, <2>1, <2>3 DEF ExportHolds, TablesHold
  <2>4. CASE export.at = 4
    BY <1>2, <1>6, <1>7, <2>1, <2>4 DEF ExportHolds, TablesHold
  <2>5. CASE export.at = 5
    BY <1>2, <1>6, <1>7, <2>1, <2>5 DEF ExportHolds, TablesHold
  <2>6. QED
    BY <1>3, <1>11, <2>2, <2>3, <2>4, <2>5
<1>12. ASSUME export.sound, export.at = 6
       PROVE  ArchiveHolds(e)
  BY <1>6, <1>7, <1>10, <1>12 DEF ExportHolds, ArchiveHolds
<1>13. ExportInv'
  BY <1>1, <1>4, <1>7, <1>11 DEF ExportInv
<1>14. ArchiveInv'
  BY <1>3, <1>4, <1>7, <1>12 DEF RecordsInv, ArchiveInv
<1>15. QED
  BY <1>1, <1>8, <1>9, <1>13, <1>14 DEF RecordsInv

\* An import replaces the tables.  If it does not mix two histories of the run, nobody is at
\* work on it and the archive holds together, with no evaluations but those it brings.
LEMMA TakesArchiveStep ==
    ASSUME RecordsInv, ~told.mixed, Import
    PROVE  RecordsInv'
<1>1. /\ archive # NoArchive /\ records' = archive.parts
      /\ export' = IF export = NoExport THEN NoExport ELSE [export EXCEPT !.sound = FALSE]
      /\ told' = [told EXCEPT !.row = archive.parts.row, !.imports = told.imports + 1,
                              !.brought = archive.parts.evaluations,
                              !.mixed = driver # Idle \/ ~archive.sound \/ ~archive.steady]
      /\ fresh' = fresh /\ driver' = driver /\ session' = session /\ archive' = archive
  BY DEF Import, Restored
<1>2. /\ told \in [row : Row, mixed : BOOLEAN, restarting : BOOLEAN,
                   brought : SUBSET [id : Nat, target : Nat],
                   rounds : Nat, losses : Nat, exports : Nat, imports : Nat]
      /\ archive \in Exports
  BY <1>1 DEF RecordsInv, RecordsTypeOK
<1>3. archive.parts \in Tables /\ archive.parts.row \in Row
      /\ archive.parts.evaluations \in SUBSET [id : Nat, target : Nat]
  BY <1>2 DEF Exports, Tables
<1> DEFINE mixed == driver # Idle \/ ~archive.sound \/ ~archive.steady
           imports == told.imports + 1
<1>4. mixed \in BOOLEAN /\ imports \in Nat
      /\ (~mixed => driver = Idle /\ archive.sound /\ archive.steady)
  BY <1>2
<1>5. told' = [told EXCEPT !.row = archive.parts.row, !.imports = imports,
                           !.brought = archive.parts.evaluations, !.mixed = mixed]
  BY <1>1
<1> HIDE DEF mixed, imports
<1>6. /\ told' \in [row : Row, mixed : BOOLEAN, restarting : BOOLEAN,
                    brought : SUBSET [id : Nat, target : Nat],
                    rounds : Nat, losses : Nat, exports : Nat, imports : Nat]
      /\ told'.row = archive.parts.row /\ told'.restarting = told.restarting
      /\ told'.brought = archive.parts.evaluations /\ told'.mixed = mixed
  BY <1>2, <1>3, <1>4, <1>5
<1>7. ASSUME export # NoExport
      PROVE  export' \in Exports /\ ~export'.sound /\ export'.at = export.at /\ export.at < 7
  <2>1. export \in Exports /\ export.at < 7
    BY <1>7 DEF RecordsInv, RecordsTypeOK
  <2>2. export' = [export EXCEPT !.sound = FALSE]
    BY <1>1, <1>7
  <2>3. QED
    BY <2>1, <2>2 DEF Exports
<1>8. RecordsTypeOK'
  BY <1>1, <1>3, <1>6, <1>7 DEF RecordsInv, RecordsTypeOK
<1>9. RowInv'
  BY <1>1, <1>4, <1>6 DEF RecordsInv, RowInv
<1>10. ArchiveInv'
  BY <1>1 DEF RecordsInv, ArchiveInv
<1>11. ASSUME ~mixed
       PROVE  TablesHold(archive.parts, archive.parts.evaluations, told.restarting)
  <2>1. ArchiveHolds(archive) /\ archive.steady
    BY <1>1, <1>4, <1>11 DEF RecordsInv, ArchiveInv
  <2>2. QED
    BY <2>1 DEF ArchiveHolds, TablesHold
<1>12. ASSUME ~mixed
       PROVE  DriverHolds(driver, archive.parts, told.restarting)
  BY <1>4, <1>12 DEF DriverHolds
<1>13. ExportInv'
  BY <1>1, <1>7 DEF ExportInv
<1>14. QED
  BY <1>1, <1>6, <1>8, <1>9, <1>10, <1>11, <1>12, <1>13 DEF RecordsInv

\* A run that has just been created.
LEMMA RecordsBegin == ASSUME RecordsInit PROVE RecordsInv
<1>1. /\ records = Created /\ fresh = 1 /\ driver = Idle /\ session = Shut
      /\ export = NoExport /\ archive = NoArchive
      /\ told = [row |-> Created.row, mixed |-> FALSE, restarting |-> FALSE, brought |-> {},
                 rounds |-> 0, losses |-> 0, exports |-> 0, imports |-> 0]
  BY DEF RecordsInit
<1>2. /\ Created \in Tables /\ Created.row \in Row
      /\ Created.row.dataset = Unlinked /\ Created.row.status = "pending"
      /\ Created.checkpoint = NoOutputs /\ Created.logged = {} /\ Created.evaluations = {}
  BY WorkOK DEF Created, Tables, Row, RecordStatuses, Unlinked, NodeStates
<1>3. RecordsTypeOK
  BY <1>1, <1>2 DEF RecordsTypeOK
<1>4. RowInv /\ ArchiveInv /\ ExportInv
  BY <1>1, <1>2 DEF RowInv, ArchiveInv, ExportInv
<1>5. TablesHold(Created, {}, FALSE)
  BY <1>2 DEF TablesHold, Named, Settled, NoOutputs
<1>6. DriverHolds(Idle, Created, FALSE)
  BY DEF DriverHolds
<1>7. QED
  BY <1>1, <1>3, <1>4, <1>5, <1>6 DEF RecordsInv

\* Every step keeps the invariant of the records.
LEMMA RecordsStep == ASSUME RecordsInv, [RecordsNext]_recordVars PROVE RecordsInv'
<1>1. CASE UNCHANGED recordVars
  BY <1>1 DEF recordVars, RecordsInv, RecordsTypeOK, RowInv, ArchiveInv, ExportInv
<1>2. CASE RecordsNext
  <2>1. ~told.mixed
    BY <1>2 DEF RecordsNext
  <2>2. ASSUME NEW a \in Attachers, Attach(a)
        PROVE  RecordsInv'
    BY <2>1, <2>2, AttachStep
  <2>3. CASE Execution
    <3>1. Resets => RecordsInv'
      BY <2>1, <2>3, ResetsStep
    <3>2. SavesCheckpoint => RecordsInv'
      BY <2>1, <2>3, SaveStep
    <3>3. ReadsRow => RecordsInv'
      BY <2>1, <2>3, ReadsRowStep
    <3>4. WritesStatus => RecordsInv'
      BY <2>1, <2>3, WritesStatusStep
    <3>5. Looks => RecordsInv'
      BY <2>1, <2>3, LookStep
    <3>6. BeginsNode => RecordsInv'
      BY <2>1, <2>3, BeginsNodeStep
    <3>7. Produces => RecordsInv'
      BY <2>1, <2>3, ProducesStep
    <3>8. Evaluates => RecordsInv'
      BY <2>1, <2>3, EvaluatesStep
    <3>9. CompletesNode => RecordsInv'
      BY <2>1, <2>3, CompletesNodeStep
    <3>10. FailsNode => RecordsInv'
      BY <2>1, <2>3, FailsNodeStep
    <3>11. QED
      BY <2>3, <3>1, <3>2, <3>3, <3>4, <3>5, <3>6, <3>7, <3>8, <3>9, <3>10 DEF Execution
  <2>4. BeginExecution => RecordsInv'
    BY <2>1, BeginExecutionStep
  <2>5. BreaksOff => RecordsInv'
    BY <2>1, BreaksOffStep
  <2>6. BeginExport => RecordsInv'
    BY <2>1, BeginExportStep
  <2>7. ReadPart => RecordsInv'
    BY <2>1, ReadPartStep
  <2>8. Import => RecordsInv'
    BY <2>1, TakesArchiveStep
  <2>9. QED
    BY <1>2, <2>2, <2>3, <2>4, <2>5, <2>6, <2>7, <2>8 DEF RecordsNext
<1>3. QED
  BY <1>1, <1>2

\* The invariant of the records holds throughout.
LEMMA RecordsAlways == RecordsSpec => []RecordsInv
<1>1. RecordsInit => RecordsInv
  BY RecordsBegin
<1>2. RecordsInv /\ [RecordsNext]_recordVars => RecordsInv'
  BY RecordsStep
<1>3. QED
  BY <1>1, <1>2, PTL DEF RecordsSpec

\* The records of a run stay of their types, an import and a driver under way included.
THEOREM RecordsTypes == RecordsSpec => []RecordsTypeOK
<1>1. RecordsInv => RecordsTypeOK
  BY DEF RecordsInv
<1>2. QED
  BY <1>1, RecordsAlways, PTL

\* The dataset attached last and the status written last both stand in the row of the run: the
\* session of update_status writes the status alone, so the dataset that is attached between
\* its read and its commit is not lost.
THEOREM RowHoldsBoth == RecordsSpec => []RowKeepsBoth
<1>1. RecordsInv => RowKeepsBoth
  BY DEF RecordsInv, RowInv, RowKeepsBoth
<1>2. QED
  BY <1>1, RecordsAlways, PTL

\* An archive is put together in the order in which its parts depend on each other: links it
\* holds can be followed, and one that calls the run completed has all of the run.
THEOREM ArchivesHold == RecordsSpec => []ArchivesHoldTogether
<1>1. ASSUME RecordsInv
      PROVE  ArchivesHoldTogether
  <2>1. ASSUME archive # NoArchive, archive.sound
        PROVE  ArchiveHolds(archive)
    BY <1>1, <2>1 DEF RecordsInv, ArchiveInv
  <2>2. LinksResolve
    <3>1. ASSUME archive # NoArchive, archive.sound, NEW n \in WorkNodes
          PROVE  archive.parts.checkpoint[n] \subseteq Ids(archive.parts.artifacts)
      <4>1. Named(archive.parts.checkpoint, archive.parts.artifacts)
        BY <2>1, <3>1 DEF ArchiveHolds
      <4>2. archive.parts.checkpoint[n] \subseteq {a.id : a \in archive.parts.artifacts}
        BY <3>1, <4>1 DEF Named
      <4>3. QED
        BY <4>2 DEF Ids
    <3>2. QED
      BY <2>1, <3>1 DEF LinksResolve, ArchiveHolds, Settled
  <2>3. CompletedIsWhole
    <3>1. SUFFICES ASSUME archive # NoArchive, archive.sound, archive.steady,
                          archive.parts.row.status = "completed"
                   PROVE  /\ \A n \in WorkNodes :
                                /\ archive.parts.nodes[n] = "completed"
                                /\ \E a \in archive.parts.artifacts : a.producer = n
                                /\ archive.parts.checkpoint[n] # {}
                          /\ \E e \in archive.parts.evaluations :
                                e.target \in Ids(archive.parts.artifacts)
                          /\ \A e \in archive.parts.evaluations \ archive.brought :
                                e.target \in Ids(archive.parts.artifacts)
      BY DEF CompletedIsWhole
    <3>2. ArchiveHolds(archive)
      BY <2>1, <3>1
    <3>3. /\ Covered(archive.parts.checkpoint) /\ AllDone(archive.parts.nodes)
          /\ Named(archive.parts.checkpoint, archive.parts.artifacts)
          /\ Resolves(archive.parts.evaluations, archive.parts.artifacts)
          /\ \A e \in archive.parts.evaluations \ archive.brought :
                e.target \in Ids(archive.parts.artifacts)
      BY <3>1, <3>2 DEF ArchiveHolds
    <3>4. QED
      BY <3>3 DEF Covered, AllDone, Named, Resolves
  <2>4. QED
    BY <2>2, <2>3 DEF ArchivesHoldTogether
<1>2. RecordsInv => ArchivesHoldTogether
  BY <1>1
<1>3. QED
  BY <1>2, RecordsAlways, PTL
=============================================================================
