--------------------------- MODULE JobStore_proofs ---------------------------
(***************************************************************************)
(* Proofs about JobStore, for any jobs, runs, workers, archives and        *)
(* submissions that meet ConstantsAssumption.                              *)
(***************************************************************************)
EXTENDS JobStore, TLAPS

\* The shape of the records that the operations leave behind: of the right
\* type, well formed, of the same run, and still there.
Kept(job, new) ==
    /\ new \in JobRecord
    /\ WellFormed(new)
    /\ new.run = job.run
    /\ new.status # "absent"

\* A queued job claimed by a worker stays well formed: the claim spends an
\* attempt the queued job still had.
LEMMA ClaimedKept ==
    ASSUME NEW job \in JobRecord, WellFormed(job), job.status = "queued",
           NEW w \in Workers
    PROVE  Kept(job, Claimed(job, w))
<1> USE ConstantsAssumption
<1>1. job.wf \in Claimable
  BY DEF WellFormed, KindOK, JobRecord
<1>2. Claimed(job, w) \in JobRecord
  <2>1. job.attempts + 1 \in Nat /\ "running" \in JobStatuses
    BY DEF JobRecord, JobStatuses
  <2>2. QED
    BY <2>1 DEF Claimed, JobRecord
<1>3. OwnerOK(Claimed(job, w)) /\ BudgetOK(Claimed(job, w))
  BY DEF Claimed, JobRecord, WellFormed, OwnerOK, BudgetOK
<1>4. HistoryOK(Claimed(job, w))
  BY <1>1 DEF Claimed, JobRecord, WellFormed, HistoryOK
<1>5. KindOK(Claimed(job, w))
  BY <1>1 DEF Claimed, JobRecord, WellFormed, KindOK
<1>6. QED
  BY <1>2, <1>3, <1>4, <1>5 DEF Kept, WellFormed, Claimed, JobRecord

\* A running job that loses its attempt stays well formed: the lost attempt is
\* the next entry of the history, and only a job with attempts left is queued.
LEMMA LostKept ==
    ASSUME NEW job \in JobRecord, WellFormed(job), job.status = "running",
           NEW retry \in BOOLEAN
    PROVE  Kept(job, Lost(job, retry))
<1> USE ConstantsAssumption
<1> DEFINE new == Lost(job, retry)
           again == retry /\ job.attempts < job.max
<1>1. job.wf \in Claimable /\ job.run \in Runs
  BY DEF WellFormed, KindOK, JobRecord
<1>2. new = [job EXCEPT !.status = IF again THEN "queued" ELSE "dead_letter",
                        !.worker = IF again THEN None ELSE @,
                        !.stale = FALSE,
                        !.failures = Append(@, job.attempts)]
  BY DEF Lost
<1>3. new \in JobRecord
  <2>1. Append(job.failures, job.attempts) \in Seq(Nat)
    BY DEF JobRecord
  <2>2. (IF again THEN "queued" ELSE "dead_letter") \in JobStatuses
    BY DEF JobStatuses
  <2>3. (IF again THEN None ELSE job.worker) \in Workers \cup {None}
    BY DEF JobRecord
  <2> HIDE DEF again
  <2>4. QED
    BY <1>2, <2>1, <2>2, <2>3 DEF JobRecord
<1>4. OwnerOK(new) /\ BudgetOK(new)
  BY <1>2 DEF JobRecord, WellFormed, OwnerOK, BudgetOK
<1>5. HistoryOK(new)
  <2>1. new.failures = Append(job.failures, job.attempts)
        /\ new.attempts = job.attempts
        /\ new.status \notin {"running", "completed"}
    BY <1>2 DEF JobRecord
  <2>2. Len(job.failures) = job.attempts - 1
    BY <1>1 DEF WellFormed, HistoryOK
  <2>3. QED
    BY <2>1, <2>2 DEF HistoryOK, WellFormed, JobRecord
<1>6. KindOK(new) /\ new.run = job.run /\ new.status # "absent"
  BY <1>1, <1>2 DEF JobRecord, WellFormed, KindOK
<1>7. QED
  BY <1>3, <1>4, <1>5, <1>6 DEF Kept, WellFormed

\* A job enqueued by a caller, for a run that exists, is well formed.
LEMMA EnqueuedKept ==
    ASSUME NEW r \in Runs, NEW sub \in Submissions, NEW rank \in Nat
    PROVE  /\ Submitted(r, sub, rank) \in JobRecord
           /\ WellFormed(Submitted(r, sub, rank))
           /\ Submitted(r, sub, rank).run = r
           /\ Submitted(r, sub, rank).status # "absent"
<1> USE ConstantsAssumption
<1> DEFINE status == IF sub.wf = Approval THEN "waiting_for_approval" ELSE "queued"
           new == [Absent EXCEPT !.run = r, !.wf = sub.wf, !.max = sub.max,
                                 !.granted = sub.max, !.status = status,
                                 !.rank = rank]
<1>1. /\ sub.wf \in Claimable \cup {Approval} /\ sub.max \in Nat /\ sub.max > 0
      /\ sub.wf # None
  OBVIOUS
<1>2. Absent \in JobRecord
  <2>1. <<>> \in Seq(Nat) /\ "absent" \in JobStatuses
    BY DEF JobStatuses
  <2>2. QED
    BY <2>1 DEF Absent, JobRecord
<1>3. new \in JobRecord
  <2>1. status \in JobStatuses
    BY DEF JobStatuses
  <2>2. QED
    BY <1>1, <1>2, <2>1 DEF JobRecord
<1>4. /\ new.run = r /\ new.wf = sub.wf /\ new.status = status
      /\ new.max = sub.max /\ new.granted = sub.max
      /\ new.attempts = Absent.attempts /\ new.worker = Absent.worker
      /\ new.stale = Absent.stale /\ new.failures = Absent.failures
      /\ new.manual = Absent.manual
  BY <1>2 DEF JobRecord
<1>5. /\ Absent.attempts = 0 /\ Absent.worker = None /\ Absent.stale = FALSE
      /\ Absent.failures = <<>> /\ Absent.manual = 0
  BY DEF Absent
<1> HIDE DEF new
<1>6. OwnerOK(new) /\ BudgetOK(new)
  BY <1>1, <1>4, <1>5 DEF OwnerOK, BudgetOK
<1>7. HistoryOK(new)
  BY <1>1, <1>4, <1>5 DEF HistoryOK
<1>8. KindOK(new)
  BY <1>1, <1>4, <1>5 DEF KindOK
<1>9. WellFormed(new) /\ new.run = r /\ new.status # "absent"
  BY <1>4, <1>6, <1>7, <1>8 DEF WellFormed
<1>10. QED
  BY <1>3, <1>9 DEF new, Submitted

-----------------------------------------------------------------------------
(* IInv seen from one job, and how a step re-establishes it.               *)

\* IInv is a fact about the types, about each record alone, and about each
\* record's run.
LEMMA IInvByJob ==
    IInv <=> /\ jobs \in [Jobs -> JobRecord]
             /\ runs \in [Runs -> RunStatuses]
             /\ \A j \in Jobs : /\ WellFormed(jobs[j])
                                /\ Present(j) => runs[jobs[j].run] # "absent"
BY DEF IInv, TypeOK, Ownership, Budget, History, Kinds, WellFormed

\* A present job names a run.
LEMMA PresentRun ==
    ASSUME IInv, NEW j \in Jobs, Present(j)
    PROVE  jobs[j].run \in Runs /\ runs[jobs[j].run] # "absent"
BY IInvByJob DEF WellFormed, KindOK, Present

\* A step that replaces some jobs by kept ones, leaves the others alone and
\* removes no run re-establishes IInv.
LEMMA KeptStep ==
    ASSUME IInv,
           jobs' \in [Jobs -> JobRecord],
           \A j \in Jobs : jobs'[j] = jobs[j] \/ (Present(j) /\ Kept(jobs[j], jobs'[j])),
           runs' \in [Runs -> RunStatuses],
           \A r \in Runs : runs[r] # "absent" => runs'[r] # "absent"
    PROVE  IInv'
<1>1. ASSUME NEW j \in Jobs
      PROVE  /\ WellFormed(jobs'[j])
             /\ jobs'[j].status # "absent" => runs'[jobs'[j].run] # "absent"
  <2>1. CASE jobs'[j] = jobs[j]
    BY <2>1, IInvByJob, PresentRun DEF Present
  <2>2. CASE Present(j) /\ Kept(jobs[j], jobs'[j])
    BY <2>2, PresentRun DEF Kept
  <2>3. QED
    BY <1>1, <2>1, <2>2
<1>2. QED
  BY <1>1 DEF IInv, TypeOK, Ownership, Budget, History, Kinds, WellFormed,
              OwnerOK, BudgetOK, HistoryOK, KindOK, Present

\* What a recovery of one workflow does to the store and to the runs.
LEMMA RecoveryKept ==
    ASSUME IInv, NEW wf
    PROVE  /\ Recovered(wf) \in [Jobs -> JobRecord]
           /\ \A j \in Jobs : \/ Recovered(wf)[j] = jobs[j]
                              \/ Present(j) /\ Kept(jobs[j], Recovered(wf)[j])
           /\ FailedBy(wf) \in [Runs -> RunStatuses]
           /\ \A r \in Runs : runs[r] # "absent" => FailedBy(wf)[r] # "absent"
<1>1. ASSUME NEW j \in TimedOut(wf)
      PROVE  j \in Jobs /\ Present(j) /\ Kept(jobs[j], Lost(jobs[j], TRUE))
  BY LostKept, IInvByJob DEF TimedOut, Present
<1>2. \A j \in Jobs : \/ Recovered(wf)[j] = jobs[j]
                      \/ Present(j) /\ Kept(jobs[j], Recovered(wf)[j])
  BY <1>1 DEF Recovered
<1>3. Recovered(wf) \in [Jobs -> JobRecord]
  BY <1>1, IInvByJob DEF Recovered, Kept
<1>4. FailedBy(wf) \in [Runs -> RunStatuses]
  BY IInvByJob DEF FailedBy, RunStatuses
<1>5. \A r \in Runs : runs[r] # "absent" => FailedBy(wf)[r] # "absent"
  BY DEF FailedBy
<1>6. QED
  BY <1>2, <1>3, <1>4, <1>5

-----------------------------------------------------------------------------
(* One lemma per group of operations: it re-establishes IInv.              *)

\* Claims, with or without the recovery that precedes them.
LEMMA ClaimCallStep ==
    ASSUME IInv, NEW w \in Workers, NEW j \in Jobs,
           \/ \E wf \in Claimable : ClaimNext(w, wf, j)
           \/ ClaimJob(w, j)
    PROVE  IInv'
<1>1. ASSUME NEW wf \in Claimable, ClaimNext(w, wf, j)
      PROVE  IInv'
  <2> DEFINE mid == Recovered(wf)
  <2>1. /\ mid \in [Jobs -> JobRecord]
        /\ \A k \in Jobs : \/ mid[k] = jobs[k]
                           \/ Present(k) /\ Kept(jobs[k], mid[k])
    BY RecoveryKept
  <2>2. mid[j].status = "queued"
    BY <1>1 DEF ClaimNext, NextInLine, Waiting
  <2>3. WellFormed(mid[j]) /\ Present(j) /\ mid[j].run = jobs[j].run
    BY <2>1, <2>2, IInvByJob DEF Kept, Present
  <2>4. Kept(mid[j], Claimed(mid[j], w))
    BY <2>1, <2>2, <2>3, ClaimedKept
  <2>5. jobs' = [mid EXCEPT ![j] = Claimed(mid[j], w)]
    BY <1>1 DEF ClaimNext
  <2> HIDE DEF mid
  <2>6. jobs' \in [Jobs -> JobRecord]
    BY <2>1, <2>4, <2>5 DEF Kept
  <2>7. \A k \in Jobs : \/ jobs'[k] = jobs[k]
                        \/ Present(k) /\ Kept(jobs[k], jobs'[k])
    BY <2>1, <2>3, <2>4, <2>5 DEF Kept
  <2>8. runs' = FailedBy(wf)
    BY <1>1 DEF ClaimNext
  <2>9. QED
    BY <2>6, <2>7, <2>8, RecoveryKept, KeptStep
<1>2. ASSUME ClaimJob(w, j)
      PROVE  IInv'
  <2>1. Present(j) /\ Kept(jobs[j], Claimed(jobs[j], w))
    BY <1>2, ClaimedKept, IInvByJob DEF ClaimJob, Present
  <2>2. jobs' = [jobs EXCEPT ![j] = Claimed(jobs[j], w)] /\ runs' = runs
    BY <1>2 DEF ClaimJob
  <2>3. jobs' \in [Jobs -> JobRecord]
    BY <2>1, <2>2, IInvByJob DEF Kept
  <2>4. QED
    BY <2>1, <2>2, <2>3, IInvByJob, KeptStep
<1>3. QED
  BY <1>1, <1>2

\* Recoveries that claim nothing.
LEMMA RecoveryStep ==
    ASSUME IInv, NEW wf \in Claimable, ClaimNothing(wf) \/ Recover(wf)
    PROVE  IInv'
<1>1. jobs' = Recovered(wf) /\ runs' = FailedBy(wf)
  BY DEF ClaimNothing, Recover
<1>2. QED
  BY <1>1, RecoveryKept, KeptStep

\* A change of fields that no part of IInv relates to anything else keeps the
\* record: a heartbeat, the passing of time, a completion.
LEMMA LeaseEndKept ==
    ASSUME NEW job \in JobRecord, WellFormed(job), job.status = "running"
    PROVE  /\ \A old \in BOOLEAN : Kept(job, [job EXCEPT !.stale = old])
           /\ Kept(job, [job EXCEPT !.status = "completed", !.stale = FALSE])
<1> USE ConstantsAssumption
<1>1. job.wf \in Claimable
  BY DEF WellFormed, KindOK, JobRecord
<1>2. ASSUME NEW old \in BOOLEAN
      PROVE  Kept(job, [job EXCEPT !.stale = old])
  BY DEF Kept, JobRecord, WellFormed, OwnerOK, BudgetOK, HistoryOK, KindOK
<1>3. Kept(job, [job EXCEPT !.status = "completed", !.stale = FALSE])
  <2> DEFINE new == [job EXCEPT !.status = "completed", !.stale = FALSE]
  <2>1. new \in JobRecord
    BY DEF JobRecord, JobStatuses
  <2>2. WellFormed(new)
    BY <1>1 DEF JobRecord, WellFormed, OwnerOK, BudgetOK, HistoryOK, KindOK
  <2>3. QED
    BY <2>1, <2>2 DEF Kept, JobRecord
<1>4. QED
  BY <1>2, <1>3

\* What the owner of a job may do to it, and what time does to it.
LEMMA LeaseStep ==
    ASSUME IInv, NEW j \in Jobs,
           \/ \E w \in Workers : \/ Heartbeat(w, j)
                                 \/ Complete(w, j)
                                 \/ \E retry \in BOOLEAN : Fail(w, j, retry)
           \/ Expire(j)
    PROVE  IInv'
<1>1. jobs[j] \in JobRecord /\ WellFormed(jobs[j])
  BY IInvByJob
<1>2. jobs[j].status = "running" /\ Present(j)
  BY DEF Heartbeat, Complete, Fail, Expire, Owns, Present
<1>3. /\ \A old \in BOOLEAN : Kept(jobs[j], [jobs[j] EXCEPT !.stale = old])
      /\ Kept(jobs[j], [jobs[j] EXCEPT !.status = "completed", !.stale = FALSE])
      /\ \A retry \in BOOLEAN : Kept(jobs[j], Lost(jobs[j], retry))
  BY <1>1, <1>2, LeaseEndKept, LostKept
<1>4. PICK new : jobs' = [jobs EXCEPT ![j] = new] /\ Kept(jobs[j], new)
  BY <1>3 DEF Heartbeat, Complete, Fail, Expire
<1>5. /\ runs' \in [Runs -> RunStatuses]
      /\ \A r \in Runs : runs[r] # "absent" => runs'[r] # "absent"
  BY <1>2, PresentRun, IInvByJob DEF Heartbeat, Complete, Fail, Expire, RunStatuses
<1>6. jobs' \in [Jobs -> JobRecord]
  BY <1>4, IInvByJob DEF Kept
<1>7. QED
  BY <1>2, <1>4, <1>5, <1>6, KeptStep

\* A manual retry grants at most the one attempt it needs; a dismissal only
\* takes the last worker's name off the record.
LEMMA OperatorKept ==
    ASSUME NEW job \in JobRecord, WellFormed(job), job.status = "dead_letter"
    PROVE  Kept(job, Reinstated(job)) /\ Kept(job, Dismissed(job))
<1> USE ConstantsAssumption
<1>1. /\ job.wf \in Claimable /\ job.attempts \in Nat /\ job.max \in Nat
      /\ job.manual \in Nat /\ "queued" \in JobStatuses /\ "dismissed" \in JobStatuses
  BY DEF WellFormed, KindOK, JobRecord, JobStatuses
<1>2. Kept(job, Dismissed(job))
  <2>1. Dismissed(job) \in JobRecord
    BY <1>1 DEF JobRecord, Dismissed
  <2>2. WellFormed(Dismissed(job))
    BY <1>1 DEF JobRecord, WellFormed, OwnerOK, BudgetOK, HistoryOK, KindOK, Dismissed
  <2>3. QED
    BY <2>1, <2>2 DEF Kept, JobRecord, Dismissed
<1>3. Kept(job, Reinstated(job))
  <2> DEFINE max == IF job.max > job.attempts THEN job.max ELSE job.attempts + 1
             new == Reinstated(job)
  <2>1. max \in Nat /\ job.manual + 1 \in Nat
    BY <1>1
  <2>2. new = [job EXCEPT !.status = "queued", !.max = max,
                          !.worker = None, !.manual = job.manual + 1]
    BY DEF Reinstated
  <2>3. new \in JobRecord
    <3> HIDE DEF max
    <3>1. QED
      BY <1>1, <2>1, <2>2 DEF JobRecord
  <2>4. OwnerOK(new) /\ BudgetOK(new)
    BY <1>1, <2>2 DEF JobRecord, WellFormed, OwnerOK, BudgetOK
  <2>5. HistoryOK(new) /\ KindOK(new)
    BY <1>1, <2>2 DEF JobRecord, WellFormed, HistoryOK, KindOK
  <2>6. QED
    BY <2>2, <2>3, <2>4, <2>5 DEF Kept, WellFormed, JobRecord
<1>4. QED
  BY <1>2, <1>3

\* The deployment decision moves a job that has no owner and no attempts.
LEMMA DecisionKept ==
    ASSUME NEW job \in JobRecord, WellFormed(job), job.wf = Approval,
           NEW status \in {"completed", "failed"}
    PROVE  Kept(job, [job EXCEPT !.status = status])
<1> USE ConstantsAssumption
<1> DEFINE new == [job EXCEPT !.status = status]
<1>1. new \in JobRecord
  BY DEF JobRecord, JobStatuses
<1>2. WellFormed(new)
  BY DEF JobRecord, WellFormed, OwnerOK, BudgetOK, HistoryOK, KindOK
<1>3. QED
  BY <1>1, <1>2 DEF Kept, JobRecord

\* What an operator may do to a job: retry or dismiss a dead letter, decide a
\* deployment.
LEMMA OperatorStep ==
    ASSUME IInv, NEW j \in Jobs,
           \/ RetryDeadLetter(j) \/ DismissDeadLetter(j)
           \/ \E status \in {"completed", "failed"} : UpdateResult(j, status)
    PROVE  IInv'
<1> USE ConstantsAssumption
<1>1. jobs[j] \in JobRecord /\ WellFormed(jobs[j])
  BY IInvByJob
<1>2. Present(j)
  <2>1. CASE jobs[j].wf = Approval
    BY <1>1, <2>1 DEF Present, WellFormed, KindOK
  <2>2. QED
    BY <2>1 DEF RetryDeadLetter, DismissDeadLetter, UpdateResult, Present
<1>3. PICK new : jobs' = [jobs EXCEPT ![j] = new] /\ Kept(jobs[j], new)
  BY <1>1, OperatorKept, DecisionKept
     DEF RetryDeadLetter, DismissDeadLetter, UpdateResult
<1>4. /\ runs' \in [Runs -> RunStatuses]
      /\ \A r \in Runs : runs[r] # "absent" => runs'[r] # "absent"
  BY <1>2, PresentRun, IInvByJob
     DEF RetryDeadLetter, DismissDeadLetter, UpdateResult, RunStatuses
<1>5. jobs' \in [Jobs -> JobRecord]
  BY <1>3, IInvByJob DEF Kept
<1>6. QED
  BY <1>2, <1>3, <1>4, <1>5, KeptStep

\* New records: an enqueued job, and the jobs of an archive.
LEMMA EnqueueStep ==
    ASSUME IInv, NEW j \in Jobs, NEW r \in Runs, NEW sub \in Submissions,
           Enqueue(j, r, sub)
    PROVE  IInv'
<1> USE ConstantsAssumption
<1>1. PICK n \in 0..(MaxRank - 1) :
         jobs' = [jobs EXCEPT ![j] = Submitted(r, sub, n + 1)]
  BY DEF Enqueue
<1> DEFINE new == Submitted(r, sub, n + 1)
<1>2. n + 1 \in Nat
  OBVIOUS
<1>3. new \in JobRecord /\ WellFormed(new) /\ new.run = r /\ new.status # "absent"
  BY <1>2, EnqueuedKept
<1>4. jobs' = [jobs EXCEPT ![j] = new] /\ runs' = runs /\ runs[r] # "absent"
  BY <1>1 DEF Enqueue
<1> HIDE DEF new
<1>5. \A k \in Jobs : /\ WellFormed(jobs'[k])
                      /\ jobs'[k].status # "absent" => runs'[jobs'[k].run] # "absent"
  BY <1>3, <1>4, IInvByJob DEF Present
<1>6. jobs' \in [Jobs -> JobRecord] /\ runs' \in [Runs -> RunStatuses]
  BY <1>3, <1>4, IInvByJob
<1>7. QED
  BY <1>5, <1>6 DEF IInv, TypeOK, Ownership, Budget, History, Kinds, WellFormed,
                    OwnerOK, BudgetOK, HistoryOK, KindOK, Present

\* A job that restore_run forgets leaves nothing ill formed behind.
LEMMA AbsentOK == Absent \in JobRecord /\ WellFormed(Absent)
<1> USE ConstantsAssumption
<1>1. <<>> \in Seq(Nat) /\ "absent" \in JobStatuses
  BY DEF JobStatuses
<1>2. Absent \in JobRecord
  BY <1>1 DEF Absent, JobRecord
<1>3. WellFormed(Absent)
  BY DEF Absent, WellFormed, OwnerOK, BudgetOK, HistoryOK, KindOK
<1>4. QED
  BY <1>2, <1>3

\* restore_run: the archive's jobs were well formed where they were exported,
\* and a later rank does not change that.
LEMMA ImportStep ==
    ASSUME IInv, NEW a \in Archives, ImportRun(a)
    PROVE  IInv'
<1> USE ConstantsAssumption
<1>1. PICK n \in 0..MaxRank :
         jobs' = [j \in Jobs |->
                    IF j \in a.ids THEN [a.jobs[j] EXCEPT !.rank = n + @]
                    ELSE IF jobs[j].run = a.run THEN Absent ELSE jobs[j]]
  BY DEF ImportRun
<1>2. runs' = [runs EXCEPT ![a.run] = a.status] /\ a.status # "absent"
  BY DEF ImportRun
<1>3. ASSUME NEW j \in a.ids
      PROVE  LET new == [a.jobs[j] EXCEPT !.rank = n + @]
             IN  new \in JobRecord /\ WellFormed(new) /\ new.run = a.run
  <2>1. a.jobs[j] \in JobRecord /\ WellFormed(a.jobs[j]) /\ a.jobs[j].run = a.run
    OBVIOUS
  <2> DEFINE old == a.jobs[j]
             new == [old EXCEPT !.rank = n + @]
  <2> HIDE DEF old
  <2>2. new \in JobRecord
    <3>1. old.rank \in Nat /\ n + old.rank \in Nat
      BY <2>1 DEF old, JobRecord
    <3>2. QED
      BY <2>1, <3>1 DEF old, JobRecord
  <2>3. WellFormed(new)
    BY <2>1 DEF old, JobRecord, WellFormed, OwnerOK, BudgetOK, HistoryOK, KindOK
  <2>4. QED
    BY <2>1, <2>2, <2>3 DEF old, JobRecord
<1>4. ASSUME NEW j \in Jobs
      PROVE  /\ jobs'[j] \in JobRecord
             /\ WellFormed(jobs'[j])
             /\ jobs'[j].status # "absent" => runs'[jobs'[j].run] # "absent"
  <2>1. CASE j \in a.ids
    BY <1>1, <1>2, <1>3, <2>1, IInvByJob
  <2>2. CASE j \notin a.ids /\ jobs[j].run = a.run
    BY <1>1, <2>2, AbsentOK DEF Absent
  <2>3. CASE j \notin a.ids /\ jobs[j].run # a.run
    BY <1>1, <1>2, <2>3, IInvByJob, PresentRun DEF Present
  <2>4. QED
    BY <2>1, <2>2, <2>3
<1>5. jobs' \in [Jobs -> JobRecord] /\ runs' \in [Runs -> RunStatuses]
  BY <1>1, <1>2, <1>4, IInvByJob
<1>6. QED
  BY <1>4, <1>5 DEF IInv, TypeOK, Ownership, Budget, History, Kinds, WellFormed,
                    OwnerOK, BudgetOK, HistoryOK, KindOK, Present

\* create_run and update_status touch no job and forget no run.
LEMMA RunStep ==
    ASSUME IInv, NEW r \in Runs,
           \/ CreateRun(r)
           \/ \E status \in Reported : UpdateStatus(r, status)
    PROVE  IInv'
<1>1. /\ jobs' = jobs
      /\ runs' \in [Runs -> RunStatuses]
      /\ \A q \in Runs : runs[q] # "absent" => runs'[q] # "absent"
  <2>1. Reported \subseteq RunStatuses \ {"absent"}
    BY ConstantsAssumption
  <2>2. QED
    BY <2>1, IInvByJob DEF CreateRun, UpdateStatus, RunStatuses
<1>2. QED
  BY <1>1, IInvByJob, KeptStep

\* Every operation re-establishes IInv.
LEMMA StepKeeps == ASSUME IInv, [Next]_vars PROVE IInv'
<1>1. CASE WorkerCall
  BY <1>1, ClaimCallStep, LeaseStep DEF WorkerCall
<1>2. CASE RecoveryCall
  BY <1>2, RecoveryStep DEF RecoveryCall
<1>3. CASE ApiCall
  BY <1>3, RunStep, EnqueueStep, ImportStep, OperatorStep DEF ApiCall
<1>4. CASE \E j \in Jobs : Expire(j)
  BY <1>4, LeaseStep
<1>5. CASE UNCHANGED vars
  BY <1>5 DEF vars, IInv, TypeOK, Ownership, Budget, History, Kinds, Present
<1>6. QED
  BY <1>1, <1>2, <1>3, <1>4, <1>5 DEF Next

\* The repository starts in its invariant.
LEMMA InitKeeps == ASSUME Init PROVE IInv
<1>1. /\ jobs \in [Jobs -> JobRecord] /\ runs \in [Runs -> RunStatuses]
      /\ \A j \in Jobs : WellFormed(jobs[j]) /\ ~Present(j)
  BY AbsentOK DEF Init, RunStatuses, Present, Absent
<1>2. QED
  BY <1>1, IInvByJob

-----------------------------------------------------------------------------
\* What the modules built on JobStore need to know: only a claim counts an
\* attempt or makes a worker an owner.
SameAttempts ==
    \A j \in Jobs : /\ jobs'[j].attempts = jobs[j].attempts
                    /\ Present(j) => Present(j)'
                    /\ \A w \in Workers : Owns(w, j)' => Owns(w, j)

NoAttemptsYet == \A j \in Jobs : ~Present(j) => jobs[j].attempts = 0

LEMMA UncountedCall ==
    ASSUME IInv, NoAttemptsYet,
           \/ \E wf \in Claimable : Recover(wf) \/ ClaimNothing(wf)
           \/ \E j \in Jobs, r \in Runs, sub \in Submissions : Enqueue(j, r, sub)
           \/ \E j \in Jobs : RetryDeadLetter(j) \/ DismissDeadLetter(j) \/ Expire(j)
           \/ \E w \in Workers, j \in Jobs :
                 \/ Heartbeat(w, j) \/ Complete(w, j)
                 \/ \E retry \in BOOLEAN : Fail(w, j, retry)
           \/ UNCHANGED jobs
    PROVE  SameAttempts
<1>1. jobs \in [Jobs -> JobRecord]
  BY IInvByJob
<1>2. ASSUME NEW job \in JobRecord, NEW retry \in BOOLEAN
      PROVE  /\ Lost(job, retry).attempts = job.attempts
             /\ Lost(job, retry).status \in {"queued", "dead_letter"}
  BY DEF Lost, JobRecord
<1>3. ASSUME NEW wf \in Claimable, Recover(wf) \/ ClaimNothing(wf)
      PROVE  SameAttempts
  BY <1>1, <1>2, <1>3 DEF Recover, ClaimNothing, Recovered, SameAttempts, Present, Owns
<1>4. ASSUME NEW j \in Jobs, NEW r \in Runs, NEW sub \in Submissions, Enqueue(j, r, sub)
      PROVE  SameAttempts
  <2>1. PICK n \in 0..(MaxRank - 1) :
           jobs' = [jobs EXCEPT ![j] = Submitted(r, sub, n + 1)]
    BY <1>4 DEF Enqueue
  <2>2. /\ Submitted(r, sub, n + 1).attempts = 0
        /\ Submitted(r, sub, n + 1).status \in {"queued", "waiting_for_approval"}
        /\ jobs[j].attempts = 0
    BY <1>4 DEF Submitted, Absent, NoAttemptsYet, Enqueue
  <2>3. QED
    BY <1>1, <2>1, <2>2 DEF SameAttempts, Present, Owns
<1>5. ASSUME NEW j \in Jobs, RetryDeadLetter(j) \/ DismissDeadLetter(j) \/ Expire(j)
      PROVE  SameAttempts
  <2>1. /\ jobs[j] \in JobRecord
        /\ Reinstated(jobs[j]).attempts = jobs[j].attempts
        /\ Reinstated(jobs[j]).status = "queued"
        /\ Dismissed(jobs[j]).attempts = jobs[j].attempts
        /\ Dismissed(jobs[j]).status = "dismissed"
    BY <1>1 DEF Reinstated, Dismissed, JobRecord
  <2>2. CASE RetryDeadLetter(j)
    BY <1>1, <2>1, <2>2 DEF RetryDeadLetter, SameAttempts, Present, Owns
  <2>3. CASE DismissDeadLetter(j)
    BY <1>1, <2>1, <2>3 DEF DismissDeadLetter, SameAttempts, Present, Owns
  <2>4. CASE Expire(j)
    BY <1>1, <2>4 DEF Expire, SameAttempts, Present, Owns, JobRecord
  <2>5. QED
    BY <1>5, <2>2, <2>3, <2>4
<1>6. ASSUME NEW w \in Workers, NEW j \in Jobs, Heartbeat(w, j) \/ Complete(w, j)
      PROVE  SameAttempts
  <2>1. CASE Heartbeat(w, j)
    BY <1>1, <2>1 DEF Heartbeat, SameAttempts, Present, Owns, JobRecord
  <2>2. PICK new : new = [jobs[j] EXCEPT !.status = "completed", !.stale = FALSE]
    OBVIOUS
  <2>3. /\ new.attempts = jobs[j].attempts /\ new.status = "completed"
        /\ jobs[j] \in JobRecord
    BY <1>1, <2>2 DEF JobRecord
  <2>4. CASE Complete(w, j)
    <3>1. jobs' = [jobs EXCEPT ![j] = new]
      BY <1>1, <2>2, <2>4 DEF Complete
    <3>2. QED
      BY <1>1, <2>3, <3>1 DEF SameAttempts, Present, Owns
  <2>5. QED
    BY <1>6, <2>1, <2>4
<1>7. ASSUME NEW w \in Workers, NEW j \in Jobs, NEW retry \in BOOLEAN, Fail(w, j, retry)
      PROVE  SameAttempts
  BY <1>1, <1>2, <1>7 DEF Fail, SameAttempts, Present, Owns
<1>8. CASE UNCHANGED jobs
  BY <1>8 DEF SameAttempts, Present, Owns
<1>9. QED
  BY <1>3, <1>4, <1>5, <1>6, <1>7, <1>8

-----------------------------------------------------------------------------
\* IInv holds of every reachable state of the repository.
THEOREM Invariance == Spec => []IInv
<1>1. Init => IInv
  BY InitKeeps
<1>2. IInv /\ [Next]_vars => IInv'
  BY StepKeeps
<1>3. QED
  BY <1>1, <1>2, PTL DEF Spec

\* The records keep their types.
THEOREM TypeCorrect == Spec => []TypeOK
<1>1. IInv => TypeOK
  BY DEF IInv
<1>2. QED
  BY <1>1, Invariance, PTL

\* Every running job has exactly one owner and no idle job has any.
THEOREM OwnershipHolds == Spec => []Ownership
<1>1. IInv => Ownership
  BY DEF IInv
<1>2. QED
  BY <1>1, Invariance, PTL

\* No job is attempted more often than it was granted or manually retried.
THEOREM BudgetHolds == Spec => []Budget
<1>1. IInv => Budget
  BY DEF IInv
<1>2. QED
  BY <1>1, Invariance, PTL

\* The failure history is exactly the log of the lost attempts.
THEOREM HistoryHolds == Spec => []History
<1>1. IInv => History
  BY DEF IInv
<1>2. QED
  BY <1>1, Invariance, PTL

\* Workers hold no deployment job, decisions meet no worker's job, and no job
\* outlives its run.
THEOREM KindsHolds == Spec => []Kinds
<1>1. IInv => Kinds
  BY DEF IInv
<1>2. QED
  BY <1>1, Invariance, PTL

\* A job dies together with its run: fail_workflow_job and the recovery loop
\* write the dead letter and the failed run under one lock.
THEOREM DeadLettersFailRuns == Spec => DeadLetterFailsRun
<1> DEFINE Died(j) ==
      jobs[j].status = "running" /\ jobs'[j].status = "dead_letter"
      => \/ runs'[jobs[j].run] = "failed"
         \/ \E a \in Archives : ImportRun(a)
<1>1. ASSUME IInv, [Next]_vars, NEW j \in Jobs
      PROVE  Died(j)
  <2>1. /\ jobs \in [Jobs -> JobRecord] /\ runs \in [Runs -> RunStatuses]
        /\ jobs[j].status = "running" => jobs[j].run \in Runs
    BY <1>1 DEF IInv, TypeOK, Kinds, KindOK
  <2>2. ASSUME NEW wf,
               Recovered(wf)[j].status = "dead_letter", runs' = FailedBy(wf),
               jobs[j].status = "running"
        PROVE  runs'[jobs[j].run] = "failed"
    <3>1. j \in TimedOut(wf) /\ ~(jobs[j].attempts < jobs[j].max)
      BY <2>1, <2>2 DEF Recovered, Lost, JobRecord
    <3>2. jobs[j].attempts >= jobs[j].max
      BY <2>1, <3>1 DEF JobRecord
    <3>3. QED
      BY <2>1, <2>2, <3>1, <3>2 DEF FailedBy
  <2>3. ASSUME NEW w \in Workers, NEW wf \in Claimable, NEW i \in Jobs, ClaimNext(w, wf, i)
        PROVE  Died(j)
    <3>2. jobs' = [Recovered(wf) EXCEPT ![i] = Claimed(Recovered(wf)[i], w)]
      BY <2>3 DEF ClaimNext
    <3>3. CASE i # j
      BY <2>2, <2>3, <3>2, <3>3 DEF ClaimNext, Recovered
    <3>4. CASE i = j
      <4>1. Recovered(wf)[j].status = "queued" /\ Recovered(wf)[j] \in JobRecord
        BY <1>1, <2>3, <3>4, RecoveryKept DEF ClaimNext, NextInLine, Waiting
      <4>2. jobs'[j].status = "running"
        BY <3>2, <3>4, <4>1 DEF Claimed, Recovered, JobRecord
      <4>3. QED
        BY <4>2
    <3>5. QED
      BY <3>3, <3>4
  <2>4. ASSUME NEW w \in Workers, NEW i \in Jobs,
               ClaimJob(w, i) \/ Heartbeat(w, i) \/ Complete(w, i)
        PROVE  Died(j)
    <3>1. CASE i # j
      BY <2>1, <2>4, <3>1 DEF ClaimJob, Heartbeat, Complete
    <3>2. CASE i = j
      <4>1. CASE ClaimJob(w, i)
        BY <3>2, <4>1 DEF ClaimJob
      <4>2. CASE Heartbeat(w, i)
        BY <2>1, <3>2, <4>2 DEF Heartbeat, JobRecord
      <4>3. CASE Complete(w, i)
        BY <2>1, <3>2, <4>3 DEF Complete, JobRecord
      <4>4. QED
        BY <2>4, <4>1, <4>2, <4>3
    <3>3. QED
      BY <3>1, <3>2
  <2>5. ASSUME NEW w \in Workers, NEW i \in Jobs, NEW retry \in BOOLEAN, Fail(w, i, retry)
        PROVE  Died(j)
    <3>1. CASE i # j
      BY <2>1, <2>5, <3>1 DEF Fail
    <3>2. CASE i = j
      BY <2>1, <2>5, <3>2 DEF Fail
    <3>3. QED
      BY <3>1, <3>2
  <2>6. ASSUME NEW wf \in Claimable, ClaimNothing(wf) \/ Recover(wf)
        PROVE  Died(j)
    BY <2>2, <2>6 DEF ClaimNothing, Recover
  <2>7. ASSUME NEW i \in Jobs, RetryDeadLetter(i) \/ DismissDeadLetter(i) \/ Expire(i)
        PROVE  Died(j)
    <3>1. CASE i # j
      BY <2>1, <2>7, <3>1 DEF RetryDeadLetter, DismissDeadLetter, Expire
    <3>2. CASE i = j
      BY <2>1, <2>7, <3>2, ZenonT(40)
         DEF RetryDeadLetter, DismissDeadLetter, Expire, JobRecord
    <3>3. QED
      BY <3>1, <3>2
  <2>8. ASSUME NEW i \in Jobs, NEW status \in {"completed", "failed"},
               UpdateResult(i, status)
        PROVE  Died(j)
    <3>1. CASE i # j
      BY <2>1, <2>8, <3>1 DEF UpdateResult
    <3>2. CASE i = j
      BY <2>1, <2>8, <3>2 DEF UpdateResult, JobRecord
    <3>3. QED
      BY <3>1, <3>2
  <2>9. ASSUME NEW i \in Jobs, NEW r \in Runs, NEW sub \in Submissions, Enqueue(i, r, sub)
        PROVE  Died(j)
    <3>1. CASE i # j
      BY <2>1, <2>9, <3>1 DEF Enqueue
    <3>2. CASE i = j
      BY <2>9, <3>2 DEF Enqueue, Present
    <3>3. QED
      BY <3>1, <3>2
  <2>10. QED
    BY <1>1, <2>3, <2>4, <2>5, <2>6, <2>7, <2>8, <2>9
       DEF Next, WorkerCall, RecoveryCall, ApiCall, CreateRun, UpdateStatus, vars
<1>2. IInv /\ [Next]_vars =>
        [\A j \in Jobs :
          /\ jobs[j].status = "running"
          /\ jobs'[j].status = "dead_letter"
          => \/ runs'[jobs[j].run] = "failed"
             \/ \E a \in Archives : ImportRun(a)]_vars
  BY <1>1
<1>3. QED
  BY <1>2, Invariance, PTL DEF Spec, DeadLetterFailsRun

-----------------------------------------------------------------------------
(* The repository implements the lease ledger of JobLifecycle.             *)

\* A well-formed record of the repository is a sound entry of the ledger.
LEMMA EntryOK ==
    ASSUME NEW job \in JobRecord, WellFormed(job)
    PROVE  EntryOf(job) \in Lifecycle!Entry /\ Lifecycle!Sound(EntryOf(job))
<1>1. Phase(job) \in Lifecycle!Phases
  BY DEF Phase, PhaseOf, Lifecycle!Phases, JobRecord, JobStatuses
<1>2. EntryOf(job) \in Lifecycle!Entry
  BY <1>1 DEF EntryOf, Lifecycle!Entry, JobRecord
<1>3. Lifecycle!Sound(EntryOf(job))
  <2>1. Phase(job) = "open" => job.status = "queued"
    BY DEF Phase, PhaseOf, JobRecord, JobStatuses
  <2>2. Phase(job) = "leased" => job.status = "running"
    BY DEF Phase, PhaseOf, JobRecord, JobStatuses
  <2>3. QED
    BY <2>1, <2>2 DEF EntryOf, Lifecycle!Sound, WellFormed, OwnerOK, BudgetOK
<1>4. QED
  BY <1>2, <1>3

\* The moves of single records that the repository makes are moves of the
\* ledger, the recovery and the claim of one call taken together.
LEMMA LeaseMoves ==
    ASSUME NEW job \in JobRecord, WellFormed(job), job.status = "running",
           NEW retry \in BOOLEAN
    PROVE  /\ Lifecycle!Move(EntryOf(job), EntryOf(Lost(job, retry)))
           /\ Lifecycle!Move(EntryOf(job),
                EntryOf([job EXCEPT !.status = "completed", !.stale = FALSE]))
<1>1. job.wf \in Claimable /\ job.wf # Approval
  BY ConstantsAssumption DEF WellFormed, KindOK, JobRecord
<1>2. EntryOf(job) = [phase |-> "leased", holder |-> job.worker, tries |-> job.attempts,
                      budget |-> job.max, born |-> job.rank]
  BY <1>1 DEF EntryOf, Phase, PhaseOf
<1>3. Lifecycle!Move(EntryOf(job),
                EntryOf([job EXCEPT !.status = "completed", !.stale = FALSE]))
  <2> DEFINE new == [job EXCEPT !.status = "completed", !.stale = FALSE]
  <2>1. EntryOf(new) = [phase |-> "settled", holder |-> job.worker,
                        tries |-> job.attempts, budget |-> job.max, born |-> job.rank]
    BY <1>1 DEF EntryOf, Phase, PhaseOf, JobRecord
  <2>2. QED
    BY <1>2, <2>1 DEF Lifecycle!Move, Lifecycle!Settle, Lifecycle!Become
<1>4. Lifecycle!Move(EntryOf(job), EntryOf(Lost(job, retry)))
  <2>1. CASE retry /\ job.attempts < job.max
    <3>1. EntryOf(Lost(job, retry)) =
             [phase |-> "open", holder |-> None, tries |-> job.attempts,
              budget |-> job.max, born |-> job.rank]
      BY <1>1, <2>1 DEF Lost, EntryOf, Phase, PhaseOf, JobRecord
    <3>2. EntryOf(job).phase = "leased" /\ EntryOf(job).tries < EntryOf(job).budget
      BY <1>2, <2>1 DEF JobRecord
    <3>3. EntryOf(Lost(job, retry)) =
             Lifecycle!Become(EntryOf(job), "open", None,
                              EntryOf(job).tries, EntryOf(job).budget)
      BY <1>2, <3>1 DEF Lifecycle!Become
    <3>4. QED
      BY <3>2, <3>3 DEF Lifecycle!Move, Lifecycle!Reopen
  <2>2. CASE ~(retry /\ job.attempts < job.max)
    <3>1. EntryOf(Lost(job, retry)) =
             [phase |-> "buried", holder |-> job.worker, tries |-> job.attempts,
              budget |-> job.max, born |-> job.rank]
      BY <1>1, <2>2 DEF Lost, EntryOf, Phase, PhaseOf, JobRecord
    <3>2. QED
      BY <1>2, <2>2, <3>1 DEF Lifecycle!Move, Lifecycle!Bury, Lifecycle!Become
  <2>3. QED
    BY <2>1, <2>2
<1>5. QED
  BY <1>3, <1>4

\* A claim is a Lease of the ledger, whether the job was queued or was taken
\* back from its last owner by the recovery inside the same call.
LEMMA ClaimMoves ==
    ASSUME NEW job \in JobRecord, WellFormed(job), NEW w \in Workers
    PROVE  /\ job.status = "queued"
                => Lifecycle!Move(EntryOf(job), EntryOf(Claimed(job, w)))
           /\ job.status = "running" /\ Lost(job, TRUE).status = "queued"
                => Lifecycle!Move(EntryOf(job), EntryOf(Claimed(Lost(job, TRUE), w)))
<1>1. job.status \in {"queued", "running"} => job.wf # Approval
  BY ConstantsAssumption DEF WellFormed, KindOK, JobRecord
<1>2. ASSUME job.status = "queued"
      PROVE  Lifecycle!Move(EntryOf(job), EntryOf(Claimed(job, w)))
  <2>1. EntryOf(job) = [phase |-> "open", holder |-> job.worker, tries |-> job.attempts,
                        budget |-> job.max, born |-> job.rank]
    BY <1>1, <1>2 DEF EntryOf, Phase, PhaseOf
  <2>2. EntryOf(Claimed(job, w)) =
           [phase |-> "leased", holder |-> w, tries |-> job.attempts + 1,
            budget |-> job.max, born |-> job.rank]
    BY <1>1, <1>2 DEF Claimed, EntryOf, Phase, PhaseOf, JobRecord
  <2>3. EntryOf(job).phase = "open" /\ EntryOf(job).tries < EntryOf(job).budget
    BY <1>2, <2>1 DEF WellFormed, BudgetOK
  <2>4. QED
    BY <2>1, <2>2, <2>3 DEF Lifecycle!Move, Lifecycle!Lease, Lifecycle!Become
<1>3. ASSUME job.status = "running", Lost(job, TRUE).status = "queued"
      PROVE  Lifecycle!Move(EntryOf(job), EntryOf(Claimed(Lost(job, TRUE), w)))
  <2>1. EntryOf(job) = [phase |-> "leased", holder |-> job.worker, tries |-> job.attempts,
                        budget |-> job.max, born |-> job.rank]
    BY <1>1, <1>3 DEF EntryOf, Phase, PhaseOf
  <2>2. job.attempts < job.max
    BY <1>3 DEF Lost, JobRecord
  <2>3. EntryOf(Claimed(Lost(job, TRUE), w)) =
           [phase |-> "leased", holder |-> w, tries |-> job.attempts + 1,
            budget |-> job.max, born |-> job.rank]
    BY <1>1, <1>3, <2>2 DEF Claimed, Lost, EntryOf, Phase, PhaseOf, JobRecord
  <2>4. /\ EntryOf(job).phase = "leased" /\ EntryOf(job).tries < EntryOf(job).budget
        /\ EntryOf(job).tries = job.attempts /\ EntryOf(job).budget = job.max
        /\ EntryOf(job).born = job.rank
    BY <2>1, <2>2
  <2>5. EntryOf(Claimed(Lost(job, TRUE), w)) =
           Lifecycle!Become(EntryOf(job), "leased", w,
                            EntryOf(job).tries + 1, EntryOf(job).budget)
    BY <2>3, <2>4 DEF Lifecycle!Become
  <2>6. QED
    BY <2>4, <2>5 DEF Lifecycle!Move, Lifecycle!Lease
<1>4. QED
  BY <1>2, <1>3

\* Retry, dismissal and decision are Reinstate, Discard and Decide.
LEMMA OperatorMoves ==
    ASSUME NEW job \in JobRecord, WellFormed(job)
    PROVE  /\ job.status = "dead_letter"
                => /\ Lifecycle!Move(EntryOf(job), EntryOf(Reinstated(job)))
                   /\ Lifecycle!Move(EntryOf(job), EntryOf(Dismissed(job)))
           /\ job.wf = Approval
                => \A status \in {"completed", "failed"} :
                      Lifecycle!Move(EntryOf(job),
                                     EntryOf([job EXCEPT !.status = status]))
<1>1. ASSUME job.status = "dead_letter"
      PROVE  /\ Lifecycle!Move(EntryOf(job), EntryOf(Reinstated(job)))
             /\ Lifecycle!Move(EntryOf(job), EntryOf(Dismissed(job)))
  <2>1. job.wf # Approval
    BY <1>1, ConstantsAssumption DEF WellFormed, KindOK, JobRecord
  <2>2. EntryOf(job) = [phase |-> "buried", holder |-> job.worker, tries |-> job.attempts,
                        budget |-> job.max, born |-> job.rank]
    BY <1>1, <2>1 DEF EntryOf, Phase, PhaseOf
  <2>3. Lifecycle!Move(EntryOf(job), EntryOf(Dismissed(job)))
    <3>1. EntryOf(Dismissed(job)) =
             [phase |-> "discarded", holder |-> None, tries |-> job.attempts,
              budget |-> job.max, born |-> job.rank]
      BY <2>1 DEF Dismissed, EntryOf, Phase, PhaseOf, JobRecord
    <3>2. QED
      BY <2>2, <3>1 DEF Lifecycle!Move, Lifecycle!Discard, Lifecycle!Become
  <2>4. Lifecycle!Move(EntryOf(job), EntryOf(Reinstated(job)))
    <3> DEFINE max == IF job.max > job.attempts THEN job.max ELSE job.attempts + 1
    <3>1. EntryOf(Reinstated(job)) =
             [phase |-> "open", holder |-> None, tries |-> job.attempts,
              budget |-> max, born |-> job.rank]
      BY <2>1 DEF Reinstated, EntryOf, Phase, PhaseOf, JobRecord
    <3>2. /\ max \in {EntryOf(job).budget, EntryOf(job).budget + 1}
          /\ EntryOf(job).tries < max
      BY <2>2 DEF WellFormed, BudgetOK, JobRecord
    <3> HIDE DEF max
    <3>3. QED
      BY <2>2, <3>1, <3>2 DEF Lifecycle!Move, Lifecycle!Reinstate, Lifecycle!Become
  <2>5. QED
    BY <2>3, <2>4
<1>2. ASSUME job.wf = Approval, NEW status \in {"completed", "failed"}
      PROVE  Lifecycle!Move(EntryOf(job), EntryOf([job EXCEPT !.status = status]))
  <2>1. job.status \in {"waiting_for_approval", "completed", "failed"}
    BY <1>2, ConstantsAssumption DEF WellFormed, KindOK
  <2>2. Phase(job) \in {"deciding", "decided"}
    BY <1>2, <2>1 DEF Phase, PhaseOf
  <2>3. EntryOf([job EXCEPT !.status = status]) =
           [phase |-> "decided", holder |-> job.worker, tries |-> job.attempts,
            budget |-> job.max, born |-> job.rank]
    BY <1>2 DEF EntryOf, Phase, PhaseOf, JobRecord
  <2>4. EntryOf(job) = [phase |-> Phase(job), holder |-> job.worker,
                        tries |-> job.attempts, budget |-> job.max, born |-> job.rank]
    BY DEF EntryOf
  <2>5. QED
    BY <2>2, <2>3, <2>4 DEF Lifecycle!Move, Lifecycle!Decide, Lifecycle!Become
<1>3. QED
  BY <1>1, <1>2

\* A job that is not there, and one that begins, as the ledger sees them.
LEMMA BeginMoves ==
    ASSUME NEW job \in JobRecord, NEW new \in JobRecord, WellFormed(new)
    PROVE  /\ new.status # "absent" /\ new.rank > job.rank
                => Lifecycle!Move(EntryOf(job), EntryOf(new))
           /\ Lifecycle!Move(EntryOf(job), EntryOf(Absent))
<1>1. ASSUME new.status # "absent", new.rank > job.rank
      PROVE  Lifecycle!Move(EntryOf(job), EntryOf(new))
  <2>1. Phase(new) # "none"
    BY <1>1 DEF Phase, PhaseOf, JobRecord, JobStatuses
  <2>2. /\ EntryOf(new).phase # "none"
        /\ EntryOf(new).born > EntryOf(job).born
    BY <1>1, <2>1 DEF EntryOf
  <2>3. QED
    BY <2>2, EntryOK DEF Lifecycle!Move, Lifecycle!Begin
<1>2. EntryOf(Absent).phase = "none"
  BY ConstantsAssumption DEF Absent, EntryOf, Phase, PhaseOf
<1>3. QED
  BY <1>1, <1>2 DEF Lifecycle!Move, Lifecycle!Forget

\* Any change of one field the ledger does not show is a stutter of the entry.
LEMMA HiddenMoves ==
    ASSUME NEW job \in JobRecord, NEW old \in BOOLEAN
    PROVE  EntryOf([job EXCEPT !.stale = old]) = EntryOf(job)
BY DEF EntryOf, Phase, JobRecord

\* A job that a call does not touch does not move.
LEMMA MoveRefl == ASSUME NEW e PROVE Lifecycle!Move(e, e)
BY DEF Lifecycle!Move

\* Every step of the repository moves every job along the ledger.
LEMMA EveryJobMoves ==
    ASSUME IInv, Next, NEW j \in Jobs
    PROVE  Lifecycle!Move(EntryOf(jobs[j]), EntryOf(jobs'[j]))
<1> USE ConstantsAssumption
<1>1. jobs[j] \in JobRecord /\ WellFormed(jobs[j])
  BY IInvByJob
<1>2. ASSUME NEW wf
      PROVE  Lifecycle!Move(EntryOf(jobs[j]), EntryOf(Recovered(wf)[j]))
  BY <1>1, LeaseMoves, MoveRefl DEF Recovered, TimedOut
<1>3. ASSUME NEW w \in Workers, NEW wf \in Claimable, NEW i \in Jobs, ClaimNext(w, wf, i)
      PROVE  Lifecycle!Move(EntryOf(jobs[j]), EntryOf(jobs'[j]))
  <2>1. CASE i # j
    <3>1. jobs'[j] = Recovered(wf)[j]
      BY <1>3, <2>1 DEF ClaimNext, Recovered
    <3>2. QED
      BY <1>2, <3>1
  <2>2. CASE i = j
    <3>1. jobs'[j] = Claimed(Recovered(wf)[j], w) /\ Recovered(wf)[j].status = "queued"
      BY <1>3, <2>2 DEF ClaimNext, Recovered, NextInLine, Waiting
    <3>2. CASE j \in TimedOut(wf)
      BY <1>1, <3>1, <3>2, ClaimMoves DEF Recovered, TimedOut
    <3>3. CASE j \notin TimedOut(wf)
      BY <1>1, <3>1, <3>3, ClaimMoves DEF Recovered
    <3>4. QED
      BY <3>2, <3>3
  <2>3. QED
    BY <2>1, <2>2
<1>4. ASSUME NEW w \in Workers, NEW i \in Jobs,
             \/ ClaimJob(w, i) \/ Heartbeat(w, i) \/ Complete(w, i)
             \/ \E retry \in BOOLEAN : Fail(w, i, retry)
      PROVE  Lifecycle!Move(EntryOf(jobs[j]), EntryOf(jobs'[j]))
  <2>1. CASE i # j
    BY <1>1, <1>4, <2>1, MoveRefl DEF ClaimJob, Heartbeat, Complete, Fail, IInv, TypeOK
  <2>2. CASE i = j /\ ClaimJob(w, i)
    BY <1>1, <2>2, ClaimMoves, IInvByJob DEF ClaimJob
  <2>3. CASE i = j /\ Heartbeat(w, i)
    <3>1. jobs'[j] = [jobs[j] EXCEPT !.stale = FALSE]
      BY <2>3, IInvByJob DEF Heartbeat
    <3>2. EntryOf(jobs'[j]) = EntryOf(jobs[j])
      BY <1>1, <3>1, HiddenMoves
    <3>3. QED
      BY <3>2 DEF Lifecycle!Move
  <2>4. CASE i = j /\ Complete(w, i)
    <3>1. jobs'[j] = [jobs[j] EXCEPT !.status = "completed", !.stale = FALSE]
      BY <2>4, IInvByJob DEF Complete
    <3>2. QED
      BY <1>1, <2>4, <3>1, LeaseMoves DEF Complete, Owns
  <2>5. CASE i = j /\ \E retry \in BOOLEAN : Fail(w, i, retry)
    <3>1. PICK retry \in BOOLEAN : Fail(w, i, retry)
      BY <2>5
    <3>2. jobs'[j] = Lost(jobs[j], retry) /\ jobs[j].status = "running"
      BY <2>5, <3>1, IInvByJob DEF Fail, Owns
    <3>3. QED
      BY <1>1, <3>2, LeaseMoves
  <2>6. QED
    BY <1>4, <2>1, <2>2, <2>3, <2>4, <2>5
<1>5. ASSUME NEW i \in Jobs,
             \/ RetryDeadLetter(i) \/ DismissDeadLetter(i) \/ Expire(i)
             \/ \E status \in {"completed", "failed"} : UpdateResult(i, status)
      PROVE  Lifecycle!Move(EntryOf(jobs[j]), EntryOf(jobs'[j]))
  <2>1. CASE i # j
    BY <1>1, <1>5, <2>1, MoveRefl, IInvByJob
       DEF RetryDeadLetter, DismissDeadLetter, Expire, UpdateResult
  <2>2. CASE i = j /\ (RetryDeadLetter(i) \/ DismissDeadLetter(i))
    BY <1>1, <2>2, OperatorMoves, IInvByJob, ZenonT(40) DEF RetryDeadLetter, DismissDeadLetter
  <2>3. CASE i = j /\ Expire(i)
    <3>1. jobs'[j] = [jobs[j] EXCEPT !.stale = TRUE]
      BY <2>3, IInvByJob DEF Expire
    <3>2. EntryOf(jobs'[j]) = EntryOf(jobs[j])
      BY <1>1, <3>1, HiddenMoves
    <3>3. QED
      BY <3>2 DEF Lifecycle!Move
  <2>4. CASE i = j /\ \E status \in {"completed", "failed"} : UpdateResult(i, status)
    <3>1. PICK status \in {"completed", "failed"} : UpdateResult(i, status)
      BY <2>4
    <3>2. jobs'[j] = [jobs[j] EXCEPT !.status = status] /\ jobs[j].wf = Approval
      BY <2>4, <3>1, IInvByJob DEF UpdateResult
    <3>3. QED
      BY <1>1, <3>2, OperatorMoves
  <2>5. QED
    BY <1>5, <2>1, <2>2, <2>3, <2>4
<1>6. ASSUME NEW i \in Jobs, NEW r \in Runs, NEW sub \in Submissions, Enqueue(i, r, sub)
      PROVE  Lifecycle!Move(EntryOf(jobs[j]), EntryOf(jobs'[j]))
  <2>1. PICK n \in 0..(MaxRank - 1) :
           LastRank(n) /\ jobs' = [jobs EXCEPT ![i] = Submitted(r, sub, n + 1)]
    BY <1>6 DEF Enqueue
  <2>2. CASE i # j
    BY <2>1, <2>2, MoveRefl, IInvByJob
  <2>3. CASE i = j
    <3>1. n + 1 \in Nat /\ n + 1 > jobs[j].rank
      BY <1>1, <2>1 DEF LastRank, JobRecord
    <3>2. Submitted(r, sub, n + 1).rank = n + 1
      BY <3>1 DEF Submitted, Absent
    <3>3. jobs'[j] = Submitted(r, sub, n + 1)
      BY <2>1, <2>3, IInvByJob
    <3>4. QED
      BY <1>1, <3>1, <3>2, <3>3, EnqueuedKept, BeginMoves
  <2>4. QED
    BY <2>2, <2>3
<1>7. ASSUME NEW a \in Archives, ImportRun(a)
      PROVE  Lifecycle!Move(EntryOf(jobs[j]), EntryOf(jobs'[j]))
  <2>1. PICK n \in 0..MaxRank :
           /\ LastRank(n)
           /\ jobs' = [k \in Jobs |->
                IF k \in a.ids THEN [a.jobs[k] EXCEPT !.rank = n + @]
                ELSE IF jobs[k].run = a.run THEN Absent ELSE jobs[k]]
    BY <1>7 DEF ImportRun
  <2>2. CASE j \in a.ids
    <3> DEFINE old == a.jobs[j]
               new == [old EXCEPT !.rank = n + @]
    <3>1. /\ old \in JobRecord /\ WellFormed(old) /\ old.status # "absent"
          /\ old.rank > 0
      BY <2>2
    <3>a. /\ n + old.rank \in Nat /\ n + old.rank > jobs[j].rank
      <4>1. n \in Nat /\ jobs[j].rank <= n /\ jobs[j].rank \in Nat
        BY <1>1, <2>1 DEF LastRank, JobRecord
      <4>2. old.rank \in Nat
        BY <3>1 DEF JobRecord
      <4>3. QED
        BY <3>1, <4>1, <4>2
    <3> HIDE DEF old
    <3>b. new \in JobRecord
      BY <3>1, <3>a DEF JobRecord
    <3>c. /\ new.status = old.status /\ new.rank = n + old.rank
      BY <3>1 DEF JobRecord
    <3>d. WellFormed(new)
      BY <3>1 DEF JobRecord, WellFormed, OwnerOK, BudgetOK, HistoryOK, KindOK
    <3>2. /\ new \in JobRecord /\ WellFormed(new)
          /\ new.status # "absent" /\ new.rank > jobs[j].rank
      BY <3>1, <3>a, <3>b, <3>c, <3>d
    <3> USE DEF old
    <3>3. jobs'[j] = new
      BY <2>1, <2>2
    <3>4. QED
      BY <1>1, <3>2, <3>3, BeginMoves
  <2>3. CASE j \notin a.ids /\ jobs[j].run = a.run
    BY <1>1, <2>1, <2>3, BeginMoves
  <2>4. CASE j \notin a.ids /\ jobs[j].run # a.run
    BY <2>1, <2>4, MoveRefl
  <2>5. QED
    BY <2>2, <2>3, <2>4
<1>8. ASSUME \/ \E wf \in Claimable : ClaimNothing(wf) \/ Recover(wf)
             \/ \E r \in Runs : \/ CreateRun(r)
                                \/ \E status \in Reported :
                                      UpdateStatus(r, status)
      PROVE  Lifecycle!Move(EntryOf(jobs[j]), EntryOf(jobs'[j]))
  BY <1>2, <1>8, MoveRefl DEF ClaimNothing, Recover, CreateRun, UpdateStatus
<1>9. QED
  BY <1>3, <1>4, <1>5, <1>6, <1>7, <1>8 DEF Next, WorkerCall, RecoveryCall, ApiCall

\* The store implements the lease ledger: whatever the callers do, every job
\* follows the life cycle of JobLifecycle.
THEOREM Refinement == Spec => ImplementsLifecycle
<1>1. Init => Lifecycle!Init
  <2>1. ASSUME Init, NEW j \in Jobs
        PROVE  /\ EntryOf(jobs[j]) \in Lifecycle!Entry
               /\ EntryOf(jobs[j]).phase = "none" /\ EntryOf(jobs[j]).tries = 0
               /\ EntryOf(jobs[j]).budget = 0 /\ EntryOf(jobs[j]).born = 0
    BY <2>1, AbsentOK, EntryOK, ConstantsAssumption
       DEF Init, Absent, EntryOf, Phase, PhaseOf
  <2>2. QED
    BY <2>1 DEF Lifecycle!Init, Ledger
<1>2. IInv /\ IInv' /\ [Next]_vars => [Lifecycle!Next]_Ledger
  <2> SUFFICES ASSUME IInv, IInv', [Next]_vars
               PROVE  [Lifecycle!Next]_Ledger
    OBVIOUS
  <2>1. CASE Next
    <3>1. Ledger' \in [Jobs -> Lifecycle!Entry]
      BY EntryOK, IInvByJob DEF Ledger, IInv, TypeOK, Ownership, Budget, History,
                                Kinds, WellFormed
    <3>2. \A j \in Jobs : Lifecycle!Move(Ledger[j], Ledger'[j])
      BY <2>1, EveryJobMoves DEF Ledger
    <3>3. QED
      BY <3>1, <3>2 DEF Lifecycle!Next
  <2>2. CASE UNCHANGED vars
    BY <2>2 DEF vars, Ledger, EntryOf, Phase
  <2>3. QED
    BY <2>1, <2>2
<1>3. QED
  BY <1>1, <1>2, Invariance, PTL DEF Spec, Lifecycle!Spec, ImplementsLifecycle
=============================================================================
