---------------------------- MODULE Queues_proofs ----------------------------
(***************************************************************************)
(* Who takes jobs from the repository: the pool of workers, and the Redis  *)
(* list beside it.                                                         *)
(*                                                                         *)
(* That the pool of workers, clients and operators uses the repository as  *)
(* JobStore says, and that the fence by worker names is a fence of         *)
(* attempts, for any number of jobs, workers, clients, crashes and manual  *)
(* retries.                                                                *)
(*                                                                         *)
(* The argument for the number of executions: every attempt gives its      *)
(* worker one start, which it uses up when it starts or gives up.  Starts  *)
(* made and starts still to be made together never exceed the attempts     *)
(* counted.                                                                *)
(*                                                                         *)
(* That the Redis list cannot make a job run more often than it was        *)
(* granted, however many ids are duplicated, stale or lost: a worker is    *)
(* handed a job in the one step in which the repository counts an attempt, *)
(* so the two numbers are equal; and the repository never overdraws the    *)
(* budget, whoever calls it (JobStore_proofs).                             *)
(***************************************************************************)
EXTENDS WorkerPool, RedisQueue, JobStore_proofs, FiniteSetTheorems

\* Workers that have claimed j and not yet started it.
Unstarted == {"claimed", "planning"}
Pending(j) == {w \in Workers : workers[w].pc \in Unstarted /\ workers[w].job = j}

\* Between two calls a worker holds no job, in one it holds one that exists.
JobHeld(x) == IF x.pc \in {"off", "polling"} THEN x.job = None
              ELSE x.job \in Jobs /\ Present(x.job)

StartsCounted(j) ==
    IsFiniteSet(Pending(j)) /\ starts[j] + Cardinality(Pending(j)) <= jobs[j].attempts

PoolInv ==
    /\ IInv /\ NoAttemptsYet
    /\ workers \in [Workers -> Worker] /\ clients \in [Clients -> Client]
    /\ starts \in [Jobs -> Nat]
    /\ \A w \in Workers : JobHeld(workers[w])
    /\ \A c \in Clients : clients[c].pc # "idle" => clients[c].run \in Runs
    /\ OwnerHoldsCurrentAttempt
    /\ \A j \in Jobs : StartsCounted(j)

\* A worker polls the names of the rotation.
LEMMA PolledClaimable ==
    ASSUME NEW w \in Workers, workers[w] \in Worker
    PROVE  Polled(w) \in Claimable /\ NextTurn(w) \in 0..(Len(Rotation) - 1)
<1>1. /\ workers[w].turn \in 0..(Len(Rotation) - 1)
      /\ workers[w].tried \in 0..(Len(Rotation) - 1)
      /\ Rotation \in Seq(Claimable) /\ Len(Rotation) \in Nat
  BY PoolAssumption, SMTT(30) DEF Worker
<1>2. PICK n \in Nat : n = Len(Rotation) /\ n > 0
  BY <1>1
<1>3. ASSUME NEW k \in Nat
      PROVE  k % n \in 0..(n - 1)
  BY <1>2
<1>4. /\ (workers[w].turn + workers[w].tried) % n \in 0..(n - 1)
      /\ (workers[w].turn + 1) % n \in 0..(n - 1)
  <2>1. PICK turn \in Nat, tried \in Nat :
           turn = workers[w].turn /\ tried = workers[w].tried
    BY <1>1
  <2>2. turn + tried \in Nat /\ turn + 1 \in Nat
    BY <2>1
  <2>3. QED
    BY <1>3, <2>1, <2>2
<1>5. ((workers[w].turn + workers[w].tried) % n) + 1 \in 1..n
  BY <1>2, <1>4
<1>6. QED
  BY <1>1, <1>2, <1>4, <1>5 DEF Polled, NextTurn

\* Whatever the pool does to the repository is one of its operations.
LEMMA StoreStep ==
    ASSUME PoolInv, [PoolNext]_poolvars
    PROVE  [Next]_vars
<1>1. ASSUME NEW w \in Workers, workers[w].pc \notin {"off", "polling"}
      PROVE  Run(w) \in Runs /\ workers[w].job \in Jobs
  BY <1>1, PresentRun DEF PoolInv, JobHeld, Run
<1>2. ASSUME NEW w \in Workers, WorkerStep(w)
      PROVE  [Next]_vars
  <2>1. CASE ClaimHit(w)
    BY <2>1, PolledClaimable DEF ClaimHit, PoolInv, Next, WorkerCall
  <2>2. CASE ClaimMiss(w)
    BY <2>2, PolledClaimable DEF ClaimMiss, PoolInv, Next, RecoveryCall
  <2>3. CASE Beat(w)
    BY <1>1, <2>3 DEF Beat, Next, WorkerCall, vars
  <2>4. CASE StartRun(w)
    BY <1>1, <2>4, PoolAssumption DEF StartRun, Next, ApiCall
  <2>5. CASE EndRun(w)
    BY <1>1, <2>5, PoolAssumption DEF EndRun, Next, ApiCall
  <2>6. CASE RaiseInRun(w)
    BY <2>6 DEF RaiseInRun, vars
  <2>7. CASE SettleDone(w)
    BY <1>1, <2>7 DEF SettleDone, Next, WorkerCall, vars
  <2>8. CASE SettleFailed(w)
    BY <1>1, <2>8 DEF SettleFailed, Next, WorkerCall, vars
  <2>9. CASE ReportFailed(w)
    BY <1>1, <2>9, PoolAssumption DEF ReportFailed, Next, ApiCall
  <2>10. QED
    BY <1>2, <2>1, <2>2, <2>3, <2>4, <2>5, <2>6, <2>7, <2>8, <2>9 DEF WorkerStep
<1>3. ASSUME NEW c \in Clients, ClientStep(c)
      PROVE  [Next]_vars
  <2>1. CASE Submit(c)
    BY <2>1, PoolAssumption DEF Submit, PoolInv, Next, ApiCall
  <2>2. CASE MarkQueued(c)
    BY <2>2, PoolAssumption DEF MarkQueued, PoolInv, Next, ApiCall
  <2>3. QED
    BY <1>3, <2>1, <2>2 DEF ClientStep, ReadRun, FindActive, vars
<1>4. CASE Operate
  <2>1. ASSUME NEW wf \in Claimable \ {Dynamic}, NEW max \in Budgets
        PROVE  [wf |-> wf, max |-> max] \in Submissions
    BY PoolAssumption
  <2>2. QED
    BY <1>4, <2>1 DEF Operate, Next, ApiCall
<1>5. QED
  BY <1>2, <1>3, <1>4 DEF PoolNext, Crash, PoolExpire, Next, poolvars, vars

ClientsOK ==
    /\ clients \in [Clients -> Client]
    /\ \A c \in Clients : clients[c].pc # "idle" => clients[c].run \in Runs

\* A step that moves no worker and claims nothing.
LEMMA WorkersRest ==
    ASSUME PoolInv, IInv', SameAttempts, UNCHANGED <<workers, starts>>, ClientsOK'
    PROVE  PoolInv'
<1>1. NoAttemptsYet'
  BY DEF PoolInv, NoAttemptsYet, SameAttempts
<1>2. \A w \in Workers : JobHeld(workers[w])'
  BY DEF PoolInv, JobHeld, SameAttempts
<1>3. OwnerHoldsCurrentAttempt'
  BY DEF PoolInv, OwnerHoldsCurrentAttempt, SameAttempts
<1>4. \A j \in Jobs : Pending(j)' = Pending(j)
  BY DEF Pending
<1>5. \A j \in Jobs : StartsCounted(j)'
  BY <1>4 DEF PoolInv, StartsCounted, SameAttempts
<1>6. QED
  BY <1>1, <1>2, <1>3, <1>5 DEF PoolInv, ClientsOK

\* A step of one worker that claims nothing: it keeps its job or lets it go,
\* and a start it makes is one it had still to make.
LEMMA WorkerMoves ==
    ASSUME PoolInv, IInv', SameAttempts, ClientsOK',
           NEW w \in Workers, NEW x \in Worker, workers' = [workers EXCEPT ![w] = x],
           JobHeld(x),
           \/ x.job = None
           \/ x.job = workers[w].job /\ x.attempt = workers[w].attempt,
           x.pc \in Unstarted => workers[w].pc \in Unstarted /\ x.job = workers[w].job,
           \/ starts' = starts
           \/ /\ workers[w].pc \in Unstarted /\ x.pc \notin Unstarted
              /\ starts' = [starts EXCEPT ![workers[w].job] = @ + 1]
    PROVE  PoolInv'
<1>1. /\ workers \in [Workers -> Worker] /\ starts \in [Jobs -> Nat]
      /\ workers' \in [Workers -> Worker] /\ starts' \in [Jobs -> Nat]
      /\ \A v \in Workers : workers'[v] = IF v = w THEN x ELSE workers[v]
  BY DEF PoolInv
<1>2. NoAttemptsYet'
  BY DEF PoolInv, NoAttemptsYet, SameAttempts
<1>3. \A v \in Workers : JobHeld(workers[v])'
  BY <1>1 DEF PoolInv, JobHeld, SameAttempts
<1>4. OwnerHoldsCurrentAttempt'
  <2>1. ASSUME NEW v \in Workers, NEW j \in Jobs, Owns(v, j)', workers'[v].job = j
        PROVE  workers'[v].attempt = jobs'[j].attempts
    <3>1. Owns(v, j) /\ jobs'[j].attempts = jobs[j].attempts /\ j # None
      BY <2>1, PoolAssumption DEF SameAttempts
    <3>2. workers[v].job = j /\ workers'[v].attempt = workers[v].attempt
      BY <1>1, <2>1, <3>1
    <3>3. QED
      BY <3>1, <3>2 DEF PoolInv, OwnerHoldsCurrentAttempt
  <2>2. QED
    BY <2>1 DEF OwnerHoldsCurrentAttempt
<1>5. ASSUME NEW j \in Jobs
      PROVE  StartsCounted(j)'
  <2>1. PICK old, new : old = Pending(j) /\ new = Pending(j)'
    OBVIOUS
  <2>2. /\ IsFiniteSet(old) /\ starts[j] + Cardinality(old) <= jobs[j].attempts
        /\ Cardinality(old) \in Nat /\ starts[j] \in Nat
    BY <1>1, <2>1, FS_CardinalityType DEF PoolInv, StartsCounted
  <2>3. /\ jobs'[j].attempts = jobs[j].attempts /\ jobs[j].attempts \in Nat
    BY IInvByJob DEF SameAttempts, PoolInv, JobRecord
  <2>4. CASE w \in old /\ x.pc \notin Unstarted
    <3>1. new = old \ {w}
      BY <1>1, <2>1, <2>4 DEF Pending
    <3>2. IsFiniteSet(new) /\ Cardinality(new) = Cardinality(old) - 1
      BY <2>2, <2>4, <3>1, FS_RemoveElement
    <3>3. starts'[j] = starts[j] \/ starts'[j] = starts[j] + 1
      BY <1>1
    <3>4. QED
      BY <2>1, <2>2, <2>3, <3>2, <3>3 DEF StartsCounted
  <2>5. CASE w \notin old \/ x.pc \in Unstarted
    <3>1. new = old
      BY <1>1, <2>1, <2>5 DEF Pending
    <3>2. starts'[j] = starts[j]
      BY <1>1, <2>1, <2>5 DEF Pending
    <3>3. QED
      BY <2>1, <2>2, <2>3, <3>1, <3>2 DEF StartsCounted
  <2>6. QED
    BY <2>4, <2>5
<1>6. QED
  BY <1>1, <1>2, <1>3, <1>4, <1>5 DEF PoolInv, ClientsOK

\* claim_next_workflow_job gives its caller the next attempt of one job, and
\* takes jobs from others by recovery only.
LEMMA ClaimTakes ==
    ASSUME IInv, NEW w \in Workers, NEW wf \in Claimable, NEW j \in Jobs,
           ClaimNext(w, wf, j)
    PROVE  /\ \A k \in Jobs :
                 /\ jobs'[k].attempts = jobs[k].attempts + (IF k = j THEN 1 ELSE 0)
                 /\ Present(k) => Present(k)'
                 /\ k # j => \A v \in Workers : Owns(v, k)' => Owns(v, k)
           /\ Present(j) /\ \A v \in Workers : Owns(v, j)' => v = w
<1>1. jobs \in [Jobs -> JobRecord]
  BY IInvByJob
<1>2. ASSUME NEW k \in Jobs
      PROVE  /\ Recovered(wf)[k].attempts = jobs[k].attempts
             /\ Present(k) => Recovered(wf)[k].status # "absent"
             /\ Recovered(wf)[k].status = "running" => Recovered(wf)[k] = jobs[k]
             /\ jobs[k].attempts \in Nat
  BY <1>1 DEF Recovered, Lost, JobRecord, TimedOut, Present
<1>3. /\ Recovered(wf) \in [Jobs -> JobRecord]
      /\ Recovered(wf)[j].status = "queued"
      /\ jobs' = [Recovered(wf) EXCEPT ![j] = Claimed(Recovered(wf)[j], w)]
  BY RecoveryKept DEF ClaimNext, NextInLine, Waiting
<1>4. /\ Claimed(Recovered(wf)[j], w).attempts = jobs[j].attempts + 1
      /\ Claimed(Recovered(wf)[j], w).status = "running"
      /\ Claimed(Recovered(wf)[j], w).worker = w
  BY <1>2, <1>3 DEF Claimed, JobRecord
<1>5. Present(j)
  BY <1>1, <1>3 DEF Recovered, TimedOut, Present
<1>6. ASSUME NEW k \in Jobs, k # j
      PROVE  /\ jobs'[k].attempts = jobs[k].attempts + 0
             /\ Present(k) => Present(k)'
             /\ \A v \in Workers : Owns(v, k)' => Owns(v, k)
  BY <1>2, <1>3, <1>6 DEF Present, Owns
<1>7. /\ jobs'[j].attempts = jobs[j].attempts + 1 /\ Present(j)'
      /\ \A v \in Workers : Owns(v, j)' => v = w
  BY <1>3, <1>4 DEF Present, Owns
<1>8. QED
  BY <1>5, <1>6, <1>7

LEMMA ClaimHitStep ==
    ASSUME PoolInv, IInv', NEW w \in Workers, ClaimHit(w)
    PROVE  PoolInv'
<1>1. /\ workers[w].pc = "polling" /\ workers[w] \in Worker
      /\ UNCHANGED <<clients, starts>>
  BY DEF ClaimHit, PoolInv
<1>2. PICK j \in Jobs :
         /\ ClaimNext(w, Polled(w), j)
         /\ workers' = [workers EXCEPT ![w].pc = "claimed", ![w].job = j,
                                       ![w].attempt = jobs'[j].attempts]
  BY DEF ClaimHit
<1>3. /\ \A k \in Jobs :
            /\ jobs'[k].attempts = jobs[k].attempts + (IF k = j THEN 1 ELSE 0)
            /\ Present(k) => Present(k)'
            /\ k # j => \A v \in Workers : Owns(v, k)' => Owns(v, k)
      /\ Present(j) /\ \A v \in Workers : Owns(v, j)' => v = w
  BY <1>1, <1>2, PolledClaimable, ClaimTakes DEF PoolInv
<1>4. \A k \in Jobs : jobs[k].attempts \in Nat /\ jobs'[k].attempts \in Nat
  <2>1. \A k \in Jobs : jobs[k].attempts \in Nat
    BY IInvByJob DEF PoolInv, JobRecord
  <2>2. QED
    BY <1>3, <2>1
<1>5. PICK x : x = [workers[w] EXCEPT !.pc = "claimed", !.job = j,
                                     !.attempt = jobs'[j].attempts]
  OBVIOUS
<1>6. /\ x \in Worker /\ x.pc = "claimed" /\ x.job = j
      /\ x.attempt = jobs'[j].attempts
  BY <1>1, <1>4, <1>5 DEF Worker
<1>7. /\ workers' \in [Workers -> Worker]
      /\ \A v \in Workers : workers'[v] = IF v = w THEN x ELSE workers[v]
  BY <1>2, <1>5, <1>6 DEF PoolInv
<1>8. NoAttemptsYet'
  BY <1>3, <1>4 DEF PoolInv, NoAttemptsYet
<1>9. \A v \in Workers : JobHeld(workers[v])'
  BY <1>3, <1>6, <1>7 DEF PoolInv, JobHeld
<1>10. OwnerHoldsCurrentAttempt'
  <2>1. ASSUME NEW v \in Workers, NEW k \in Jobs, Owns(v, k)', workers'[v].job = k
        PROVE  workers'[v].attempt = jobs'[k].attempts
    <3>1. CASE k = j
      BY <1>3, <1>6, <1>7, <2>1, <3>1
    <3>2. CASE k # j
      <4>1. v # w /\ workers'[v] = workers[v] /\ Owns(v, k)
        BY <1>3, <1>6, <1>7, <2>1, <3>2
      <4>2. jobs'[k].attempts = jobs[k].attempts
        BY <1>3, <1>4, <3>2
      <4>3. QED
        BY <2>1, <4>1, <4>2 DEF PoolInv, OwnerHoldsCurrentAttempt
    <3>3. QED
      BY <3>1, <3>2
  <2>2. QED
    BY <2>1 DEF OwnerHoldsCurrentAttempt
<1>11. ASSUME NEW k \in Jobs
       PROVE  StartsCounted(k)'
  <2>1. PICK old, new : old = Pending(k) /\ new = Pending(k)'
    OBVIOUS
  <2>2. /\ IsFiniteSet(old) /\ starts[k] + Cardinality(old) <= jobs[k].attempts
        /\ Cardinality(old) \in Nat /\ starts[k] \in Nat /\ w \notin old
        /\ starts'[k] = starts[k]
    BY <1>1, <2>1, FS_CardinalityType DEF PoolInv, StartsCounted, Pending, Unstarted
  <2>3. CASE k = j
    <3>1. new = old \cup {w}
      BY <1>6, <1>7, <2>1, <2>3 DEF Pending, Unstarted
    <3>2. IsFiniteSet(new) /\ Cardinality(new) = Cardinality(old) + 1
      BY <2>2, <3>1, FS_AddElement
    <3>3. jobs'[k].attempts = jobs[k].attempts + 1
      BY <1>3, <2>3
    <3>4. QED
      BY <1>4, <2>1, <2>2, <3>2, <3>3 DEF StartsCounted
  <2>4. CASE k # j
    <3>1. new = old
      BY <1>6, <1>7, <2>1, <2>2, <2>4 DEF Pending
    <3>2. jobs'[k].attempts = jobs[k].attempts
      BY <1>3, <1>4, <2>4
    <3>3. QED
      BY <2>1, <2>2, <3>1, <3>2 DEF StartsCounted
  <2>5. QED
    BY <2>3, <2>4
<1>12. QED
  BY <1>1, <1>7, <1>8, <1>9, <1>10, <1>11 DEF PoolInv

\* The other steps of a worker.
LEMMA CallEndsOK ==
    ASSUME NEW w \in Workers, workers[w] \in Worker
    PROVE  /\ NewWorker("polling") \in Worker /\ NewWorker("off") \in Worker
           /\ [NewWorker("polling") EXCEPT !.turn = NextTurn(w)] \in Worker
<1>1. 0 \in 0..(Len(Rotation) - 1) /\ NextTurn(w) \in 0..(Len(Rotation) - 1)
  BY PolledClaimable DEF Worker
<1>2. QED
  BY <1>1 DEF NewWorker, Worker

\* process_next_job ends, and whatever the worker held is let go.
LEMMA EndsStep ==
    ASSUME PoolInv, IInv', SameAttempts, UNCHANGED <<clients, starts>>,
           NEW w \in Workers, CallEnds(w)
    PROVE  PoolInv'
<1>1. PICK x : x = IF looping THEN [NewWorker("polling") EXCEPT !.turn = NextTurn(w)]
                   ELSE NewWorker("off")
  OBVIOUS
<1>2. x \in Worker /\ x.pc \in {"off", "polling"} /\ x.job = None
  BY <1>1, CallEndsOK DEF PoolInv, NewWorker
<1>3. workers' = [workers EXCEPT ![w] = x]
  BY <1>1 DEF CallEnds
<1>4. JobHeld(x) /\ ClientsOK' /\ x.pc \notin Unstarted
  BY <1>2 DEF JobHeld, ClientsOK, PoolInv, Unstarted
<1>5. QED
  BY <1>2, <1>3, <1>4, WorkerMoves

\* The worker goes on with its job, and perhaps makes its start.
LEMMA OnwardStep ==
    ASSUME PoolInv, IInv', SameAttempts, UNCHANGED clients,
           NEW w \in Workers, workers[w].pc \notin {"off", "polling"},
           NEW pc \in {"planning", "running", "settling", "reporting"},
           NEW outcome \in {"none", "raised", "completed", "failed", "waiting_for_approval"},
           workers' = [workers EXCEPT ![w].pc = pc, ![w].outcome = outcome],
           pc = "planning" => workers[w].pc \in Unstarted,
           \/ starts' = starts
           \/ /\ workers[w].pc \in Unstarted /\ pc # "planning"
              /\ starts' = [starts EXCEPT ![workers[w].job] = @ + 1]
    PROVE  PoolInv'
<1>1. PICK x : x = [workers[w] EXCEPT !.pc = pc, !.outcome = outcome]
  OBVIOUS
<1>2. workers[w] \in Worker /\ workers' = [workers EXCEPT ![w] = x]
  BY <1>1 DEF PoolInv
<1>3. /\ x \in Worker /\ x.pc = pc /\ x.job = workers[w].job
      /\ x.attempt = workers[w].attempt
  BY <1>1, <1>2 DEF Worker
<1>4. JobHeld(x) /\ ClientsOK'
  BY <1>3 DEF JobHeld, ClientsOK, PoolInv
<1>5. pc \in Unstarted => pc = "planning"
  BY DEF Unstarted
<1>6. QED
  BY <1>2, <1>3, <1>4, <1>5, WorkerMoves

LEMMA WorkerKeeps ==
    ASSUME PoolInv, IInv', NEW w \in Workers, WorkerStep(w)
    PROVE  PoolInv'
<1>1. workers[w] \in Worker /\ NoAttemptsYet /\ IInv
  BY DEF PoolInv
<1>2. PICK outcome \in {"none", "raised", "completed", "failed", "waiting_for_approval"} :
         /\ outcome = workers[w].outcome
         /\ \A pc : Goto(w, pc)
                => workers' = [workers EXCEPT ![w].pc = pc, ![w].outcome = outcome]
  BY <1>1 DEF Worker, Goto, PoolInv
<1>3. workers[w].pc \notin {"off", "polling"} => workers[w].job \in Jobs
  BY DEF PoolInv, JobHeld
<1>4. CASE ClaimMiss(w)
  <2>1. SameAttempts
    BY <1>1, <1>4, PolledClaimable, UncountedCall DEF ClaimMiss
  <2>2. CASE CallEnds(w)
    BY <1>4, <2>1, <2>2, EndsStep DEF ClaimMiss
  <2>3. ASSUME workers[w].tried + 1 < Len(Rotation),
               workers' = [workers EXCEPT ![w].tried = @ + 1]
        PROVE  PoolInv'
    <3>1. PICK x : x = [workers[w] EXCEPT !.tried = @ + 1]
      OBVIOUS
    <3>2. workers[w].tried + 1 \in 0..(Len(Rotation) - 1)
      <4>1. workers[w].tried \in Nat /\ Len(Rotation) \in Nat
        BY <1>1, PoolAssumption DEF Worker
      <4>2. QED
        BY <2>3, <4>1
    <3>3. /\ x \in Worker /\ x.pc = workers[w].pc /\ x.job = workers[w].job
          /\ x.attempt = workers[w].attempt
      BY <1>1, <3>1, <3>2 DEF Worker
    <3>4. workers' = [workers EXCEPT ![w] = x]
      BY <2>3, <3>1 DEF PoolInv
    <3>5. JobHeld(x) /\ ClientsOK' /\ starts' = starts
      BY <1>4, <3>3 DEF ClaimMiss, JobHeld, ClientsOK, PoolInv
    <3>6. QED
      BY <2>1, <3>3, <3>4, <3>5, WorkerMoves
  <2>4. QED
    BY <1>4, <2>2, <2>3 DEF ClaimMiss
<1>5. CASE Beat(w)
  <2>1. SameAttempts
    BY <1>1, <1>3, <1>5, UncountedCall DEF Beat
  <2>2. CASE CallEnds(w)
    BY <1>5, <2>1, <2>2, EndsStep DEF Beat
  <2>3. CASE Goto(w, "planning")
    <3>1. /\ workers[w].pc = "claimed" /\ UNCHANGED <<clients, starts>>
          /\ workers' = [workers EXCEPT ![w].pc = "planning", ![w].outcome = outcome]
      BY <1>2, <1>5, <2>3 DEF Beat
    <3>2. workers[w].pc \in Unstarted /\ workers[w].pc \notin {"off", "polling"}
      BY <3>1 DEF Unstarted
    <3>3. QED
      BY <2>1, <3>1, <3>2, OnwardStep
  <2>4. QED
    BY <1>5, <2>2, <2>3 DEF Beat
<1>6. CASE StartRun(w)
  <2>1. SameAttempts
    BY <1>1, <1>6, UncountedCall DEF StartRun, UpdateStatus
  <2>2. QED
    BY <1>2, <1>6, <2>1, OnwardStep, ZenonT(40) DEF StartRun, Unstarted
<1>7. CASE EndRun(w)
  <2>1. SameAttempts
    BY <1>1, <1>7, UncountedCall DEF EndRun, UpdateStatus
  <2>2. QED
    BY <1>7, <2>1, OnwardStep DEF EndRun
<1>8. CASE RaiseInRun(w)
  <2>1. SameAttempts
    BY <1>1, <1>8, UncountedCall DEF RaiseInRun
  <2>2. QED
    BY <1>8, <2>1, OnwardStep DEF RaiseInRun
<1>9. CASE SettleDone(w)
  <2>1. SameAttempts
    BY <1>1, <1>3, <1>9, UncountedCall DEF SettleDone
  <2>2. QED
    BY <1>9, <2>1, EndsStep DEF SettleDone
<1>10. CASE SettleFailed(w)
  <2>1. SameAttempts
    BY <1>1, <1>3, <1>10, UncountedCall DEF SettleFailed
  <2>2. CASE CallEnds(w)
    BY <1>10, <2>1, <2>2, EndsStep DEF SettleFailed
  <2>3. CASE Goto(w, "reporting")
    BY <1>2, <1>10, <2>1, <2>3, OnwardStep DEF SettleFailed
  <2>4. QED
    BY <1>10, <2>2, <2>3 DEF SettleFailed
<1>11. CASE ReportFailed(w)
  <2>1. SameAttempts
    BY <1>1, <1>11, UncountedCall DEF ReportFailed, UpdateStatus
  <2>2. QED
    BY <1>11, <2>1, EndsStep DEF ReportFailed
<1>12. QED
  BY <1>4, <1>5, <1>6, <1>7, <1>8, <1>9, <1>10, <1>11, ClaimHitStep DEF WorkerStep

\* A crash forgets the job, and a start still to be made with it.
LEMMA CrashKeeps ==
    ASSUME PoolInv, IInv', NEW w \in Workers, Crash(w)
    PROVE  PoolInv'
<1>1. SameAttempts
  BY UncountedCall DEF Crash, PoolInv
<1>2. PICK x : x = NewWorker("polling")
  OBVIOUS
<1>3. /\ x \in Worker /\ x.pc = "polling" /\ x.job = None
      /\ workers' = [workers EXCEPT ![w] = x]
  BY <1>2, CallEndsOK DEF Crash, NewWorker, PoolInv
<1>4. JobHeld(x) /\ ClientsOK' /\ starts' = starts /\ x.pc \notin Unstarted
  BY <1>3 DEF JobHeld, ClientsOK, Crash, PoolInv, Unstarted
<1>5. QED
  BY <1>1, <1>3, <1>4, WorkerMoves

\* Requests and the other endpoints.
LEMMA ClientKeeps ==
    ASSUME PoolInv, IInv', NEW c \in Clients, ClientStep(c)
    PROVE  PoolInv'
<1>1. clients[c] \in Client /\ NoAttemptsYet /\ IInv /\ ClientsOK /\ IdleClient \in Client
  BY DEF PoolInv, ClientsOK, Client, IdleClient
<1>2. SameAttempts
  <2>1. CASE Submit(c)
    BY <1>1, <2>1, PoolAssumption, UncountedCall DEF Submit, ClientsOK
  <2>2. CASE UNCHANGED jobs
    BY <1>1, <2>2, UncountedCall
  <2>3. QED
    BY <2>1, <2>2 DEF ClientStep, ReadRun, FindActive, MarkQueued, UpdateStatus
<1>3. PICK x : x = clients'[c]
  OBVIOUS
<1>4. /\ clients' = [clients EXCEPT ![c] = x]
      /\ x \in Client
      /\ x.pc # "idle" => x.run \in Runs
  <2>1. ASSUME NEW r \in Runs, ReadRun(c, r)
        PROVE  /\ clients' = [clients EXCEPT ![c] = x]
               /\ x = [pc |-> "fresh", run |-> r]
    BY <1>1, <1>3, <2>1 DEF ReadRun, ClientsOK
  <2>2. CASE FindActive(c)
    BY <1>1, <1>3, <2>2 DEF FindActive, ClientsOK, Client, IdleClient
  <2>3. CASE Submit(c)
    BY <1>1, <1>3, <2>3 DEF Submit, ClientsOK, Client
  <2>4. CASE MarkQueued(c)
    BY <1>1, <1>3, <2>4 DEF MarkQueued, ClientsOK, Client, IdleClient
  <2>5. QED
    BY <2>1, <2>2, <2>3, <2>4 DEF ClientStep, Client
<1>5. ClientsOK' /\ starts' = starts
  <2>1. ClientsOK'
    BY <1>1, <1>4 DEF ClientsOK
  <2>2. QED
    BY <2>1 DEF ClientStep, ReadRun, FindActive, Submit, MarkQueued
<1>6. CASE workers' = workers
  BY <1>2, <1>5, <1>6, WorkersRest
<1>7. ASSUME NEW w \in Workers, workers[w].pc = "off",
             workers' = [workers EXCEPT ![w] = NewWorker("polling")]
      PROVE  PoolInv'
  <2>1. PICK y : y = NewWorker("polling")
    OBVIOUS
  <2>2. /\ y \in Worker /\ y.pc = "polling" /\ y.job = None
        /\ workers' = [workers EXCEPT ![w] = y]
    BY <1>7, <2>1, CallEndsOK DEF NewWorker, PoolInv
  <2>3. JobHeld(y) /\ y.pc \notin Unstarted
    BY <2>2 DEF JobHeld, Unstarted
  <2>4. QED
    BY <1>2, <1>5, <2>2, <2>3, WorkerMoves
<1>8. QED
  BY <1>6, <1>7 DEF ClientStep, ReadRun, FindActive, Submit, MarkQueued

LEMMA OperateKeeps ==
    ASSUME PoolInv, IInv', Operate \/ PoolExpire
    PROVE  PoolInv'
<1>1. IInv /\ NoAttemptsYet /\ UNCHANGED <<workers, clients, starts>>
  BY DEF PoolInv, Operate, PoolExpire, pool
<1>2. SameAttempts
  <2>1. ASSUME NEW r \in Runs, NEW j \in Jobs, NEW wf \in Claimable \ {Dynamic},
               NEW max \in Budgets, Enqueue(j, r, [wf |-> wf, max |-> max])
        PROVE  SameAttempts
    <3>1. [wf |-> wf, max |-> max] \in Submissions
      BY PoolAssumption
    <3>2. QED
      BY <1>1, <2>1, <3>1, UncountedCall
  <2>2. CASE UNCHANGED jobs
    BY <1>1, <2>2, UncountedCall
  <2>3. CASE \E j \in Jobs : RetryDeadLetter(j) \/ DismissDeadLetter(j) \/ Expire(j)
    BY <1>1, <2>3, UncountedCall
  <2>4. QED
    BY <2>1, <2>2, <2>3 DEF Operate, PoolExpire, CreateRun
<1>3. ClientsOK'
  BY <1>1 DEF PoolInv, ClientsOK
<1>4. QED
  BY <1>1, <1>2, <1>3, WorkersRest

LEMMA PoolKeeps == ASSUME PoolInv, [PoolNext]_poolvars PROVE PoolInv'
<1>1. IInv'
  BY StoreStep, StepKeeps DEF PoolInv
<1>2. CASE UNCHANGED poolvars
  <2>1. UNCHANGED <<workers, starts>> /\ UNCHANGED jobs /\ ClientsOK'
    BY <1>2 DEF poolvars, PoolInv, ClientsOK
  <2>2. SameAttempts
    BY <2>1, UncountedCall DEF PoolInv
  <2>3. QED
    BY <1>1, <2>1, <2>2, WorkersRest
<1>3. QED
  BY <1>1, <1>2, WorkerKeeps, CrashKeeps, ClientKeeps, OperateKeeps DEF PoolNext

LEMMA PoolStarts == ASSUME PoolInit PROVE PoolInv
<1>1. IInv /\ jobs = [j \in Jobs |-> Absent]
  BY InitKeeps DEF PoolInit, Init
<1>2. PICK x : x = NewWorker(IF looping THEN "polling" ELSE "off")
  OBVIOUS
<1>3. x \in Worker /\ x.pc \in {"off", "polling"} /\ x.job = None
  <2>1. 0 \in 0..(Len(Rotation) - 1)
    <3>1. PICK i \in 1..Len(Rotation) : Rotation[i] = Dynamic
      BY PoolAssumption
    <3>2. Len(Rotation) \in Nat
      BY PoolAssumption
    <3>3. QED
      BY <3>1, <3>2
  <2>2. QED
    BY <1>2, <2>1 DEF NewWorker, Worker
<1>4. workers = [w \in Workers |-> x]
  BY <1>2 DEF PoolInit
<1>5. /\ clients \in [Clients -> Client] /\ starts = [j \in Jobs |-> 0]
      /\ \A c \in Clients : clients[c].pc = "idle"
  BY DEF PoolInit, IdleClient, Client
<1>6. NoAttemptsYet /\ \A j \in Jobs : jobs[j].attempts = 0
  BY <1>1 DEF NoAttemptsYet, Absent
<1>7. OwnerHoldsCurrentAttempt
  BY <1>1 DEF OwnerHoldsCurrentAttempt, Owns, Absent
<1>8. ASSUME NEW j \in Jobs
      PROVE  StartsCounted(j)
  <2>1. Pending(j) = {}
    BY <1>3, <1>4 DEF Pending, Unstarted
  <2>2. IsFiniteSet(Pending(j)) /\ Cardinality(Pending(j)) = 0
    BY <2>1, FS_EmptySet
  <2>3. QED
    BY <1>5, <1>6, <2>2 DEF StartsCounted
<1>9. QED
  BY <1>1, <1>3, <1>4, <1>5, <1>6, <1>7, <1>8 DEF PoolInv, JobHeld

LEMMA PoolInvariance == PoolSpec => []PoolInv
BY PoolStarts, PoolKeeps, PTL DEF PoolSpec

\* Whatever workers, clients and operators do together is a behaviour of the
\* repository as JobStore has it, where anybody may call anything: so all that
\* is proved of JobStore holds of the pool (worker.py and runs.py go through
\* the repository's methods only).
THEOREM PoolUsesStore == PoolSpec => Spec
<1>1. PoolInit => Init
  BY DEF PoolInit
<1>2. QED
  BY <1>1, PoolInvariance, StoreStep, PTL DEF PoolSpec, Spec

\* The fence by worker ids fences attempts, and no job is executed more often
\* than it was granted attempts and manual retries
\* (_ensure_job_owned_by_worker, claim_next_workflow_job, process_next_job).
THEOREM AttemptsFencedHolds == PoolSpec => []AttemptsFenced
<1>1. ASSUME PoolInv
      PROVE  AttemptsFenced
  <2>1. ASSUME NEW j \in Jobs
        PROVE  starts[j] <= jobs[j].granted + jobs[j].manual
    <3>1. /\ jobs[j].attempts <= jobs[j].max
          /\ jobs[j].max <= jobs[j].granted + jobs[j].manual
          /\ jobs[j].attempts \in Nat /\ jobs[j].max \in Nat
          /\ jobs[j].granted \in Nat /\ jobs[j].manual \in Nat
      BY <1>1, IInvByJob DEF PoolInv, WellFormed, BudgetOK, JobRecord
    <3>2. PICK n \in Nat : starts[j] + n <= jobs[j].attempts
      BY <1>1, FS_CardinalityType DEF PoolInv, StartsCounted
    <3>3. starts[j] \in Nat
      BY <1>1 DEF PoolInv
    <3>4. QED
      BY <3>1, <3>2, <3>3
  <2>2. QED
    BY <1>1, <2>1 DEF PoolInv, AttemptsFenced, StartsGranted
<1>2. QED
  BY <1>1, PoolInvariance, PTL

\* A step that completes a running job is the settling step of the worker that
\* executes the very attempt on record: no timeout, crash, retry or request
\* does, and no worker whose attempt is gone (_process_claimed_job).
SettledHere(j) ==
    jobs[j].status = "running" /\ jobs'[j].status = "completed"
    => \E w \in Workers :
          /\ workers[w].pc = "settling" /\ workers[w].job = j
          /\ workers[w].attempt = jobs[j].attempts
          /\ workers[w].outcome # "raised"

THEOREM SettledByItsWorkerHolds == PoolSpec => SettledByItsWorker
<1>1. ASSUME PoolInv, PoolNext, NEW j \in Jobs,
             jobs[j].status = "running", jobs'[j].status = "completed"
      PROVE  SettledHere(j)
  <2>1. /\ jobs \in [Jobs -> JobRecord]
        /\ \A job \in JobRecord : \A retry \in BOOLEAN :
              Lost(job, retry).status \in {"queued", "dead_letter"}
    BY <1>1, IInvByJob DEF PoolInv, Lost, JobRecord
  <2>2. \A wf : /\ Recovered(wf) \in [Jobs -> JobRecord]
                /\ Recovered(wf)[j].status # "completed"
    BY <1>1, <2>1, RecoveryKept DEF Recovered, PoolInv
  <2>3. ASSUME NEW w \in Workers, WorkerStep(w)
        PROVE  SettleDone(w)
    <3>1. ~ClaimHit(w)
      <4>1. ASSUME NEW k \in Jobs, NEW wf, ClaimNext(w, wf, k)
            PROVE  FALSE
        <5>1. jobs'[j] = IF j = k THEN Claimed(Recovered(wf)[k], w) ELSE Recovered(wf)[j]
          BY <2>2, <4>1 DEF ClaimNext
        <5>2. Claimed(Recovered(wf)[k], w).status = "running"
          BY <2>2 DEF Claimed, JobRecord
        <5>3. QED
          BY <1>1, <2>2, <5>1, <5>2
      <4>2. QED
        BY <4>1 DEF ClaimHit
    <3>2. ~ClaimMiss(w)
      BY <1>1, <2>2 DEF ClaimMiss, ClaimNothing
    <3>3. ~Beat(w)
      <4>1. ASSUME NEW k, Heartbeat(w, k)
            PROVE  jobs'[j].status = jobs[j].status
        <5>1. CASE k = j
          BY <2>1, <4>1, <5>1 DEF Heartbeat, JobRecord
        <5>2. CASE k # j
          BY <2>1, <4>1, <5>2 DEF Heartbeat
        <5>3. QED
          BY <5>1, <5>2
      <4>2. QED
        BY <1>1, <4>1 DEF Beat
    <3>4. ~StartRun(w) /\ ~EndRun(w) /\ ~RaiseInRun(w) /\ ~ReportFailed(w)
      BY <1>1 DEF StartRun, EndRun, RaiseInRun, ReportFailed, UpdateStatus
    <3>5. ~SettleFailed(w)
      <4>1. ASSUME NEW k, NEW retry \in BOOLEAN, Fail(w, k, retry)
            PROVE  FALSE
        BY <1>1, <2>1, <4>1 DEF Fail, Owns
      <4>2. QED
        BY <1>1, <4>1 DEF SettleFailed
    <3>6. QED
      BY <2>3, <3>1, <3>2, <3>3, <3>4, <3>5 DEF WorkerStep
  <2>4. ASSUME NEW w \in Workers, SettleDone(w)
        PROVE  SettledHere(j)
    <3>1. Owns(w, workers[w].job) /\ Complete(w, workers[w].job) /\ workers[w].job = j
      BY <1>1, <2>1, <2>4 DEF SettleDone, Complete
    <3>2. workers[w].attempt = jobs[j].attempts
      BY <1>1, <3>1 DEF PoolInv, OwnerHoldsCurrentAttempt
    <3>3. QED
      BY <2>4, <3>1, <3>2 DEF SettledHere, SettleDone
  <2>5. \A w \in Workers : ~Crash(w)
    BY <1>1 DEF Crash
  <2>6. \A c \in Clients : ~ClientStep(c)
    <3>1. ASSUME NEW c \in Clients, Submit(c)
          PROVE  FALSE
      BY <1>1, <2>1, <3>1 DEF Submit, Enqueue, Present
    <3>2. QED
      BY <1>1, <3>1 DEF ClientStep, ReadRun, FindActive, MarkQueued, UpdateStatus
  <2>7. ~Operate
    <3>1. ASSUME NEW k \in Jobs, NEW r, NEW sub, Enqueue(k, r, sub)
          PROVE  FALSE
      BY <1>1, <2>1, <3>1 DEF Enqueue, Present
    <3>2. ASSUME NEW k \in Jobs, RetryDeadLetter(k) \/ DismissDeadLetter(k)
          PROVE  FALSE
      BY <1>1, <2>1, <3>2 DEF RetryDeadLetter, DismissDeadLetter
    <3>3. QED
      BY <1>1, <3>1, <3>2 DEF Operate, CreateRun
  <2>8. ~PoolExpire
    BY <1>1, <2>1, ZenonT(40) DEF PoolExpire, Expire, JobRecord
  <2>9. QED
    BY <1>1, <2>3, <2>4, <2>5, <2>6, <2>7, <2>8 DEF PoolNext
<1>2. ASSUME PoolInv, [PoolNext]_poolvars
      PROVE  [\A j \in Jobs : SettledHere(j)]_poolvars
  BY <1>1, <1>2 DEF SettledHere
<1>3. QED
  BY <1>2, PoolInvariance, PTL DEF PoolSpec, SettledByItsWorker, SettledHere

(***************************************************************************)
(* That no queue starves.  The distance of a position of the rotation is   *)
(* the number of calls until a worker begins with it; from it follows how  *)
(* many claims a worker can have made since it last looked there.          *)
(***************************************************************************)
Distance(turn, i) ==
    IF i - 1 >= turn THEN i - 1 - turn ELSE i - 1 - turn + Len(Rotation)

Allowance(x, i) ==
    IF x.pc = "polling"
    THEN IF Distance(x.turn, i) < x.tried THEN 0
         ELSE Len(Rotation) - Distance(x.turn, i)
    ELSE IF Distance(x.turn, i) = 0 THEN 1
         ELSE Len(Rotation) - Distance(x.turn, i) + 1

Patient(x, p) ==
    x.pc # "off" /\ \A i \in 1..Len(Rotation) : p[Rotation[i]] <= Allowance(x, i)

TurnsInv ==
    /\ looping \in BOOLEAN
    /\ passed \in [Workers -> [Claimable -> Nat]]
    /\ looping => \A w \in Workers : Patient(workers[w], passed[w])

LEMMA RotationNames ==
    Len(Rotation) \in Nat /\ \A i \in 1..Len(Rotation) : Rotation[i] \in Claimable
BY PoolAssumption

\* What the remainder is for the sums a worker computes.
Wrapped(a, n) == a % n

LEMMA Remainder ==
    \A n \in Nat \ {0}, a \in Nat :
        a < n + n => Wrapped(a, n) = IF a < n THEN a ELSE a - n
<1>1. ASSUME NEW n \in Nat \ {0}, NEW a \in Nat, a < n + n
      PROVE  a % n = IF a < n THEN a ELSE a - n
  <2>1. CASE a < n
    BY <2>1
  <2>2. CASE a >= n
    BY <1>1, <2>2
  <2>3. QED
    BY <2>1, <2>2
<1>2. QED
  BY <1>1 DEF Wrapped

\* The first name of the next call, and the name a worker looks at now: the
\* one whose distance is the number of names it has tried.
LEMMA TurnMoves ==
    ASSUME NEW w \in Workers, workers[w] \in Worker, NEW i \in 1..Len(Rotation)
    PROVE  /\ Distance(workers[w].turn, i) \in 0..(Len(Rotation) - 1)
           /\ Distance(NextTurn(w), i) =
                 IF Distance(workers[w].turn, i) = 0 THEN Len(Rotation) - 1
                 ELSE Distance(workers[w].turn, i) - 1
           /\ Distance(workers[w].turn, i) = workers[w].tried
              => Polled(w) = Rotation[i]
<1>1. PICK n \in Nat, turn \in Nat, tried \in Nat :
         /\ n = Len(Rotation) /\ turn = workers[w].turn /\ tried = workers[w].tried
         /\ n > 0 /\ turn < n /\ tried < n
  <2>1. /\ workers[w].turn \in 0..(Len(Rotation) - 1)
        /\ workers[w].tried \in 0..(Len(Rotation) - 1)
    BY DEF Worker
  <2>2. Len(Rotation) \in Nat
    BY PoolAssumption
  <2>3. QED
    BY <2>1, <2>2
<1>2. NextTurn(w) = IF turn + 1 < n THEN turn + 1 ELSE 0
  <2>1. n \in Nat \ {0} /\ turn + 1 \in Nat /\ turn + 1 < n + n
    BY <1>1
  <2>2. Wrapped(turn + 1, n) = IF turn + 1 < n THEN turn + 1 ELSE turn + 1 - n
    BY ONLY Remainder, <2>1
  <2>3. NextTurn(w) = Wrapped(turn + 1, n)
    BY <1>1 DEF NextTurn, Wrapped
  <2>4. QED
    BY <1>1, <2>2, <2>3
<1>3. Polled(w) = Rotation[(IF turn + tried < n THEN turn + tried
                            ELSE turn + tried - n) + 1]
  <2>1. n \in Nat \ {0} /\ turn + tried \in Nat /\ turn + tried < n + n
    BY <1>1
  <2>2. Wrapped(turn + tried, n) = IF turn + tried < n THEN turn + tried
                                   ELSE turn + tried - n
    BY Remainder, <2>1
  <2>3. Polled(w) = Rotation[Wrapped(turn + tried, n) + 1]
    BY <1>1 DEF Polled, Wrapped
  <2>4. QED
    BY <2>2, <2>3
<1>4. i \in 1..n /\ Distance(turn, i) = IF i - 1 >= turn THEN i - 1 - turn
                                        ELSE i - 1 - turn + n
  BY <1>1 DEF Distance
<1>5. PICK next \in Nat : next = IF turn + 1 < n THEN turn + 1 ELSE 0
  BY <1>1
<1>6. /\ Distance(turn, i) \in 0..(n - 1)
      /\ Distance(next, i) = IF Distance(turn, i) = 0 THEN n - 1
                             ELSE Distance(turn, i) - 1
  <2>1. Distance(next, i) = IF i - 1 >= next THEN i - 1 - next ELSE i - 1 - next + n
    BY ONLY <1>1 DEF Distance
  <2>2. PICK d \in Int :
           d = IF i - 1 >= turn THEN i - 1 - turn ELSE i - 1 - turn + n
    BY <1>1, <1>4
  <2>3. PICK e \in Int :
           e = IF i - 1 >= next THEN i - 1 - next ELSE i - 1 - next + n
    BY <1>1, <1>4, <1>5, SMTT(30)
  <2>4. d \in 0..(n - 1) /\ e = IF d = 0 THEN n - 1 ELSE d - 1
    <3>1. n \in Nat /\ turn \in Nat /\ next \in Nat /\ i \in 1..n /\ turn < n
      BY <1>1, <1>4, <1>5
    <3>2. CASE turn + 1 < n
      BY <1>5, <2>2, <2>3, <3>1, <3>2
    <3>3. CASE ~(turn + 1 < n)
      BY <1>5, <2>2, <2>3, <3>1, <3>3
    <3>4. QED
      BY <3>2, <3>3
  <2>5. Distance(turn, i) = d /\ Distance(next, i) = e
    BY <1>4, <2>1, <2>2, <2>3
  <2>6. QED
    BY <2>4, <2>5
<1>7. ASSUME Distance(turn, i) = tried
      PROVE  Polled(w) = Rotation[i]
  <2>1. (IF turn + tried < n THEN turn + tried ELSE turn + tried - n) + 1 = i
    BY <1>4, <1>7
  <2>2. QED
    BY <1>3, <2>1
<1>8. QED
  BY <1>1, <1>2, <1>5, <1>6, <1>7

\* A call that has claimed or has looked everywhere ends, and the next one
\* begins at the next name.
LEMMA CallPatient ==
    ASSUME NEW w \in Workers, workers[w] \in Worker,
           NEW p \in [Claimable -> Nat], Patient(workers[w], p),
           workers[w].pc # "polling",
           NEW x, x = [NewWorker("polling") EXCEPT !.turn = NextTurn(w)]
    PROVE  Patient(x, p)
<1>1. x.pc = "polling" /\ x.turn = NextTurn(w) /\ x.tried = 0
  BY DEF NewWorker
<1>2. ASSUME NEW i \in 1..Len(Rotation)
      PROVE  p[Rotation[i]] <= Allowance(x, i)
  <2>1. PICK n \in Nat, k \in Nat, d \in Nat :
           /\ n = Len(Rotation) /\ k = p[Rotation[i]]
           /\ d = Distance(workers[w].turn, i) /\ d < n
    <3>1. Distance(workers[w].turn, i) \in 0..(Len(Rotation) - 1)
      BY TurnMoves
    <3>2. Len(Rotation) \in Nat /\ Rotation[i] \in Claimable
      BY RotationNames
    <3>3. PICK n \in Nat : n = Len(Rotation)
      BY <3>2
    <3>4. PICK d \in 0..(n - 1) : d = Distance(workers[w].turn, i)
      BY <3>1, <3>3
    <3>5. d \in Nat /\ d < n
      BY <3>4
    <3>6. p[Rotation[i]] \in Nat
      BY <3>2
    <3>7. QED
      BY <3>3, <3>4, <3>5, <3>6
  <2>2. Distance(x.turn, i) = IF d = 0 THEN n - 1 ELSE d - 1
    BY TurnMoves, <1>1, <2>1
  <2>3. k <= IF d = 0 THEN 1 ELSE n - d + 1
    BY <2>1 DEF Patient, Allowance
  <2>4. Allowance(x, i) = n - Distance(x.turn, i)
    BY <1>1, <2>1, <2>2 DEF Allowance
  <2>5. QED
    BY <2>1, <2>2, <2>3, <2>4
<1>3. QED
  BY <1>1, <1>2 DEF Patient

\* One worker moves, and the others' turns stay as they were.
LEMMA TurnsMove ==
    ASSUME PoolInv, TurnsInv, NEW w \in Workers, NEW x, NEW p \in [Claimable -> Nat],
           looping => Patient(x, p), workers' = [workers EXCEPT ![w] = x],
           passed' = [passed EXCEPT ![w] = p], UNCHANGED looping
    PROVE  TurnsInv'
<1>1. \A v \in Workers : /\ workers'[v] = IF v = w THEN x ELSE workers[v]
                         /\ passed'[v] = IF v = w THEN p ELSE passed[v]
  BY DEF PoolInv, TurnsInv
<1>2. passed' \in [Workers -> [Claimable -> Nat]]
  BY DEF TurnsInv
<1>3. ASSUME looping, NEW v \in Workers
      PROVE  Patient(workers'[v], passed'[v])
  BY <1>1, <1>3 DEF TurnsInv
<1>4. QED
  BY <1>2, <1>3 DEF TurnsInv

\* A step inside a call that claims nothing.
LEMMA TurnsOnward ==
    ASSUME PoolInv, TurnsInv, NEW w \in Workers, NEW x, UNCHANGED <<looping, passed>>,
           workers[w].pc # "polling", x.pc \notin {"off", "polling"},
           x.turn = workers[w].turn, workers' = [workers EXCEPT ![w] = x]
    PROVE  TurnsInv'
<1>1. looping => Patient(x, passed[w])
  BY DEF TurnsInv, Patient, Allowance
<1>2. passed[w] \in [Claimable -> Nat] /\ passed' = [passed EXCEPT ![w] = passed[w]]
  BY DEF TurnsInv
<1>3. QED
  BY <1>1, <1>2, TurnsMove

\* A call that ends after a claim.
LEMMA TurnsEnd ==
    ASSUME PoolInv, TurnsInv, NEW w \in Workers, UNCHANGED <<looping, passed>>,
           workers[w].pc # "polling", CallEnds(w)
    PROVE  TurnsInv'
<1>1. PICK x : x = IF looping THEN [NewWorker("polling") EXCEPT !.turn = NextTurn(w)]
                   ELSE NewWorker("off")
  OBVIOUS
<1>2. passed[w] \in [Claimable -> Nat] /\ passed' = [passed EXCEPT ![w] = passed[w]]
  BY DEF TurnsInv
<1>3. workers[w] \in Worker /\ workers' = [workers EXCEPT ![w] = x]
  BY <1>1 DEF PoolInv, CallEnds
<1>4. looping => Patient(x, passed[w])
  BY <1>1, <1>2, <1>3, CallPatient DEF TurnsInv
<1>5. QED
  BY <1>2, <1>3, <1>4, TurnsMove

\* A claim: the names tried in vain were looked at just now, and of the others
\* the worker has one claim more.
LEMMA TurnsHit ==
    ASSUME PoolInv, TurnsInv, NEW w \in Workers, ClaimHit(w), UNCHANGED looping
    PROVE  TurnsInv'
<1>1. PICK j : workers' = [workers EXCEPT ![w].pc = "claimed", ![w].job = j,
                                          ![w].attempt = jobs'[j].attempts]
  BY DEF ClaimHit
<1>2. PICK x : x = [workers[w] EXCEPT !.pc = "claimed", !.job = j,
                                     !.attempt = jobs'[j].attempts]
  OBVIOUS
<1>3. PICK p : p = [wf \in Claimable |-> IF wf = Polled(w) THEN 0
                                         ELSE passed[w][wf] + 1]
  OBVIOUS
<1>4. /\ workers[w] \in Worker /\ workers[w].pc = "polling"
      /\ x.pc = "claimed" /\ x.turn = workers[w].turn
      /\ workers' = [workers EXCEPT ![w] = x]
  <2>1. workers[w] \in Worker /\ workers[w].pc = "polling"
    BY DEF PoolInv, ClaimHit
  <2>2. x.pc = "claimed" /\ x.turn = workers[w].turn
    BY <1>2, <2>1 DEF Worker
  <2>3. QED
    BY <1>1, <1>2, <2>1, <2>2
<1>5. /\ passed[w] \in [Claimable -> Nat] /\ p \in [Claimable -> Nat]
      /\ passed' = [passed EXCEPT ![w] = p]
  BY <1>3 DEF TurnsInv, ClaimHit
<1>6. ASSUME looping, NEW i \in 1..Len(Rotation)
      PROVE  p[Rotation[i]] <= Allowance(x, i)
  <2>1. PICK n \in Nat : n = Len(Rotation) /\ Rotation[i] \in Claimable
    BY RotationNames
  <2>2. PICK d \in 0..(n - 1) : d = Distance(workers[w].turn, i)
    BY <1>4, <2>1, TurnMoves
  <2>3. PICK tried \in Nat : tried = workers[w].tried /\ tried < n
    <3>1. workers[w].tried \in 0..(Len(Rotation) - 1)
      BY <1>4 DEF Worker
    <3>2. QED
      BY <2>1, <3>1
  <2>4. PICK k \in Nat : k = passed[w][Rotation[i]]
    BY <1>5, <2>1
  <2>5. k <= IF d < tried THEN 0 ELSE n - d
    BY <1>4, <1>6, <2>1, <2>2, <2>3, <2>4 DEF TurnsInv, Patient, Allowance
  <2>6. Allowance(x, i) = IF d = 0 THEN 1 ELSE n - d + 1
    BY <1>4, <2>1, <2>2 DEF Allowance
  <2>7. d \in Nat /\ d < n
    BY <2>1, <2>2
  <2>8. CASE d = tried
    <3>1. p[Rotation[i]] = 0
      BY <1>3, <1>4, <2>1, <2>2, <2>3, <2>8, TurnMoves
    <3>2. QED
      BY <2>1, <2>6, <2>7, <3>1
  <2>9. CASE d # tried
    <3>1. p[Rotation[i]] \in {0, k + 1}
      BY <1>3, <2>1, <2>4
    <3>2. k + 1 <= IF d = 0 THEN 1 ELSE n - d + 1
      BY <2>1, <2>3, <2>4, <2>5, <2>7, <2>9
    <3>3. QED
      BY <2>1, <2>4, <2>6, <2>7, <3>1, <3>2
  <2>10. QED
    BY <2>8, <2>9
<1>7. looping => Patient(x, p)
  BY <1>4, <1>6 DEF Patient
<1>8. QED
  BY <1>4, <1>5, <1>7, TurnsMove

\* A queue with nothing to claim has been looked into.
LEMMA TurnsMiss ==
    ASSUME PoolInv, TurnsInv, NEW w \in Workers, ClaimMiss(w), UNCHANGED looping
    PROVE  TurnsInv'
<1>1. /\ workers[w] \in Worker /\ workers[w].pc = "polling"
      /\ Polled(w) \in Claimable
  BY PolledClaimable DEF PoolInv, ClaimMiss
<1>2. PICK p : p = [passed[w] EXCEPT ![Polled(w)] = 0]
  OBVIOUS
<1>3. /\ passed[w] \in [Claimable -> Nat] /\ p \in [Claimable -> Nat]
      /\ passed' = [passed EXCEPT ![w] = p]
      /\ \A wf \in Claimable : p[wf] = IF wf = Polled(w) THEN 0 ELSE passed[w][wf]
  BY <1>1, <1>2 DEF TurnsInv, ClaimMiss
<1>4. PICK n \in Nat, tried \in Nat :
         n = Len(Rotation) /\ tried = workers[w].tried /\ tried < n
  <2>1. workers[w].tried \in 0..(Len(Rotation) - 1)
    BY <1>1 DEF Worker
  <2>2. QED
    BY <2>1, RotationNames
<1>5. ASSUME looping, NEW i \in 1..Len(Rotation)
      PROVE  \E d \in Nat : /\ d = Distance(workers[w].turn, i) /\ d < n
                            /\ d <= tried => p[Rotation[i]] = 0
                            /\ p[Rotation[i]] <= n - d
  <2>1. Rotation[i] \in Claimable
    BY RotationNames
  <2>2. PICK d \in 0..(n - 1) : d = Distance(workers[w].turn, i)
    BY <1>1, <1>4, TurnMoves
  <2>3. PICK k \in Nat : k = passed[w][Rotation[i]]
    BY <1>3, <2>1
  <2>4. k <= IF d < tried THEN 0 ELSE n - d
    BY <1>1, <1>4, <1>5, <2>2, <2>3 DEF TurnsInv, Patient, Allowance
  <2>5. d \in Nat /\ d < n
    BY <1>4, <2>2
  <2>6. CASE d = tried
    <3>1. p[Rotation[i]] = 0
      BY <1>1, <1>3, <1>4, <2>1, <2>2, <2>6, TurnMoves, ZenonT(40)
    <3>2. QED
      BY <1>4, <2>2, <2>5, <3>1
  <2>7. CASE d # tried
    <3>1. p[Rotation[i]] \in {0, k}
      BY <1>3, <2>1, <2>3
    <3>2. (d <= tried => k = 0) /\ k <= n - d
      BY <1>4, <2>3, <2>4, <2>5, <2>7
    <3>3. QED
      BY <1>4, <2>2, <2>3, <2>5, <3>1, <3>2
  <2>8. QED
    BY <2>6, <2>7
<1>6. CASE workers[w].tried + 1 < Len(Rotation)
  <2>1. PICK x : x = [workers[w] EXCEPT !.tried = @ + 1]
    OBVIOUS
  <2>2. /\ x.pc = "polling" /\ x.turn = workers[w].turn /\ x.tried = tried + 1
        /\ workers' = [workers EXCEPT ![w] = x]
    <3>1. x.pc = "polling" /\ x.turn = workers[w].turn /\ x.tried = tried + 1
      BY <1>1, <1>4, <2>1 DEF Worker
    <3>2. workers' = [workers EXCEPT ![w] = x]
      BY <1>6, <2>1 DEF ClaimMiss
    <3>3. QED
      BY <3>1, <3>2
  <2>3. ASSUME looping, NEW i \in 1..Len(Rotation)
        PROVE  p[Rotation[i]] <= Allowance(x, i)
    <3>1. PICK d \in Nat : /\ d = Distance(workers[w].turn, i) /\ d < n
                           /\ d <= tried => p[Rotation[i]] = 0
                           /\ p[Rotation[i]] <= n - d
      BY <1>5, <2>3
    <3>2. Allowance(x, i) = IF d < tried + 1 THEN 0 ELSE n - d
      BY <1>4, <2>2, <3>1 DEF Allowance
    <3>3. CASE d < tried + 1
      BY <1>4, <3>1, <3>2, <3>3
    <3>4. CASE ~(d < tried + 1)
      BY <1>4, <3>1, <3>2, <3>4
    <3>5. QED
      BY <3>3, <3>4
  <2>4. looping => Patient(x, p)
    BY <2>2, <2>3 DEF Patient
  <2>5. QED
    BY <1>3, <2>2, <2>4, TurnsMove
<1>7. CASE ~(workers[w].tried + 1 < Len(Rotation))
  <2>1. PICK x : x = IF looping THEN [NewWorker("polling") EXCEPT !.turn = NextTurn(w)]
                     ELSE NewWorker("off")
    OBVIOUS
  <2>2. workers' = [workers EXCEPT ![w] = x]
    BY <1>7, <2>1 DEF ClaimMiss, CallEnds
  <2>3. ASSUME looping
        PROVE  x.pc = "polling" /\ x.turn = NextTurn(w) /\ x.tried = 0
    BY <2>1, <2>3 DEF NewWorker
  <2>4. ASSUME looping, NEW i \in 1..Len(Rotation)
        PROVE  p[Rotation[i]] <= Allowance(x, i)
    <3>1. PICK d \in Nat : /\ d = Distance(workers[w].turn, i) /\ d < n
                           /\ d <= tried => p[Rotation[i]] = 0
      BY <1>5, <2>4
    <3>2. p[Rotation[i]] = 0
      BY <1>4, <1>7, <3>1
    <3>3. PICK e \in Nat : e = Distance(x.turn, i) /\ e < n
      <4>1. Distance(x.turn, i) = IF d = 0 THEN n - 1 ELSE d - 1
        BY <1>1, <1>4, <2>3, <2>4, <3>1, TurnMoves
      <4>2. n \in Nat /\ d < n
        BY <1>4, <3>1
      <4>3. CASE d = 0
        <5>1. n - 1 \in Nat /\ n - 1 < n
          BY <4>2, <4>3
        <5>2. QED
          BY <4>1, <4>3, <5>1
      <4>4. CASE d # 0
        <5>1. d - 1 \in Nat /\ d - 1 < n
          BY <4>2, <4>4
        <5>2. QED
          BY <4>1, <4>4, <5>1
      <4>5. QED
        BY <4>3, <4>4
    <3>4. Allowance(x, i) = n - e
      BY <1>4, <2>3, <2>4, <3>3 DEF Allowance
    <3>5. QED
      BY <1>4, <3>2, <3>3, <3>4
  <2>5. looping => Patient(x, p)
    BY <2>3, <2>4 DEF Patient
  <2>6. QED
    BY <1>3, <2>2, <2>5, TurnsMove
<1>8. QED
  BY <1>6, <1>7

LEMMA TurnsStarts == ASSUME PoolInit PROVE TurnsInv
<1>1. passed = [w \in Workers |-> [wf \in Claimable |-> 0]] /\ looping \in BOOLEAN
  BY PoolAssumption DEF PoolInit
<1>2. ASSUME looping, NEW w \in Workers
      PROVE  Patient(workers[w], passed[w])
  <2>1. workers[w].pc = "polling" /\ workers[w].turn = 0 /\ workers[w].tried = 0
    BY <1>2 DEF PoolInit, NewWorker
  <2>2. ASSUME NEW i \in 1..Len(Rotation)
        PROVE  passed[w][Rotation[i]] <= Allowance(workers[w], i)
    <3>1. PICK n \in Nat : n = Len(Rotation) /\ Rotation[i] \in Claimable
      BY RotationNames
    <3>2. i \in 1..n /\ passed[w][Rotation[i]] = 0
      BY <1>1, <3>1
    <3>3. Distance(0, i) = i - 1
      BY <3>2 DEF Distance
    <3>4. Allowance(workers[w], i) = n - (i - 1)
      BY <2>1, <3>1, <3>2, <3>3 DEF Allowance
    <3>5. QED
      BY <3>1, <3>2, <3>4
  <2>3. QED
    BY <2>1, <2>2 DEF Patient
<1>3. QED
  BY <1>1, <1>2 DEF TurnsInv

\* A worker that starts again has no claims to its name.
LEMMA TurnsCrash ==
    ASSUME PoolInv, TurnsInv, NEW w \in Workers, Crash(w)
    PROVE  TurnsInv'
<1>1. PICK x, p : x = NewWorker("polling") /\ p = [wf \in Claimable |-> 0]
  OBVIOUS
<1>2. /\ p \in [Claimable -> Nat] /\ passed' = [passed EXCEPT ![w] = p]
      /\ workers' = [workers EXCEPT ![w] = x] /\ UNCHANGED looping
  BY <1>1 DEF Crash
<1>3. x.pc = "polling" /\ x.turn = 0 /\ x.tried = 0
  BY <1>1 DEF NewWorker
<1>4. ASSUME NEW i \in 1..Len(Rotation)
      PROVE  p[Rotation[i]] <= Allowance(x, i)
  <2>1. PICK n \in Nat : n = Len(Rotation) /\ Rotation[i] \in Claimable
    BY RotationNames
  <2>2. i \in 1..n /\ p[Rotation[i]] = 0
    BY <1>1, <2>1
  <2>3. Distance(0, i) = i - 1
    BY <2>2 DEF Distance
  <2>4. Allowance(x, i) = n - (i - 1)
    BY <1>3, <2>1, <2>2, <2>3 DEF Allowance
  <2>5. QED
    BY <2>1, <2>2, <2>4
<1>5. Patient(x, p)
  BY <1>3, <1>4 DEF Patient
<1>6. QED
  BY <1>2, <1>5, TurnsMove

LEMMA TurnsWorker ==
    ASSUME PoolInv, TurnsInv, NEW w \in Workers, WorkerStep(w)
    PROVE  TurnsInv'
<1>1. UNCHANGED looping /\ workers[w] \in Worker
  BY DEF WorkerStep, PoolInv
<1>2. CASE ClaimHit(w)
  BY <1>1, <1>2, TurnsHit
<1>3. CASE ClaimMiss(w)
  BY <1>1, <1>3, TurnsMiss
<1>4. ASSUME UNCHANGED passed, workers[w].pc # "polling", CallEnds(w)
      PROVE  TurnsInv'
  BY <1>1, <1>4, TurnsEnd
<1>5. ASSUME UNCHANGED passed, workers[w].pc # "polling",
             NEW pc \in {"planning", "running", "settling", "reporting"}, Goto(w, pc)
      PROVE  TurnsInv'
  <2>1. PICK x : x = [workers[w] EXCEPT !.pc = pc]
    OBVIOUS
  <2>2. /\ x.pc \notin {"off", "polling"} /\ x.turn = workers[w].turn
        /\ workers' = [workers EXCEPT ![w] = x]
    BY <1>1, <1>5, <2>1 DEF Goto, Worker
  <2>3. QED
    BY <1>1, <1>5, <2>2, TurnsOnward
<1>6. ASSUME UNCHANGED passed, workers[w].pc # "polling", NEW outcome,
             workers' = [workers EXCEPT ![w].pc = "settling", ![w].outcome = outcome]
      PROVE  TurnsInv'
  <2>1. PICK x : x = [workers[w] EXCEPT !.pc = "settling", !.outcome = outcome]
    OBVIOUS
  <2>2. x.pc \notin {"off", "polling"} /\ x.turn = workers[w].turn
    BY <1>1, <2>1 DEF Worker
  <2>3. workers' = [workers EXCEPT ![w] = x]
    BY <1>6, <2>1
  <2>4. QED
    BY <1>1, <1>6, <2>2, <2>3, TurnsOnward
<1>7. CASE Beat(w)
  BY <1>4, <1>5, <1>7 DEF Beat
<1>8. CASE StartRun(w)
  BY <1>5, <1>8 DEF StartRun
<1>9. CASE EndRun(w)
  BY <1>6, <1>9 DEF EndRun
<1>10. CASE RaiseInRun(w)
  BY <1>6, <1>10 DEF RaiseInRun
<1>11. CASE SettleDone(w)
  BY <1>4, <1>11 DEF SettleDone
<1>12. CASE SettleFailed(w)
  BY <1>4, <1>5, <1>12 DEF SettleFailed
<1>13. CASE ReportFailed(w)
  BY <1>4, <1>13 DEF ReportFailed
<1>14. QED
  BY <1>2, <1>3, <1>7, <1>8, <1>9, <1>10, <1>11, <1>12, <1>13 DEF WorkerStep

LEMMA TurnsKeep ==
    ASSUME PoolInv, TurnsInv, [PoolNext]_poolvars
    PROVE  TurnsInv'
<1>1. ASSUME UNCHANGED <<looping, workers, passed>>
      PROVE  TurnsInv'
  BY <1>1 DEF TurnsInv
<1>2. ASSUME NEW c \in Clients, ClientStep(c)
      PROVE  TurnsInv'
  <2>1. CASE looping
    BY <1>1, <1>2, <2>1 DEF ClientStep, ReadRun, FindActive, Submit, MarkQueued
  <2>2. CASE ~looping
    BY <1>2, <2>2 DEF ClientStep, ReadRun, FindActive, Submit, MarkQueued, TurnsInv
  <2>3. QED
    BY <2>1, <2>2
<1>3. CASE Operate
  BY <1>1, <1>3 DEF Operate, pool
<1>4. CASE PoolExpire
  BY <1>1, <1>4 DEF PoolExpire, pool
<1>5. CASE UNCHANGED poolvars
  BY <1>1, <1>5 DEF poolvars
<1>6. QED
  BY <1>2, <1>3, <1>4, <1>5, TurnsWorker, TurnsCrash DEF PoolNext

\* While a worker process lives it never takes more jobs in a row past a queue
\* than there are queues: steady work in one never starves another
\* (process_next_job begins each call one name further, worker.py).
THEOREM NoQueueStarves == PoolSpec => []NoStarvation
<1>1. PoolSpec => []TurnsInv
  BY PoolInvariance, TurnsStarts, TurnsKeep, PTL DEF PoolSpec
<1>2. ASSUME PoolInv, TurnsInv
      PROVE  NoStarvation
  <2>1. ASSUME looping, NEW w \in Workers, NEW wf \in Claimable
        PROVE  passed[w][wf] <= Len(Rotation)
    <3>1. PICK i \in 1..Len(Rotation) : Rotation[i] = wf
      BY PoolAssumption
    <3>2. PICK n \in Nat : n = Len(Rotation)
      BY RotationNames
    <3>3. workers[w] \in Worker /\ Patient(workers[w], passed[w])
      BY <1>2, <2>1 DEF PoolInv, TurnsInv
    <3>4. PICK d \in 0..(n - 1) : d = Distance(workers[w].turn, i)
      BY <3>2, <3>3, TurnMoves
    <3>5. d \in Nat /\ d < n
      BY <3>2, <3>4
    <3>6. Allowance(workers[w], i) \in Int /\ Allowance(workers[w], i) <= n
      BY <3>2, <3>4, <3>5 DEF Allowance
    <3>7. passed[w][wf] \in Nat /\ passed[w][wf] <= Allowance(workers[w], i)
      BY <1>2, <3>1, <3>3 DEF TurnsInv, Patient
    <3>8. QED
      BY <3>2, <3>6, <3>7
  <2>2. QED
    BY <2>1 DEF NoStarvation
<1>3. QED
  BY <1>1, <1>2, PoolInvariance, PTL

CrashesOK == crashes \in 0..MaxCrashes

\* The types of the pool's state (worker.py, enqueue_dynamic_workflow).
THEOREM PoolTypes == PoolSpec => []PoolTypeOK
<1>1. PoolSpec => []TurnsInv
  BY PoolInvariance, TurnsStarts, TurnsKeep, PTL DEF PoolSpec
<1>2. PoolSpec => []TypeOK
  BY PoolUsesStore, TypeCorrect, PTL
<1>3. PoolSpec => []CrashesOK
  <2>1. PoolInit => CrashesOK
    BY PoolAssumption DEF PoolInit, CrashesOK
  <2>2. ASSUME CrashesOK, [PoolNext]_poolvars
        PROVE  CrashesOK'
    <3>1. ASSUME NEW w \in Workers, WorkerStep(w)
          PROVE  crashes' = crashes
      BY <3>1 DEF WorkerStep, ClaimHit, ClaimMiss, Beat, StartRun, EndRun,
                  RaiseInRun, SettleDone, SettleFailed, ReportFailed
    <3>2. ASSUME NEW w \in Workers, Crash(w)
          PROVE  crashes' \in 0..MaxCrashes
      BY <2>2, <3>2, PoolAssumption DEF Crash, CrashesOK
    <3>3. ASSUME NEW c \in Clients, ClientStep(c)
          PROVE  crashes' = crashes
      BY <3>3 DEF ClientStep, ReadRun, FindActive, Submit, MarkQueued
    <3>4. Operate \/ PoolExpire \/ UNCHANGED poolvars => crashes' = crashes
      BY DEF Operate, PoolExpire, pool, poolvars
    <3>5. QED
      BY <2>2, <3>1, <3>2, <3>3, <3>4 DEF PoolNext, CrashesOK
  <2>3. QED
    BY <2>1, <2>2, PTL DEF PoolSpec
<1>4. ASSUME PoolInv, TurnsInv, TypeOK, CrashesOK
      PROVE  PoolTypeOK
  BY <1>4 DEF PoolTypeOK, PoolInv, TurnsInv, CrashesOK
<1>5. QED
  BY <1>1, <1>2, <1>3, <1>4, PoolInvariance, PTL

-----------------------------------------------------------------------------
(***************************************************************************)
(* The Redis list.                                                         *)
(***************************************************************************)
Handed == \A j \in Jobs : /\ handed[j] = jobs[j].attempts
                          /\ ~Present(j) => handed[j] = 0

\* What a process does with the id it has in hand.
InHand(x) == /\ x.pc \in {"popped", "holding"} => x.job \in Jobs
             /\ x.pc = "popped" => x.tries < MaxPops

HandOK == \A p \in Workers \cup Callers : InHand(procs[p])

QueueInv == IInv /\ RedisTypeOK /\ Handed /\ HandOK

\* A call of the repository other than a claim: the invariant is kept and no
\* attempt counted.
LEMMA OtherCall ==
    ASSUME IInv, Handed,
           \/ Recover(QueueName) \/ UNCHANGED <<jobs, runs>>
           \/ \E r \in Runs : CreateRun(r)
           \/ \E j \in Jobs, r \in Runs, sub \in Submissions : Enqueue(j, r, sub)
           \/ \E j \in Jobs : RetryDeadLetter(j) \/ Expire(j)
           \/ \E w \in Workers, j \in Jobs :
                 Complete(w, j) \/ \E retry \in BOOLEAN : Fail(w, j, retry)
    PROVE  IInv' /\ SameAttempts
<1>1. [Next]_vars
  BY RedisAssumption DEF Next, WorkerCall, RecoveryCall, ApiCall, vars
<1>2. NoAttemptsYet
  BY DEF Handed, NoAttemptsYet
<1>3. (\E r \in Runs : CreateRun(r)) => UNCHANGED jobs
  BY DEF CreateRun
<1>4. SameAttempts
  BY <1>2, <1>3, UncountedCall, RedisAssumption
<1>5. QED
  BY <1>1, <1>4, StepKeeps

\* A claim is counted once.
LEMMA ClaimCounts ==
    ASSUME IInv, NEW w \in Workers, NEW j \in Jobs, ClaimJob(w, j)
    PROVE  /\ IInv'
           /\ \A k \in Jobs : /\ jobs'[k].attempts =
                                    jobs[k].attempts + (IF k = j THEN 1 ELSE 0)
                              /\ Present(k) => Present(k)'
           /\ Present(j)
<1>1. jobs \in [Jobs -> JobRecord]
  BY IInvByJob
<1>2. /\ Claimed(jobs[j], w).attempts = jobs[j].attempts + 1
      /\ Claimed(jobs[j], w).status = "running"
  BY <1>1 DEF Claimed, JobRecord
<1>3. \A k \in Jobs : jobs[k].attempts \in Nat
  BY <1>1 DEF JobRecord
<1>4. jobs' = [jobs EXCEPT ![j] = Claimed(jobs[j], w)] /\ jobs[j].status = "queued"
  BY DEF ClaimJob
<1>5. ASSUME NEW k \in Jobs
      PROVE  /\ jobs'[k].attempts = jobs[k].attempts + (IF k = j THEN 1 ELSE 0)
             /\ Present(k) => Present(k)'
  <2>1. CASE k = j
    BY <1>1, <1>2, <1>4, <2>1 DEF Present
  <2>2. CASE k # j
    BY <1>1, <1>3, <1>4, <2>2 DEF Present
  <2>3. QED
    BY <2>1, <2>2
<1>6. QED
  BY <1>4, <1>5, ClaimCallStep DEF Present

\* Records of processes are well formed whatever the process is about to do.
LEMMA ReadyOK == Ready \in Proc /\ InHand(Ready)
BY RedisAssumption DEF Ready, Proc, InHand

LEMMA PushingOK ==
    ASSUME NEW owed \in SUBSET Jobs, NEW next \in {"ready", "popping"}
    PROVE  Pushing(owed, next) \in Proc /\ InHand(Pushing(owed, next))
<1>1. PICK at : at = IF owed = {} THEN next ELSE "pushing"
  OBVIOUS
<1>2. at \in {"ready", "pushing", "popping"} /\ 0 \in 0..MaxPops
  BY <1>1, RedisAssumption
<1>3. Pushing(owed, next) = [Ready EXCEPT !.pc = at, !.owed = owed, !.next = next]
  BY <1>1 DEF Pushing
<1>4. Pushing(owed, next) = [pc |-> at, owed |-> owed, job |-> None, tries |-> 0,
                             next |-> next]
  BY <1>3 DEF Ready
<1>5. QED
  BY <1>2, <1>4 DEF Proc, InHand

\* A step of the list and of one process, beside a call of the repository that
\* counts no attempt.
LEMMA ListStep ==
    ASSUME QueueInv, IInv', SameAttempts, handed' = handed,
           index' \in Seq(Jobs), upsets' = upsets \/ Upset,
           NEW p \in Workers \cup Callers, NEW x \in Proc, InHand(x),
           procs' = procs \/ procs' = [procs EXCEPT ![p] = x]
    PROVE  QueueInv'
<1>1. procs' \in [Workers \cup Callers -> Proc] /\ HandOK'
  BY DEF QueueInv, RedisTypeOK, HandOK
<1>2. upsets' \in 0..MaxUpsets
  BY RedisAssumption DEF QueueInv, RedisTypeOK, Upset
<1>3. Handed'
  BY DEF QueueInv, Handed, SameAttempts
<1>4. TypeOK'
  BY DEF IInv
<1>5. QED
  BY <1>1, <1>2, <1>3, <1>4 DEF QueueInv, RedisTypeOK

\* The step that hands a job out is the one that counts an attempt.
LEMMA HandOutStep ==
    ASSUME QueueInv, NEW w \in Workers, NEW j \in Jobs,
           ClaimJob(w, j), Holding(w, j), UNCHANGED <<index, upsets>>
    PROVE  QueueInv'
<1> DEFINE x == [Ready EXCEPT !.pc = "holding", !.job = j]
<1>1. x \in Proc /\ InHand(x)
  BY ReadyOK DEF Ready, Proc, InHand
<1>2. procs' \in [Workers \cup Callers -> Proc] /\ HandOK'
  BY <1>1 DEF QueueInv, RedisTypeOK, HandOK, Holding
<1>3. /\ IInv' /\ Present(j)
      /\ \A k \in Jobs : /\ jobs'[k].attempts =
                               jobs[k].attempts + (IF k = j THEN 1 ELSE 0)
                         /\ Present(k) => Present(k)'
  BY ClaimCounts DEF QueueInv
<1>4. handed \in [Jobs -> Nat] /\ handed' = [handed EXCEPT ![j] = @ + 1]
  BY DEF QueueInv, RedisTypeOK, Holding
<1>5. handed' \in [Jobs -> Nat]
  BY <1>4
<1>6. Handed'
  <2>1. ASSUME NEW k \in Jobs
        PROVE  handed'[k] = jobs'[k].attempts /\ (~Present(k)' => handed'[k] = 0)
    <3>1. handed[k] = jobs[k].attempts /\ handed[k] \in Nat
      BY <1>4 DEF QueueInv, Handed
    <3>2. CASE k = j
      BY <1>3, <1>4, <3>1, <3>2
    <3>3. CASE k # j
      <4>1. handed'[k] = handed[k] /\ jobs'[k].attempts = jobs[k].attempts
        BY <1>3, <1>4, <3>1, <3>3
      <4>2. ~Present(k)' => handed[k] = 0
        BY <1>3 DEF QueueInv, Handed
      <4>3. QED
        BY <3>1, <4>1, <4>2
    <3>4. QED
      BY <3>2, <3>3
  <2>2. QED
    BY <2>1 DEF Handed
<1>7. index' \in Seq(Jobs) /\ upsets' \in 0..MaxUpsets /\ TypeOK'
  BY <1>3 DEF QueueInv, RedisTypeOK, IInv
<1>8. QED
  BY <1>2, <1>3, <1>5, <1>6, <1>7 DEF QueueInv, RedisTypeOK

\* _push_job appends ids of jobs that the process owes.
LEMMA PushKeeps ==
    ASSUME QueueInv, NEW p \in Workers \cup Callers, Push(p)
    PROVE  QueueInv'
<1>1. PICK j \in procs[p].owed :
         /\ index' = Append(index, j)
         /\ procs' = [procs EXCEPT ![p] = Pushing(@.owed \ {j}, @.next)]
  BY DEF Push
<1>2. /\ procs[p].owed \in SUBSET Jobs /\ procs[p].next \in {"ready", "popping"}
      /\ p \in DOMAIN procs
  BY DEF QueueInv, RedisTypeOK, Proc
<1>3. procs' = [procs EXCEPT ![p] = Pushing(procs[p].owed \ {j}, procs[p].next)]
  BY <1>1
<1>4. index' \in Seq(Jobs)
  BY <1>1, <1>2 DEF QueueInv, RedisTypeOK
<1>5. IInv' /\ SameAttempts
  BY OtherCall DEF Push, QueueInv
<1>6. PICK x : x = Pushing(procs[p].owed \ {j}, procs[p].next)
  OBVIOUS
<1>7. x \in Proc /\ InHand(x)
  BY <1>2, <1>6, PushingOK
<1>8. UNCHANGED <<handed, upsets>>
  BY DEF Push
<1>9. QED
  BY <1>3, <1>4, <1>5, <1>6, <1>7, <1>8, ListStep

\* The API's steps.
LEMMA CallerKeeps ==
    ASSUME QueueInv, NEW c \in Callers, CallerStep(c)
    PROVE  QueueInv'
<1>1. ASSUME NEW j \in Jobs, RetryAndOwe(c, j)
      PROVE  QueueInv'
  <2>1. IInv' /\ SameAttempts
    BY <1>1, OtherCall DEF RetryAndOwe, QueueInv
  <2>2. QED
    BY <1>1, <2>1, PushingOK, ListStep DEF RetryAndOwe, QueueInv, RedisTypeOK
<1>2. ASSUME NEW j \in Jobs, NEW r \in Runs, NEW sub \in Submissions,
             EnqueueAndOwe(c, j, r, sub)
      PROVE  QueueInv'
  <2>1. IInv' /\ SameAttempts
    BY <1>2, OtherCall DEF EnqueueAndOwe, QueueInv
  <2>2. QED
    BY <1>2, <2>1, PushingOK, ListStep DEF EnqueueAndOwe, QueueInv, RedisTypeOK
<1>3. CASE Push(c)
  BY <1>3, PushKeeps
<1>4. QED
  BY <1>1, <1>2, <1>3 DEF CallerStep

\* The worker's way to a job: recovery, and the loop over the list.
LEMMA SearchKeeps ==
    ASSUME QueueInv, NEW w \in Workers, RecoverFirst(w) \/ Pop(w) \/ ClaimPopped(w)
    PROVE  QueueInv'
<1>1. CASE RecoverFirst(w)
  <2>1. PICK owed : owed = {j \in TimedOut(QueueName) : jobs'[j].status = "queued"}
    OBVIOUS
  <2>2. owed \in SUBSET Jobs
    BY <2>1 DEF TimedOut
  <2>3. /\ procs' = [procs EXCEPT ![w] = Pushing(owed, "popping")]
        /\ UNCHANGED <<index, upsets, handed>>
    BY <1>1, <2>1 DEF RecoverFirst
  <2>4. CASE Recover(QueueName)
    BY <2>2, <2>3, <2>4, OtherCall, PushingOK, ListStep DEF QueueInv, RedisTypeOK
  <2>5. CASE UNCHANGED <<jobs, runs>>
    BY <2>2, <2>3, <2>5, OtherCall, PushingOK, ListStep DEF QueueInv, RedisTypeOK
  <2>6. QED
    BY <1>1, <2>4, <2>5 DEF RecoverFirst
<1>2. CASE Pop(w)
  <2>1. /\ index \in Seq(Jobs) /\ index # <<>> /\ procs[w] \in Proc
        /\ procs[w].tries < MaxPops
    BY <1>2 DEF Pop, QueueInv, RedisTypeOK
  <2>2. Head(index) \in Jobs /\ Tail(index) \in Seq(Jobs)
    BY <2>1
  <2>3. PICK x : x = [procs[w] EXCEPT !.pc = "popped", !.job = Head(index)]
    OBVIOUS
  <2>4. x \in Proc /\ InHand(x)
    BY <2>1, <2>2, <2>3 DEF Proc, InHand
  <2>5. procs' = [procs EXCEPT ![w] = x]
    BY <1>2, <2>3 DEF Pop, QueueInv, RedisTypeOK
  <2>6. /\ index' \in Seq(Jobs) /\ UNCHANGED <<jobs, runs, upsets, handed>>
    BY <1>2, <2>2 DEF Pop
  <2>7. IInv' /\ SameAttempts
    BY <2>6, OtherCall DEF QueueInv
  <2>8. QED
    BY <2>4, <2>5, <2>6, <2>7, ListStep
<1>3. CASE ClaimPopped(w)
  <2> DEFINE j == procs[w].job
  <2>1. /\ procs[w] \in Proc /\ procs[w].tries < MaxPops /\ j \in Jobs
        /\ UNCHANGED <<index, upsets>>
    BY <1>3 DEF ClaimPopped, QueueInv, RedisTypeOK, HandOK, InHand
  <2>2. CASE ClaimJob(w, j) /\ Holding(w, j)
    BY <2>1, <2>2, HandOutStep
  <2>3. ASSUME procs' = [procs EXCEPT ![w].pc = "popping", ![w].tries = @ + 1],
               UNCHANGED <<jobs, runs, handed>>
        PROVE  QueueInv'
    <3>1. PICK x : x = [procs[w] EXCEPT !.pc = "popping", !.tries = @ + 1]
      OBVIOUS
    <3>2. procs[w].tries + 1 \in 0..MaxPops
      BY <2>1, RedisAssumption DEF Proc
    <3>3. x \in Proc /\ InHand(x)
      BY <2>1, <3>1, <3>2 DEF Proc, InHand
    <3>4. procs' = [procs EXCEPT ![w] = x]
      BY <2>3, <3>1 DEF QueueInv, RedisTypeOK
    <3>5. IInv' /\ SameAttempts
      BY <2>3, OtherCall DEF QueueInv
    <3>6. index' \in Seq(Jobs)
      BY <2>1 DEF QueueInv, RedisTypeOK
    <3>7. QED
      BY <2>1, <2>3, <3>3, <3>4, <3>5, <3>6, ListStep
  <2>4. QED
    BY <1>3, <2>2, <2>3 DEF ClaimPopped
<1>4. QED
  BY <1>1, <1>2, <1>3

\* Past the list, and the end of a job.
LEMMA WorkKeeps ==
    ASSUME QueueInv, NEW w \in Workers, ClaimPastIndex(w) \/ Settle(w)
    PROVE  QueueInv'
<1>1. CASE ClaimPastIndex(w)
  <2>1. ASSUME NEW j \in Jobs, ClaimJob(w, j), Holding(w, j)
        PROVE  QueueInv'
    BY <1>1, <2>1, HandOutStep DEF ClaimPastIndex
  <2>2. ASSUME procs' = [procs EXCEPT ![w] = Ready], UNCHANGED <<jobs, runs, handed>>
        PROVE  QueueInv'
    BY <1>1, <2>2, OtherCall, ReadyOK, ListStep
       DEF ClaimPastIndex, QueueInv, RedisTypeOK
  <2>3. QED
    BY <1>1, <2>1, <2>2 DEF ClaimPastIndex
<1>2. CASE Settle(w)
  <2> DEFINE j == procs[w].job
  <2>1. j \in Jobs
    BY <1>2 DEF Settle, QueueInv, HandOK, InHand
  <2>2. IInv' /\ SameAttempts
    BY <1>2, <2>1, OtherCall DEF Settle, QueueInv
  <2>3. PICK owed \in SUBSET Jobs : procs' = [procs EXCEPT ![w] = Pushing(owed, "ready")]
    BY <1>2, <2>1 DEF Settle
  <2>4. UNCHANGED <<index, upsets, handed>>
    BY <1>2 DEF Settle
  <2>5. QED
    BY <2>2, <2>3, <2>4, PushingOK, ListStep DEF QueueInv, RedisTypeOK
<1>3. QED
  BY <1>1, <1>2

\* Dying processes, and a list that is lost.
LEMMA UpsetKeeps ==
    ASSUME QueueInv, LoseIndex \/ \E p \in Workers \cup Callers : Lose(p)
    PROVE  QueueInv'
<1>1. IInv' /\ SameAttempts
  BY OtherCall DEF LoseIndex, Lose, QueueInv
<1>2. CASE LoseIndex
  <2>1. /\ index' \in Seq(Jobs) /\ Upset
        /\ procs' = procs /\ handed' = handed
    BY <1>2 DEF LoseIndex
  <2>2. procs' \in [Workers \cup Callers -> Proc] /\ HandOK'
    BY <2>1 DEF QueueInv, RedisTypeOK, HandOK
  <2>3. upsets' \in 0..MaxUpsets
    BY <2>1, RedisAssumption DEF QueueInv, RedisTypeOK, Upset
  <2>4. Handed' /\ handed' \in [Jobs -> Nat] /\ TypeOK'
    BY <1>1, <2>1 DEF QueueInv, RedisTypeOK, Handed, SameAttempts, IInv
  <2>5. QED
    BY <1>1, <2>1, <2>2, <2>3, <2>4 DEF QueueInv, RedisTypeOK
<1>3. ASSUME NEW p \in Workers \cup Callers, Lose(p)
      PROVE  QueueInv'
  BY <1>1, <1>3, ReadyOK, ListStep DEF Lose, QueueInv, RedisTypeOK
<1>4. QED
  BY <1>2, <1>3

\* Runs are created, and leases expire, beside the list.
LEMMA BesideKeeps ==
    ASSUME QueueInv, UNCHANGED redis,
           (\E r \in Runs : CreateRun(r)) \/ (\E j \in Jobs : Expire(j))
    PROVE  QueueInv'
<1>1. IInv' /\ SameAttempts
  BY OtherCall DEF QueueInv
<1>2. Handed'
  BY <1>1 DEF QueueInv, Handed, SameAttempts, redis
<1>3. QED
  BY <1>1, <1>2 DEF QueueInv, RedisTypeOK, HandOK, redis, IInv

LEMMA QueueInvariance == RedisSpec => []QueueInv
<1>1. RedisInit => QueueInv
  <2> SUFFICES ASSUME RedisInit
               PROVE  QueueInv
    OBVIOUS
  <2>1. IInv
    BY InitKeeps DEF RedisInit
  <2>2. Handed
    BY DEF RedisInit, Init, Handed, Absent
  <2>3. procs \in [Workers \cup Callers -> Proc] /\ HandOK
    BY ReadyOK DEF RedisInit, HandOK
  <2>4. index \in Seq(Jobs) /\ upsets \in 0..MaxUpsets /\ handed \in [Jobs -> Nat]
    BY RedisAssumption DEF RedisInit
  <2>5. QED
    BY <2>1, <2>2, <2>3, <2>4 DEF QueueInv, RedisTypeOK, IInv
<1>2. QueueInv /\ [RedisNext]_redisvars => QueueInv'
  <2> SUFFICES ASSUME QueueInv, [RedisNext]_redisvars
               PROVE  QueueInv'
    OBVIOUS
  <2>1. ASSUME NEW w \in Workers, ClaimStep(w) \/ Settle(w)
        PROVE  QueueInv'
    BY <2>1, SearchKeeps, PushKeeps, WorkKeeps DEF ClaimStep
  <2>2. CASE UNCHANGED redisvars
    <3>1. IInv' /\ SameAttempts
      BY <2>2, OtherCall DEF redisvars, QueueInv
    <3>2. Handed'
      BY <2>2, <3>1 DEF QueueInv, Handed, SameAttempts, redisvars
    <3>3. QED
      BY <2>2, <3>1, <3>2 DEF QueueInv, RedisTypeOK, HandOK, redisvars, IInv
  <2>3. QED
    BY <2>1, <2>2, CallerKeeps, UpsetKeeps, BesideKeeps DEF RedisNext
<1>3. QED
  BY <1>1, <1>2, PTL DEF RedisSpec

\* "Duplicate Redis entries or stale ids cannot double-execute": whatever the
\* list holds and whoever dies, a job is handed to a worker at most once for
\* each attempt it was granted at enqueue and for each manual retry
\* (claim_next pops, claim_workflow_job decides).
THEOREM HandOutsBounded == RedisSpec => []HandedOutAsGranted
<1>1. QueueInv => HandedOutAsGranted
  <2> SUFFICES ASSUME QueueInv, NEW j \in Jobs
               PROVE  handed[j] <= jobs[j].granted + jobs[j].manual
    BY DEF HandedOutAsGranted
  <2>1. jobs[j] \in JobRecord /\ BudgetOK(jobs[j]) /\ handed[j] = jobs[j].attempts
    BY DEF QueueInv, IInv, TypeOK, Budget, Handed
  <2>2. /\ jobs[j].attempts \in Nat /\ jobs[j].max \in Nat
        /\ jobs[j].granted \in Nat /\ jobs[j].manual \in Nat
    BY <2>1 DEF JobRecord
  <2>3. QED
    BY <2>1, <2>2 DEF BudgetOK
<1>2. QED
  BY <1>1, QueueInvariance, PTL
=============================================================================
