------------------------------ MODULE RiskScan ------------------------------
(***************************************************************************)
(* The risk screening queue (src/src/aeai_os/scaling/risk.py): scans of    *)
(* CSV files kept in one SQLite database, started, cancelled and resumed   *)
(* over HTTP and worked off by processes that call process_next in a loop  *)
(* (scripts/run_risk_worker.py).  A worker copies the rows of the file     *)
(* into the database, one transaction per checkpoint, and publishes a      *)
(* result once the last row is stored.                                     *)
(*                                                                         *)
(* Every transaction (BEGIN IMMEDIATE .. commit) and every autocommitted   *)
(* statement is one action; what a worker keeps in local variables between *)
(* two of them is in workers[w].  The clock is abstracted to `stale': the  *)
(* scan was not updated for 120 seconds.                                   *)
(*                                                                         *)
(* Op_What is Op with a fault in it (the table of faults in the README).   *)
(***************************************************************************)
EXTENDS Integers, FiniteSets

CONSTANTS Scans,         \* identifiers start_scan may draw (uuid4 values)
          RunIds,        \* the runs whose files are screened
          Screeners,     \* worker processes; their pids tell them apart
          Rows,          \* number of data rows of the CSV file
          Checkpoint,    \* rows between two commits (500 in the code)
          Content,       \* rows with a usable amount, per version of the file
          Nobody,        \* worker_id NULL, and no run
          MaxMishaps      \* bound: worker deaths, live workers taken for dead,
                         \* interruptions, errors and resumptions together

VARIABLES scans,         \* the tables scans and risk_rows
          workers,       \* local variables of _run_job, per worker
          source,        \* the version of the CSV file on disk
          mishaps         \* how much of MaxMishaps has been used up

riskVars == <<scans, workers, source, mishaps>>

Versions == DOMAIN Content

ASSUME RiskAssumption ==
    /\ Rows \in Nat /\ Checkpoint \in Nat \ {0}
    /\ Content \in [Versions -> SUBSET (1..Rows)]
    /\ Versions \subseteq Nat /\ 0 \in Versions
    /\ Nobody \notin Screeners \cup RunIds \cup Scans
    /\ IsFiniteSet(Scans)
    /\ MaxMishaps \in Nat

Statuses == {"absent", "queued", "running", "cancel_requested", "cancelled",
             "interrupted", "failed", "completed"}
Active == {"queued", "running", "cancel_requested"}

NoResult == [scanned |-> 0, valid |-> 0, published |-> FALSE]

\* rows    ordinals of the scan's risk_rows      scanned, valid  its counters
\* signed  version of the file start_scan saw    born            created_at
NoScan ==
    [run |-> Nobody, status |-> "absent", worker |-> Nobody, scanned |-> 0,
     valid |-> 0, rows |-> {}, signed |-> 0, result |-> NoResult,
     stale |-> FALSE, born |-> 0]

\* at, valid  the counters processed and valid    batch  ordinals not yet saved
\* ending     the status a stopping worker is about to write
Idle ==
    [pc |-> "idle", scan |-> Nobody, at |-> 0, valid |-> 0, batch |-> {},
     ending |-> "none", result |-> NoResult]

Mishap == mishaps < MaxMishaps /\ mishaps' = mishaps + 1

-----------------------------------------------------------------------------
(* The API.                                                                *)

\* start_scan: the run's active scan is returned when there is one.
Start(r, s) ==
    /\ scans[s].status = "absent"
    /\ \A t \in Scans : scans[t].run = r => scans[t].status \notin Active
    /\ \E n \in 1..Cardinality(Scans) :
          /\ n = 1 + Cardinality({t \in Scans : scans[t].status # "absent"})
          /\ scans' = [scans EXCEPT ![s] =
                 [NoScan EXCEPT !.run = r, !.status = "queued",
                                !.signed = source, !.born = n]]
    /\ UNCHANGED <<workers, source, mishaps>>

\* set_scan_action(cancel): a second cancel does not wait for the worker, and
\* leaves its id in the record.
Cancel(s) ==
    /\ scans[s].status \in Active
    /\ scans' = [scans EXCEPT
          ![s].status = IF @ = "running" THEN "cancel_requested" ELSE "cancelled",
          ![s].stale = FALSE]
    /\ UNCHANGED <<workers, source, mishaps>>

\* set_scan_action(resume): refused once the file has changed.
Resume(s) ==
    /\ scans[s].status \in {"cancelled", "failed", "interrupted"}
    /\ scans[s].signed = source
    /\ Mishap
    /\ scans' = [scans EXCEPT ![s].status = "queued"]
    /\ UNCHANGED <<workers, source>>

-----------------------------------------------------------------------------
(* The worker.                                                             *)

\* Fault: only running scans are taken from silent workers.
Swept_Running(scan) ==
    IF ~(scan.stale /\ scan.status = "running") THEN scan
    ELSE [scan EXCEPT !.status = "queued", !.worker = Nobody, !.stale = FALSE]

\* A stale running scan goes back to the queue, a stale cancel request is
\* settled on behalf of the worker that will not see it.
Swept(scan) ==
    IF ~scan.stale THEN scan
    ELSE [scan EXCEPT !.status = IF @ = "running" THEN "queued" ELSE "cancelled",
                      !.worker = Nobody, !.stale = FALSE]

SweptScans == [s \in Scans |-> Swept(scans[s])]

Oldest(store, s) ==
    /\ store[s].status = "queued"
    /\ \A t \in Scans : store[t].status = "queued" => store[s].born <= store[t].born

\* _claim: stale scans are taken from their workers, then the oldest queued
\* scan is handed out with the counters of its last checkpoint.
Claim(w, s) ==
    /\ workers[w].pc = "idle"
    /\ Oldest(SweptScans, s)
    /\ scans' = [SweptScans EXCEPT ![s].status = "running", ![s].worker = w]
    /\ workers' = [workers EXCEPT ![w] =
          [Idle EXCEPT !.pc = "claimed", !.scan = s,
                       !.at = scans[s].scanned, !.valid = scans[s].valid]]
    /\ UNCHANGED <<source, mishaps>>

\* _claim finds nothing queued; what it swept stays swept.
ClaimNone(w) ==
    /\ workers[w].pc = "idle"
    /\ \A s \in Scans : SweptScans[s].status # "queued"
    /\ SweptScans # scans
    /\ scans' = SweptScans
    /\ UNCHANGED <<workers, source, mishaps>>

\* The fingerprint is compared before the file is opened and the rows of the
\* checkpoint are skipped.
Open(w) ==
    /\ workers[w].pc = "claimed"
    /\ workers' = [workers EXCEPT ![w].pc =
          IF scans[workers[w].scan].signed = source THEN "reading" ELSE "failing"]
    /\ UNCHANGED <<scans, source, mishaps>>

AtCheckpoint(w) == workers[w].at % Checkpoint = 0

\* One turn of the row loop; a full batch is to be saved next.
ReadRow(w) ==
    LET me == workers[w]
        next == me.at + 1
        usable == next \in Content[source]
    IN  /\ me.pc = "reading"
        /\ me.at < Rows
        /\ AtCheckpoint(w) => scans[me.scan].status # "cancel_requested"
        /\ workers' = [workers EXCEPT
              ![w].at = next,
              ![w].valid = IF usable THEN @ + 1 ELSE @,
              ![w].batch = IF usable THEN @ \cup {next} ELSE @,
              ![w].pc = IF next % Checkpoint = 0 THEN "saving" ELSE "reading"]
        /\ UNCHANGED <<scans, source, mishaps>>

\* The end of the file: what is left of the batch is saved.
EndOfFile(w) ==
    /\ workers[w].pc = "reading"
    /\ workers[w].at = Rows
    /\ workers' = [workers EXCEPT ![w].pc = "saving last"]
    /\ UNCHANGED <<scans, source, mishaps>>

\* A cancel request is seen at a checkpoint.
SeeCancel(w) ==
    /\ workers[w].pc = "reading"
    /\ workers[w].at < Rows
    /\ AtCheckpoint(w)
    /\ scans[workers[w].scan].status = "cancel_requested"
    /\ workers' = [workers EXCEPT ![w].pc = "stopping", ![w].ending = "cancelled"]
    /\ UNCHANGED <<scans, source, mishaps>>

\* stop() before any row (SIGTERM, SIGINT), or max_seconds at a checkpoint.
Interrupt(w) ==
    /\ workers[w].pc = "reading"
    /\ workers[w].at < Rows
    /\ Mishap
    /\ workers' = [workers EXCEPT ![w].pc = "stopping", ![w].ending = "interrupted"]
    /\ UNCHANGED <<scans, source>>

\* The row limit, the storage limit, a malformed file, an I/O error.
GiveUp(w) ==
    /\ workers[w].pc = "reading"
    /\ Mishap
    /\ workers' = [workers EXCEPT ![w].pc = "failing"]
    /\ UNCHANGED <<scans, source>>

\* Fault: only the status is looked at.
HoldsLease_AnyWorker(w, s) == scans[s].status \in {"running", "cancel_requested"}

HoldsLease(w, s) ==
    /\ scans[s].worker = w
    /\ scans[s].status \in {"running", "cancel_requested"}

\* What commit_batch writes: the rows of the batch and the absolute counters.
\* The primary key of risk_rows refuses a batch with a row already stored.
Stored(scan, me) ==
    [scan EXCEPT !.rows = @ \cup me.batch, !.scanned = me.at,
                 !.valid = me.valid, !.stale = FALSE]

AfterSave ==
    [pc \in {"saving", "saving last", "stopping"} |->
        CASE pc = "saving"      -> "reading"
          [] pc = "saving last" -> "checking"
          [] pc = "stopping"    -> "closing"]

\* commit_batch, in its three places.
Save(w) ==
    LET me == workers[w]
        granted == HoldsLease(w, me.scan) /\ me.batch \cap scans[me.scan].rows = {}
    IN  /\ me.pc \in DOMAIN AfterSave
        /\ scans' = IF granted
                    THEN [scans EXCEPT ![me.scan] = Stored(@, me)] ELSE scans
        /\ workers' = [workers EXCEPT
              ![w].pc = IF granted THEN AfterSave[me.pc] ELSE "failing",
              ![w].batch = IF granted THEN {} ELSE @]
        /\ UNCHANGED <<source, mishaps>>

\* The last write of a stopping worker asks neither for the lease nor for the
\* status.
Close(w) ==
    /\ workers[w].pc = "closing"
    /\ scans' = [scans EXCEPT ![workers[w].scan].status = workers[w].ending,
                              ![workers[w].scan].worker = Nobody,
                              ![workers[w].scan].stale = FALSE]
    /\ workers' = [workers EXCEPT ![w] = Idle]
    /\ UNCHANGED <<source, mishaps>>

\* Fault: the file is not looked at again after the last row.
Reckon_Unchecked(w) ==
    LET scan == scans[workers[w].scan]
    IN  /\ workers[w].pc = "checking"
        /\ workers' = [workers EXCEPT
              ![w].pc = "publishing",
              ![w].result = [scanned |-> scan.scanned, valid |-> scan.valid,
                             published |-> TRUE]]
        /\ UNCHANGED <<scans, source, mishaps>>

\* The fingerprint once more, then _finalize on the record as it is now: the
\* stored rows must reconcile with the counters.
Reckon(w) ==
    LET scan == scans[workers[w].scan]
        sound == scan.signed = source /\ Cardinality(scan.rows) = scan.valid
    IN  /\ workers[w].pc = "checking"
        /\ workers' = [workers EXCEPT
              ![w].pc = IF sound THEN "publishing" ELSE "failing",
              ![w].result = [scanned |-> scan.scanned, valid |-> scan.valid,
                             published |-> TRUE]]
        /\ UNCHANGED <<scans, source, mishaps>>

\* Fault: the status is not read again before the result is written.
Publish_Blindly(w) ==
    LET me == workers[w]
    IN  /\ me.pc = "publishing"
        /\ scans' = IF scans[me.scan].worker = w
                    THEN [scans EXCEPT ![me.scan].status = "completed",
                                       ![me.scan].worker = Nobody,
                                       ![me.scan].result = me.result,
                                       ![me.scan].stale = FALSE]
                    ELSE scans
        /\ workers' = [workers EXCEPT ![w] = Idle]
        /\ UNCHANGED <<source, mishaps>>

\* The last transaction: a cancel request that came in after the last
\* checkpoint is honoured, whoever holds the scan; the result is published
\* only by the holder.
Publish(w) ==
    LET me == workers[w]
        scan == scans[me.scan]
    IN  /\ me.pc = "publishing"
        /\ scans' = [scans EXCEPT ![me.scan] =
              IF scan.status = "cancel_requested"
              THEN [@ EXCEPT !.status = "cancelled", !.worker = Nobody, !.stale = FALSE]
              ELSE IF scan.status = "running" /\ scan.worker = w
              THEN [@ EXCEPT !.status = "completed", !.worker = Nobody,
                             !.result = me.result, !.stale = FALSE]
              ELSE @]
        /\ workers' = [workers EXCEPT ![w] = Idle]
        /\ UNCHANGED <<source, mishaps>>

\* The except clause of process_next.  A scan that was cancelled twice still
\* carries the worker's id, and is marked failed as well.
FailScan(w) ==
    LET me == workers[w]
    IN  /\ me.pc = "failing"
        /\ scans' = IF scans[me.scan].worker = w
                    THEN [scans EXCEPT ![me.scan].status = "failed",
                                       ![me.scan].worker = Nobody,
                                       ![me.scan].stale = FALSE]
                    ELSE scans
        /\ workers' = [workers EXCEPT ![w] = Idle]
        /\ UNCHANGED <<source, mishaps>>

-----------------------------------------------------------------------------
(* The environment.                                                        *)

\* The process dies and is restarted (docker-compose.yml:40).
Die(w) ==
    /\ workers[w].pc # "idle"
    /\ Mishap
    /\ workers' = [workers EXCEPT ![w] = Idle]
    /\ UNCHANGED <<scans, source>>

Attended(s) ==
    \E w \in Screeners : workers[w].pc # "idle" /\ workers[w].scan = s
                         /\ scans[s].worker = w

\* 120 seconds without an update: the worker died, or was suspended.
TakeForDead(s) ==
    /\ scans[s].status \in {"running", "cancel_requested"}
    /\ ~scans[s].stale
    /\ IF Attended(s) THEN Mishap ELSE UNCHANGED mishaps
    /\ scans' = [scans EXCEPT ![s].stale = TRUE]
    /\ UNCHANGED <<workers, source>>

\* Somebody replaces or edits the CSV file; size, times or inode tell.
EditSource ==
    /\ source + 1 \in Versions
    /\ source' = source + 1
    /\ UNCHANGED <<scans, workers, mishaps>>

-----------------------------------------------------------------------------
RiskInit ==
    /\ scans = [s \in Scans |-> NoScan]
    /\ workers = [w \in Screeners |-> Idle]
    /\ source = 0
    /\ mishaps = 0

\* What a worker does without being told to, up to its next claim.
WorkerStep(w) ==
    \/ Open(w) \/ ReadRow(w) \/ EndOfFile(w) \/ SeeCancel(w)
    \/ Save(w) \/ Close(w) \/ Reckon(w) \/ Publish(w) \/ FailScan(w)

Poll(w) == ClaimNone(w) \/ \E s \in Scans : Claim(w, s)

UserStep ==
    \E s \in Scans : Cancel(s) \/ Resume(s) \/ \E r \in RunIds : Start(r, s)

RiskNext ==
    \/ UserStep
    \/ \E w \in Screeners :
          WorkerStep(w) \/ Poll(w) \/ Interrupt(w) \/ GiveUp(w) \/ Die(w)
    \/ \E s \in Scans : TakeForDead(s)
    \/ EditSource

RiskSpec == RiskInit /\ [][RiskNext]_riskVars

\* Workers are restarted and poll for ever; time passes for a scan that
\* nobody works on.
RiskFairness ==
    /\ \A w \in Screeners : WF_riskVars(WorkerStep(w)) /\ WF_riskVars(Poll(w))
    /\ \A s \in Scans : WF_riskVars(~Attended(s) /\ TakeForDead(s))

FairRiskSpec == RiskSpec /\ RiskFairness

-----------------------------------------------------------------------------
(* Properties.                                                             *)

Results == [scanned : 0..Rows, valid : 0..Rows, published : BOOLEAN]

ScanRecord ==
    [run : RunIds \cup {Nobody}, status : Statuses, worker : Screeners \cup {Nobody},
     scanned : 0..Rows, valid : 0..Rows, rows : SUBSET (1..Rows), signed : Versions,
     result : Results, stale : BOOLEAN, born : Nat]

WorkerRecord ==
    [pc : {"idle", "claimed", "reading", "saving", "saving last", "stopping",
           "closing", "checking", "publishing", "failing"},
     scan : Scans \cup {Nobody}, at : 0..Rows, valid : 0..Rows,
     batch : SUBSET (1..Rows), ending : {"none", "cancelled", "interrupted"},
     result : Results]

RiskTypeOK ==
    /\ scans \in [Scans -> ScanRecord]
    /\ workers \in [Screeners -> WorkerRecord]
    /\ source \in Versions
    /\ mishaps \in 0..MaxMishaps

\* Whatever worker stored what before it died, was taken for dead, was
\* cancelled or interrupted: the stored rows are the counted rows, none beyond
\* the checkpoint from which the next worker resumes (commit_batch).
LedgerAgrees ==
    \A s \in Scans : /\ scans[s].rows \subseteq 1..scans[s].scanned
                     /\ Cardinality(scans[s].rows) = scans[s].valid

\* A published result has counted every row of the file the scan was started
\* on, once, however often the scan changed hands and whatever was done to the
\* file meanwhile (the final consistency guard).
ResultWhole ==
    \A s \in Scans :
        scans[s].result.published =>
            /\ scans[s].result.scanned = Rows
            /\ scans[s].result.valid = Cardinality(Content[scans[s].signed])

\* A worker that was replaced while it was silent never throws a scan back
\* behind its successor's checkpoint, nor takes a stored row away.
CheckpointAdvances ==
    [][\A s \in Scans : /\ scans[s].scanned <= scans'[s].scanned
                        /\ scans[s].rows \subseteq scans'[s].rows]_riskVars

\* A cancellation that was accepted before the result is published wins, even
\* when it arrives after the worker's last checkpoint.
CancelHonoured ==
    [][\A s \in Scans :
          scans[s].status = "cancel_requested" => scans'[s].status # "completed"]_riskVars

\* Every scan that is waiting or worked on is eventually settled or handed
\* back to its user, also when its worker dies at the worst moment or a cancel
\* request finds no worker left to see it.
ScanSettles == \A s \in Scans : scans[s].status \in Active ~> scans[s].status \notin Active
=============================================================================
