-------------------------- MODULE RiskScan_proofs --------------------------
(***************************************************************************)
(* Proofs about RiskScan: for any number of scans, workers, rows and       *)
(* versions of the file, and however often scans change hands, the ledger  *)
(* of stored rows agrees with its counters and a published result counts   *)
(* the whole file.                                                         *)
(***************************************************************************)
EXTENDS RiskScan, FiniteSetTheorems, TLAPS

-----------------------------------------------------------------------------
(* The inductive invariant.                                                *)

\* The usable rows of the present file with ordinals in a..b.
Usable(a, b) == Content[source] \cap (a .. b)

\* A scan's rows are the counted ones, none beyond the checkpoint; they are all
\* the usable ones as long as the file is the one the scan was started on.
ScanOK(s) ==
    LET scan == scans[s]
    IN  /\ scan.rows \subseteq 1..scan.scanned
        /\ Cardinality(scan.rows) = scan.valid
        /\ scan.status = "absent" => scan.scanned = 0 /\ scan.rows = {}
        /\ scan.signed <= source
        /\ scan.signed = source => scan.rows = Usable(1, scan.scanned)
        /\ scan.result.published =>
              /\ scan.result.scanned = Rows
              /\ scan.result.valid = Cardinality(Content[scan.signed])

\* What a worker has in its variables continues the checkpoint, if it still
\* holds the scan.
Continues(w, s) ==
    LET me == workers[w]
        scan == scans[s]
    IN  /\ scan.scanned <= me.at
        /\ me.batch \subseteq scan.scanned + 1 .. me.at
        /\ me.valid = scan.valid + Cardinality(me.batch)
        /\ scan.signed = source => me.batch = Usable(scan.scanned + 1, me.at)
        /\ me.pc = "saving last" => me.at = Rows
        /\ me.pc \in {"checking", "publishing"} => scan.scanned = Rows
        /\ me.pc = "publishing" =>
              /\ me.result.scanned = Rows
              /\ me.result.valid = Cardinality(Content[scan.signed])

Holds(w) ==
    workers[w].pc # "idle" =>
        /\ workers[w].scan \in Scans
        /\ workers[w].valid <= workers[w].at
        /\ workers[w].pc \in {"stopping", "closing"} => workers[w].ending # "none"
        /\ scans[workers[w].scan].worker = w => Continues(w, workers[w].scan)

RiskInv ==
    /\ RiskTypeOK
    /\ \A s \in Scans : ScanOK(s)
    /\ \A w \in Screeners : Holds(w)

-----------------------------------------------------------------------------
\* Sets of ordinals are finite, and counted by their bound.
LEMMA Ordinals ==
    ASSUME NEW n \in Nat, NEW S \in SUBSET (1..n)
    PROVE  IsFiniteSet(S) /\ Cardinality(S) \in 0..n
<1>1. IsFiniteSet(1..n) /\ Cardinality(1..n) = n
  BY FS_Interval
<1>2. IsFiniteSet(S) /\ Cardinality(S) <= n
  BY <1>1, FS_Subset
<1> QED
  BY <1>2, FS_CardinalityType

LEMMA Counters ==
    /\ Rows \in Nat /\ \A n \in 0..Rows : n \in Nat
    /\ \A scan \in ScanRecord : scan.scanned \in Nat /\ scan.valid \in Nat
                               /\ scan.rows \in SUBSET (1..Rows)
    /\ \A me \in WorkerRecord : me.at \in Nat /\ me.valid \in Nat
                               /\ me.batch \in SUBSET (1..Rows)
<1>1. Rows \in Nat
  BY RiskAssumption
<1>2. \A n \in 0..Rows : n \in Nat
  BY <1>1
<1> QED
  BY <1>1, <1>2 DEF ScanRecord, WorkerRecord

\* The file has no row beyond the last one.
LEMMA WholeFile ==
    ASSUME NEW v \in Versions
    PROVE  Content[v] \cap (1..Rows) = Content[v] /\ Cardinality(Content[v]) \in 0..Rows
BY RiskAssumption, Ordinals

\* A scan has no more usable rows than rows.
LEMMA ValidBounded ==
    ASSUME RiskInv, NEW s \in Scans
    PROVE  scans[s].valid <= scans[s].scanned
<1>1. scans[s].scanned \in Nat /\ scans[s].rows \in SUBSET (1..scans[s].scanned)
      /\ Cardinality(scans[s].rows) = scans[s].valid
  BY RiskAssumption DEF RiskInv, RiskTypeOK, ScanRecord, ScanOK
<1> QED
  BY <1>1, Ordinals

\* What a step leaves of a scan that does not store, count or publish.
SameData(s) ==
    /\ scans'[s].rows = scans[s].rows
    /\ scans'[s].scanned = scans[s].scanned
    /\ scans'[s].valid = scans[s].valid
    /\ scans'[s].signed = scans[s].signed
    /\ scans'[s].result = scans[s].result
    /\ scans'[s].status = "absent" => scans[s].status = "absent"

\* A worker that keeps its variables, and gains no scan.
Undisturbed(w) ==
    /\ workers'[w] = workers[w]
    /\ \A s \in Scans : scans'[s].worker = w => scans[s].worker = w /\ SameData(s)

LEMMA ScanKept ==
    ASSUME source' = source, NEW s \in Scans, SameData(s), ScanOK(s)
    PROVE  ScanOK(s)'
BY DEF SameData, ScanOK, Usable

LEMMA WorkerKept ==
    ASSUME source' = source, NEW w \in Screeners, Undisturbed(w), Holds(w)
    PROVE  Holds(w)'
BY DEF Undisturbed, SameData, Holds, Continues, Usable

\* Most steps: the data of the scans stay, a worker keeps its variables or is
\* done.
LEMMA DataKept ==
    ASSUME RiskInv, RiskTypeOK', source' = source,
           \A s \in Scans : SameData(s),
           \A w \in Screeners : Undisturbed(w) \/ workers'[w].pc = "idle" \/ Holds(w)'
    PROVE  RiskInv'
<1>1. \A s \in Scans : ScanOK(s)'
  BY ScanKept DEF RiskInv
<1>2. \A w \in Screeners : Holds(w)'
  BY WorkerKept DEF RiskInv, Holds
<1> QED
  BY <1>1, <1>2 DEF RiskInv

LEMMA InitRiskInv == RiskInit => RiskInv
<1> SUFFICES ASSUME RiskInit PROVE RiskInv
  OBVIOUS
<1>1. RiskTypeOK
  BY RiskAssumption DEF RiskInit, RiskTypeOK, ScanRecord, WorkerRecord, NoScan, Idle,
     NoResult, Results, Statuses
<1>2. ASSUME NEW s \in Scans PROVE ScanOK(s)
  <2>1. scans[s] = NoScan /\ source = 0
    BY DEF RiskInit
  <2>2. Cardinality({}) = 0
    BY FS_EmptySet
  <2> QED
    BY <2>1, <2>2 DEF ScanOK, NoScan, NoResult, Usable
<1>3. \A w \in Screeners : Holds(w)
  BY DEF RiskInit, Holds, Idle
<1> QED
  BY <1>1, <1>2, <1>3 DEF RiskInv

-----------------------------------------------------------------------------
(* The user's steps.                                                       *)

LEMMA NoScanTyped == NoScan \in ScanRecord
BY RiskAssumption DEF ScanRecord, Statuses, NoScan, NoResult, Results

LEMMA StartInv ==
    ASSUME RiskInv, NEW r \in RunIds, NEW s \in Scans, Start(r, s)
    PROVE  RiskInv'
<1>1. PICK n \in 1..Cardinality(Scans) :
        scans' = [scans EXCEPT ![s] =
                    [NoScan EXCEPT !.run = r, !.status = "queued",
                                   !.signed = source, !.born = n]]
  BY DEF Start
<1>2. workers' = workers /\ source' = source /\ mishaps' = mishaps /\ source \in Nat
      /\ RiskTypeOK
  BY RiskAssumption DEF Start, RiskInv, RiskTypeOK
<1> DEFINE record == [NoScan EXCEPT !.run = r, !.status = "queued",
                                    !.signed = source, !.born = n]
<1>3. record \in ScanRecord
  <2>1. n \in Nat
    BY FS_CardinalityType, RiskAssumption
  <2>2. source \in Versions
    BY <1>2 DEF RiskTypeOK
  <2> QED
    BY <2>1, <2>2, NoScanTyped DEF ScanRecord, Statuses
<1>4. /\ record.rows = {} /\ record.scanned = 0 /\ record.valid = 0
      /\ record.signed = source /\ record.result = NoResult /\ record.worker = Nobody
  <2>1. /\ record.rows = NoScan.rows /\ record.scanned = NoScan.scanned
        /\ record.valid = NoScan.valid /\ record.signed = source
        /\ record.result = NoScan.result /\ record.worker = NoScan.worker
    BY NoScanTyped DEF ScanRecord
  <2> QED
    BY <2>1 DEF NoScan
<1> HIDE DEF record
<1>5. scans'[s] = record /\ \A t \in Scans \ {s} : scans'[t] = scans[t]
  BY <1>1, <1>2 DEF RiskTypeOK, record
<1>6. RiskTypeOK'
  BY <1>1, <1>2, <1>3 DEF RiskTypeOK, record
<1>7. ScanOK(s)'
  <2>1. Cardinality({}) = 0
    BY FS_EmptySet
  <2>2. Usable(1, 0)' = {}
    BY DEF Usable
  <2> QED
    BY <1>2, <1>4, <1>5, <2>1, <2>2 DEF ScanOK, NoResult
<1>8. \A t \in Scans \ {s} : ScanOK(t)'
  BY <1>2, <1>5, ScanKept DEF SameData, RiskInv
<1>9. \A w \in Screeners : Undisturbed(w)
  BY <1>2, <1>4, <1>5, RiskAssumption DEF Undisturbed, SameData
<1>10. \A w \in Screeners : Holds(w)'
  BY <1>2, <1>9, WorkerKept DEF RiskInv
<1> QED
  BY <1>6, <1>7, <1>8, <1>10 DEF RiskInv

LEMMA CancelInv ==
    ASSUME RiskInv, NEW s \in Scans, Cancel(s)
    PROVE  RiskInv'
<1>1. RiskTypeOK'
  <2> DEFINE settled == IF scans[s].status = "running" THEN "cancel_requested"
                        ELSE "cancelled"
             record == [scans[s] EXCEPT !.status = settled, !.stale = FALSE]
  <2>1. scans' = [scans EXCEPT ![s] = record]
    BY DEF Cancel, RiskInv, RiskTypeOK, ScanRecord
  <2>2. record \in ScanRecord
    BY ZenonT(40) DEF RiskInv, RiskTypeOK, ScanRecord, Statuses
  <2> QED
    BY <2>1, <2>2 DEF RiskInv, RiskTypeOK, Cancel
<1>2. \A t \in Scans : SameData(t) /\ scans'[t].worker = scans[t].worker
  BY DEF RiskInv, RiskTypeOK, ScanRecord, Cancel, SameData
<1> QED
  BY <1>1, <1>2, DataKept DEF Cancel, Undisturbed

LEMMA ResumeInv ==
    ASSUME RiskInv, NEW s \in Scans, Resume(s)
    PROVE  RiskInv'
<1>1. RiskTypeOK'
  BY RiskAssumption DEF RiskInv, RiskTypeOK, ScanRecord, Resume, Statuses, Mishap
<1>2. \A t \in Scans : SameData(t) /\ scans'[t].worker = scans[t].worker
  BY DEF RiskInv, RiskTypeOK, ScanRecord, Resume, SameData
<1> QED
  BY <1>1, <1>2, DataKept DEF Resume, Undisturbed

-----------------------------------------------------------------------------
(* The worker's steps.                                                     *)

\* What the sweep of the stale scans leaves.
LEMMA SweptKept ==
    ASSUME RiskTypeOK, NEW s \in Scans
    PROVE  /\ Swept(scans[s]) \in ScanRecord
           /\ Swept(scans[s]).rows = scans[s].rows
           /\ Swept(scans[s]).scanned = scans[s].scanned
           /\ Swept(scans[s]).valid = scans[s].valid
           /\ Swept(scans[s]).signed = scans[s].signed
           /\ Swept(scans[s]).result = scans[s].result
           /\ Swept(scans[s]).worker \in {scans[s].worker, Nobody}
           /\ Swept(scans[s]).status = "absent" => scans[s].status = "absent"
BY ZenonT(40) DEF Swept, RiskTypeOK, ScanRecord, Statuses

LEMMA IdleTyped == Idle \in WorkerRecord
BY RiskAssumption DEF Idle, WorkerRecord, NoResult, Results

LEMMA SweptTyped ==
    ASSUME RiskTypeOK
    PROVE  SweptScans \in [Scans -> ScanRecord]
BY SweptKept DEF SweptScans

LEMMA ClaimInv ==
    ASSUME RiskInv, NEW w \in Screeners, NEW s \in Scans, Claim(w, s)
    PROVE  RiskInv'
<1>1. RiskTypeOK /\ source' = source /\ mishaps' = mishaps
  BY DEF RiskInv, Claim
<1> DEFINE record == [Swept(scans[s]) EXCEPT !.status = "running", !.worker = w]
<1>2. scans' = [SweptScans EXCEPT ![s] = record]
  BY SweptTyped, SweptKept, <1>1 DEF Claim, SweptScans, ScanRecord
<1>3. /\ record \in ScanRecord
      /\ record.rows = scans[s].rows /\ record.scanned = scans[s].scanned
      /\ record.valid = scans[s].valid /\ record.signed = scans[s].signed
      /\ record.result = scans[s].result /\ record.worker = w
      /\ record.status = "running"
  BY SweptKept, <1>1, ZenonT(40) DEF ScanRecord, Statuses
<1> HIDE DEF record
<1>4. /\ scans'[s] = record
      /\ \A t \in Scans \ {s} : scans'[t] = Swept(scans[t])
  BY <1>1, <1>2, SweptTyped DEF SweptScans
<1>5. \A t \in Scans : SameData(t)
  BY <1>1, <1>3, <1>4, SweptKept DEF SameData
<1> DEFINE me == [Idle EXCEPT !.pc = "claimed", !.scan = s,
                              !.at = scans[s].scanned, !.valid = scans[s].valid]
<1>6. /\ me.pc = "claimed" /\ me.scan = s /\ me.at = scans[s].scanned
      /\ me.valid = scans[s].valid /\ me.batch = {}
      /\ me \in WorkerRecord
  <2>1. scans[s].scanned \in 0..Rows /\ scans[s].valid \in 0..Rows
    BY <1>1 DEF RiskTypeOK, ScanRecord
  <2>2. Idle.batch = {}
    BY DEF Idle
  <2> QED
    BY <2>1, <2>2, IdleTyped DEF WorkerRecord
<1>7. workers' = [workers EXCEPT ![w] = me]
  BY DEF Claim
<1> HIDE DEF me
<1>8. RiskTypeOK'
  BY <1>1, <1>2, <1>3, <1>6, <1>7, SweptTyped DEF RiskTypeOK
<1>9. Holds(w)'
  <2>1. Cardinality({}) = 0
    BY FS_EmptySet
  <2>2. workers'[w] = me
    BY <1>1, <1>7 DEF RiskTypeOK
  <2>3. scans[s].scanned \in Nat /\ scans[s].valid \in Nat
    BY <1>1, RiskAssumption DEF RiskTypeOK, ScanRecord
  <2>4. \A n \in Nat : Content[source'] \cap (n + 1 .. n) = {}
    OBVIOUS
  <2>5. scans[s].valid <= scans[s].scanned
    BY ValidBounded
  <2>6. Continues(w, s)'
    <3>1. scans'[s].scanned = me.at /\ scans'[s].valid = me.valid
      BY <1>3, <1>4, <1>6
    <3>2. me.batch = {} /\ me.valid = me.valid + Cardinality(me.batch) /\ me.at <= me.at
      BY <1>6, <2>1, <2>3
    <3>3. me.batch = Content[source'] \cap (me.at + 1 .. me.at)
      BY <1>6, <2>3, <2>4
    <3> QED
      BY <1>6, <2>2, <3>1, <3>2, <3>3 DEF Continues, Usable
  <2> QED
    BY <1>6, <2>2, <2>5, <2>6 DEF Holds
<1>10. \A v \in Screeners \ {w} : Undisturbed(v)
  BY <1>1, <1>3, <1>4, <1>5, <1>7, SweptKept, RiskAssumption DEF Undisturbed, RiskTypeOK
<1> QED
  BY <1>1, <1>5, <1>8, <1>9, <1>10, DataKept

LEMMA ClaimNoneInv ==
    ASSUME RiskInv, NEW w \in Screeners, ClaimNone(w)
    PROVE  RiskInv'
<1>1. RiskTypeOK'
  BY SweptTyped DEF RiskInv, RiskTypeOK, ClaimNone
<1>2. \A s \in Scans : scans'[s] = Swept(scans[s])
  BY DEF ClaimNone, SweptScans
<1>3. \A s \in Scans : SameData(s) /\ scans'[s].worker \in {scans[s].worker, Nobody}
  BY <1>2, SweptKept DEF SameData, RiskInv
<1>4. \A v \in Screeners : Undisturbed(v)
  BY <1>3, RiskAssumption DEF Undisturbed, ClaimNone
<1> QED
  BY <1>1, <1>3, <1>4, DataKept DEF ClaimNone

\* A worker moves on; nothing in the database changes.
LEMMA Moves ==
    ASSUME RiskInv, NEW w \in Screeners, NEW me \in WorkerRecord,
           workers' = [workers EXCEPT ![w] = me],
           scans' = scans, source' = source, mishaps' \in 0..MaxMishaps,
           Holds(w)'
    PROVE  RiskInv'
<1>1. RiskTypeOK'
  BY DEF RiskInv, RiskTypeOK
<1>2. \A s \in Scans : SameData(s)
  BY DEF SameData
<1>3. \A v \in Screeners \ {w} : Undisturbed(v)
  BY DEF Undisturbed, SameData, RiskInv, RiskTypeOK
<1> QED
  BY <1>1, <1>2, <1>3, DataKept

\* It moves on with the same counters and the same batch.
LEMMA MovesTo ==
    ASSUME RiskInv, NEW w \in Screeners, NEW pc, NEW ending,
           workers[w].pc # "idle",
           pc \in {"reading", "saving last", "stopping", "failing"},
           ending \in {"none", "cancelled", "interrupted"},
           pc = "saving last" => workers[w].at = Rows,
           pc = "stopping" => ending # "none",
           workers' = [workers EXCEPT ![w].pc = pc, ![w].ending = ending],
           scans' = scans, source' = source, mishaps' \in 0..MaxMishaps
    PROVE  RiskInv'
<1> DEFINE me == [workers[w] EXCEPT !.pc = pc, !.ending = ending]
<1>1. /\ me \in WorkerRecord
      /\ me.pc = pc /\ me.at = workers[w].at /\ me.valid = workers[w].valid
      /\ me.batch = workers[w].batch /\ me.scan = workers[w].scan
      /\ me.ending = ending
  BY DEF WorkerRecord, RiskInv, RiskTypeOK
<1>2. workers' = [workers EXCEPT ![w] = me] /\ workers'[w] = me
  BY DEF RiskInv, RiskTypeOK, WorkerRecord
<1> HIDE DEF me
<1>3. Holds(w)'
  BY <1>1, <1>2, ZenonT(40) DEF RiskInv, Holds, Continues, Usable
<1> QED
  BY <1>1, <1>2, <1>3, Moves

LEMMA SmallMovesInv ==
    ASSUME RiskInv, NEW w \in Screeners,
           Open(w) \/ EndOfFile(w) \/ SeeCancel(w) \/ Interrupt(w) \/ GiveUp(w)
    PROVE  RiskInv'
<1>1. /\ workers \in [Screeners -> WorkerRecord] /\ workers[w] \in WorkerRecord
      /\ mishaps \in 0..MaxMishaps /\ MaxMishaps \in Nat
      /\ workers[w].ending \in {"none", "cancelled", "interrupted"}
  BY RiskAssumption DEF RiskInv, RiskTypeOK, WorkerRecord
<1>2. ASSUME NEW pc, workers' = [workers EXCEPT ![w].pc = pc]
      PROVE  workers' = [workers EXCEPT ![w].pc = pc, ![w].ending = workers[w].ending]
  BY <1>1, <1>2 DEF WorkerRecord
<1>8. Mishap => mishaps' \in 0..MaxMishaps
  BY <1>1 DEF Mishap
<1>3. CASE Open(w)
  BY <1>1, <1>2, <1>3, MovesTo, ZenonT(40) DEF Open
<1>4. CASE EndOfFile(w)
  BY <1>1, <1>2, <1>4, MovesTo DEF EndOfFile
<1>5. CASE SeeCancel(w)
  <2>1. /\ workers[w].pc # "idle"
        /\ workers' = [workers EXCEPT ![w].pc = "stopping", ![w].ending = "cancelled"]
        /\ scans' = scans /\ source' = source /\ mishaps' = mishaps
    BY <1>5 DEF SeeCancel
  <2> QED
    BY <1>1, <2>1, MovesTo
<1>6. CASE Interrupt(w)
  BY <1>1, <1>6, <1>8, MovesTo DEF Interrupt
<1>7. CASE GiveUp(w)
  <2>1. PICK ending \in {"none", "cancelled", "interrupted"} : ending = workers[w].ending
    BY <1>1
  <2>2. /\ workers[w].pc # "idle"
        /\ workers' = [workers EXCEPT ![w].pc = "failing", ![w].ending = ending]
        /\ scans' = scans /\ source' = source /\ mishaps' \in 0..MaxMishaps
    BY <1>2, <1>7, <1>8, <2>1 DEF GiveUp
  <2> QED
    BY <2>2, MovesTo
<1> QED
  BY <1>3, <1>4, <1>5, <1>6, <1>7

LEMMA ReadRowInv ==
    ASSUME RiskInv, NEW w \in Screeners, ReadRow(w)
    PROVE  RiskInv'
<1> DEFINE old == workers[w]
           next == old.at + 1
           usable == next \in Content[source]
           batch == IF usable THEN old.batch \cup {next} ELSE old.batch
           valid == IF usable THEN old.valid + 1 ELSE old.valid
           pc == IF next % Checkpoint = 0 THEN "saving" ELSE "reading"
           me == [old EXCEPT !.at = next, !.valid = valid, !.batch = batch, !.pc = pc]
<1>1. /\ old \in WorkerRecord /\ old.pc = "reading" /\ old.at < Rows
      /\ old.at \in Nat /\ old.valid \in Nat /\ Rows \in Nat
      /\ old.batch \in SUBSET (1..Rows) /\ source' = source /\ scans' = scans
      /\ mishaps' = mishaps /\ RiskTypeOK
  <2>1. /\ old.pc = "reading" /\ old.at < Rows /\ source' = source /\ scans' = scans
        /\ mishaps' = mishaps /\ RiskTypeOK
    BY DEF ReadRow, RiskInv
  <2>2. old \in WorkerRecord
    BY <2>1 DEF RiskTypeOK
  <2>3. /\ old.at \in Nat /\ old.valid \in Nat /\ Rows \in Nat
        /\ old.batch \in SUBSET (1..Rows)
    BY <2>2, Counters
  <2> QED
    BY <2>1, <2>2, <2>3
<1>2. /\ old.scan \in Scans /\ old.valid <= old.at
      /\ scans[old.scan].worker = w => Continues(w, old.scan)
  BY <1>1 DEF RiskInv, Holds
<1>3. /\ next \in 1..Rows /\ valid \in 0..Rows /\ valid <= next
      /\ batch \in SUBSET (1..Rows)
  BY <1>1, <1>2
<1>4. workers' = [workers EXCEPT ![w] = me]
  BY <1>1 DEF ReadRow, RiskTypeOK, WorkerRecord
<1>5. pc \in {"saving", "reading"}
  OBVIOUS
<1> HIDE DEF next, valid, batch, pc
<1>6. /\ me \in WorkerRecord
      /\ me.at = next /\ me.valid = valid /\ me.batch = batch /\ me.pc = pc
      /\ me.scan = old.scan
  <2>1. next \in 0..Rows
    BY <1>1, <1>3
  <2> QED
    BY <1>1, <1>3, <1>5, <2>1 DEF WorkerRecord
<1>7. workers'[w] = me
  BY <1>1, <1>4 DEF RiskTypeOK
<1>8. ASSUME scans[old.scan].worker = w
      PROVE  Continues(w, old.scan)'
  <2> DEFINE scan == scans[old.scan]
  <2>1. Continues(w, old.scan)
    BY <1>2, <1>8
  <2>2. scan.scanned \in Nat /\ scan.valid \in Nat
    BY <1>1, <1>2 DEF RiskTypeOK, ScanRecord
  <2>3. /\ scan.scanned <= old.at
        /\ old.batch \subseteq scan.scanned + 1 .. old.at
        /\ old.valid = scan.valid + Cardinality(old.batch)
        /\ scan.signed = source =>
              old.batch = Content[source] \cap (scan.scanned + 1 .. old.at)
    BY <2>1 DEF Continues, Usable
  <2>4. IsFiniteSet(old.batch) /\ Cardinality(old.batch) \in Nat
    BY <1>1, Ordinals
  <2>5. batch \subseteq scan.scanned + 1 .. next
    BY <1>1, <2>2, <2>3 DEF batch, next
  <2>6. valid = scan.valid + Cardinality(batch)
    <3>1. next \notin old.batch
      BY <1>1, <2>2, <2>3 DEF next
    <3>2. Cardinality(old.batch \cup {next}) = Cardinality(old.batch) + 1
      BY <2>4, <3>1, FS_AddElement
    <3> QED
      BY <2>2, <2>3, <2>4, <3>2 DEF valid, batch
  <2>7. scan.signed = source =>
           batch = Content[source] \cap (scan.scanned + 1 .. next)
    BY <1>1, <2>2, <2>3 DEF batch, next
  <2>8. scan.scanned <= next
    BY <1>1, <2>2, <2>3 DEF next
  <2> QED
    BY <1>1, <1>5, <1>6, <1>7, <2>5, <2>6, <2>7, <2>8 DEF Continues, Usable
<1>9. Holds(w)'
  BY <1>1, <1>2, <1>3, <1>5, <1>6, <1>7, <1>8 DEF Holds
<1> HIDE DEF me
<1> QED
  BY <1>1, <1>4, <1>6, <1>9, Moves DEF RiskTypeOK

LEMMA AfterSaveTold ==
    /\ DOMAIN AfterSave = {"saving", "saving last", "stopping"}
    /\ AfterSave["saving"] = "reading"
    /\ AfterSave["saving last"] = "checking"
    /\ AfterSave["stopping"] = "closing"
BY DEF AfterSave

\* The batch joins the stored rows, from which it is disjoint.
LEMMA StoredOK ==
    ASSUME RiskTypeOK, NEW w \in Screeners, NEW s \in Scans, ScanOK(s), Continues(w, s),
           workers[w].batch \cap scans[s].rows = {}
    PROVE  LET new == Stored(scans[s], workers[w])
           IN  /\ new \in ScanRecord
               /\ new.rows \subseteq 1..new.scanned
               /\ Cardinality(new.rows) = new.valid
               /\ new.signed = source => new.rows = Usable(1, new.scanned)
<1> DEFINE scan == scans[s]
           me == workers[w]
           new == Stored(scan, me)
<1>1. /\ scan \in ScanRecord /\ me \in WorkerRecord
  BY DEF RiskTypeOK
<1>2. /\ new \in ScanRecord
      /\ new.rows = scan.rows \cup me.batch /\ new.scanned = me.at
      /\ new.valid = me.valid /\ new.signed = scan.signed
  BY <1>1 DEF ScanRecord, WorkerRecord, Stored
<1>3. /\ scan.scanned \in Nat /\ scan.valid \in Nat /\ me.at \in Nat
      /\ scan.rows \in SUBSET (1..Rows) /\ me.batch \in SUBSET (1..Rows)
  BY <1>1, Counters
<1>4. /\ scan.scanned <= me.at
      /\ me.batch \subseteq scan.scanned + 1 .. me.at
      /\ me.valid = scan.valid + Cardinality(me.batch)
      /\ scan.rows \subseteq 1..scan.scanned /\ Cardinality(scan.rows) = scan.valid
  BY DEF Continues, ScanOK
<1>5. scan.rows \cup me.batch \subseteq 1..me.at
  BY <1>3, <1>4
<1>6. Cardinality(scan.rows \cup me.batch) = me.valid
  <2>1. IsFiniteSet(scan.rows) /\ IsFiniteSet(me.batch) /\ Cardinality(me.batch) \in Nat
    BY <1>3, Ordinals, RiskAssumption
  <2>2. Cardinality(scan.rows \cap me.batch) = 0
    <3>1. scan.rows \cap me.batch = {}
      OBVIOUS
    <3> QED
      BY <3>1, FS_EmptySet
  <2> QED
    <3>1. Cardinality(scan.rows \cup me.batch) = scan.valid + Cardinality(me.batch) - 0
      BY <1>4, <2>1, <2>2, FS_Union
    <3> QED
      BY <1>3, <1>4, <2>1, <3>1
<1>7. scan.signed = source => scan.rows \cup me.batch = Usable(1, me.at)
  <2> SUFFICES ASSUME scan.signed = source
               PROVE  scan.rows \cup me.batch = Usable(1, me.at)
    OBVIOUS
  <2>1. /\ scan.rows = Content[source] \cap (1 .. scan.scanned)
        /\ me.batch = Content[source] \cap (scan.scanned + 1 .. me.at)
    BY DEF Continues, ScanOK, Usable
  <2>2. (1 .. scan.scanned) \cup (scan.scanned + 1 .. me.at) = 1 .. me.at
    BY <1>3, <1>4
  <2> QED
    BY <2>1, <2>2 DEF Usable
<1> QED
  BY <1>2, <1>5, <1>6, <1>7

LEMMA SaveInv ==
    ASSUME RiskInv, NEW w \in Screeners, Save(w)
    PROVE  RiskInv'
<1> DEFINE old == workers[w]
<1>1. /\ old.pc \in {"saving", "saving last", "stopping"}
      /\ source' = source /\ mishaps' = mishaps
      /\ old \in WorkerRecord /\ mishaps' \in 0..MaxMishaps
  BY AfterSaveTold DEF Save, RiskInv, RiskTypeOK
<1>2. PICK s \in Scans : s = old.scan
  BY <1>1 DEF RiskInv, Holds
<1> DEFINE scan == scans[s]
           granted == HoldsLease(w, s) /\ old.batch \cap scan.rows = {}
<1>5. /\ old.valid <= old.at /\ (scan.worker = w => Continues(w, s))
      /\ old.pc \in {"stopping", "closing"} => old.ending # "none"
  BY <1>1, <1>2 DEF RiskInv, Holds
<1>3. CASE ~granted
  <2>1. scans' = scans /\ workers' = [workers EXCEPT ![w].pc = "failing",
                                                     ![w].batch = @]
    BY <1>2, <1>3 DEF Save
  <2>2. workers' = [workers EXCEPT ![w].pc = "failing", ![w].ending = old.ending]
    BY <1>1, <2>1 DEF WorkerRecord, RiskInv, RiskTypeOK
  <2>3. old.ending \in {"none", "cancelled", "interrupted"}
    BY <1>1 DEF WorkerRecord
  <2> QED
    BY <1>1, <2>1, <2>2, <2>3, MovesTo
<1>4. CASE granted
  <2> DEFINE new == Stored(scan, old)
             me == [old EXCEPT !.pc = AfterSave[old.pc], !.batch = {}]
  <2>1. Continues(w, s) /\ scan.worker = w /\ ScanOK(s) /\ scan \in ScanRecord
    BY <1>4, <1>5 DEF HoldsLease, RiskInv, RiskTypeOK
  <2>2. /\ new \in ScanRecord
        /\ new.rows \subseteq 1..new.scanned
        /\ Cardinality(new.rows) = new.valid
        /\ new.signed = source => new.rows = Usable(1, new.scanned)
    BY <1>2, <1>4, <2>1, StoredOK DEF RiskInv
  <2>3. /\ new.scanned = old.at /\ new.valid = old.valid /\ new.signed = scan.signed
        /\ new.result = scan.result /\ new.worker = w /\ new.status # "absent"
    BY <1>4, <2>1 DEF ScanRecord, Stored, HoldsLease
  <2>4. /\ scans' = [scans EXCEPT ![s] = new]
        /\ workers' = [workers EXCEPT ![w] = me]
    BY <1>1, <1>2, <1>4 DEF Save, RiskInv, RiskTypeOK, WorkerRecord
  <2>5. /\ me \in WorkerRecord
        /\ me.pc = AfterSave[old.pc] /\ me.batch = {} /\ me.at = old.at
        /\ me.valid = old.valid /\ me.scan = s /\ me.ending = old.ending
        /\ me.pc = "closing" => old.pc = "stopping"
    BY <1>1, <1>2, AfterSaveTold DEF WorkerRecord
  <2> HIDE DEF new, me
  <2>6. RiskTypeOK'
    BY <1>1, <1>2, <2>2, <2>4, <2>5 DEF RiskInv, RiskTypeOK
  <2>7. /\ scans'[s] = new /\ \A t \in Scans \ {s} : scans'[t] = scans[t]
        /\ workers'[w] = me /\ \A v \in Screeners \ {w} : workers'[v] = workers[v]
    BY <1>2, <2>4 DEF RiskInv, RiskTypeOK
  <2>8. ScanOK(s)'
    BY <1>1, <2>1, <2>2, <2>3, <2>7 DEF ScanOK, Usable
  <2>9. \A t \in Scans \ {s} : ScanOK(t)'
    BY <1>1, <2>7, ScanKept DEF SameData, RiskInv
  <2>10. Continues(w, s)'
    <3>1. old.at \in Nat /\ old.valid \in Nat /\ Cardinality({}) = 0
      BY <1>1, FS_EmptySet, Counters
    <3>2. Content[source'] \cap (old.at + 1 .. old.at) = {}
      BY <3>1
    <3>3. me.pc \in {"reading", "checking", "closing"} /\ (me.pc = "checking" => old.at = Rows)
      BY <1>1, <2>1, <2>5, AfterSaveTold, ZenonT(40) DEF Continues
    <3>4. /\ scans'[s].scanned = old.at /\ scans'[s].valid = old.valid
          /\ workers'[w].at = old.at /\ workers'[w].valid = old.valid
          /\ workers'[w].batch = {} /\ workers'[w].pc = me.pc
      BY <2>3, <2>5, <2>7
    <3>5. old.at <= old.at /\ old.valid = old.valid + Cardinality({})
      BY <3>1
    <3> QED
      BY <3>2, <3>3, <3>4, <3>5 DEF Continues, Usable
  <2>11. Holds(w)'
    <3>1. me.pc \in {"reading", "checking", "closing"}
      BY <1>1, <2>5, AfterSaveTold
    <3> QED
      BY <1>5, <2>5, <2>7, <2>10, <3>1 DEF Holds
  <2>12. \A v \in Screeners \ {w} : Holds(v)'
    <3>1. \A v \in Screeners \ {w} : Undisturbed(v)
      BY <2>3, <2>7 DEF Undisturbed, SameData
    <3> QED
      BY <1>1, <3>1, WorkerKept DEF RiskInv
  <2> QED
    BY <2>6, <2>8, <2>9, <2>11, <2>12 DEF RiskInv
<1> QED
  BY <1>3, <1>4

\* A worker is done with a scan, which it leaves to nobody or as it was.
LEMMA Leaves ==
    ASSUME RiskInv, NEW w \in Screeners, NEW s \in Scans, NEW record \in ScanRecord,
           record.worker = Nobody \/ record = scans[s],
           scans' = [scans EXCEPT ![s] = record],
           workers' = [workers EXCEPT ![w] = Idle],
           source' = source, mishaps' = mishaps,
           ScanOK(s)'
    PROVE  RiskInv'
<1>1. /\ scans'[s] = record /\ \A t \in Scans \ {s} : scans'[t] = scans[t]
      /\ workers'[w] = Idle /\ \A v \in Screeners \ {w} : workers'[v] = workers[v]
  BY DEF RiskInv, RiskTypeOK
<1>2. RiskTypeOK'
  BY IdleTyped DEF RiskInv, RiskTypeOK
<1>3. \A t \in Scans \ {s} : ScanOK(t)'
  BY <1>1, ScanKept DEF SameData, RiskInv
<1>4. \A v \in Screeners \ {w} : Undisturbed(v)
  BY <1>1, RiskAssumption DEF Undisturbed, SameData
<1>5. \A v \in Screeners \ {w} : Holds(v)'
  BY <1>4, WorkerKept DEF RiskInv
<1>6. Holds(w)'
  BY <1>1 DEF Holds, Idle
<1> QED
  BY <1>2, <1>3, <1>5, <1>6 DEF RiskInv

\* It leaves a status, and the data as they are.
LEMMA LeavesStatus ==
    ASSUME RiskInv, NEW w \in Screeners, NEW s \in Scans,
           NEW status \in Statuses \ {"absent"},
           scans' = [scans EXCEPT ![s].status = status, ![s].worker = Nobody,
                                  ![s].stale = FALSE],
           workers' = [workers EXCEPT ![w] = Idle],
           source' = source, mishaps' = mishaps
    PROVE  RiskInv'
<1> DEFINE record == [scans[s] EXCEPT !.status = status, !.worker = Nobody,
                                      !.stale = FALSE]
<1>1. scans[s] \in ScanRecord /\ scans \in [Scans -> ScanRecord]
  BY DEF RiskInv, RiskTypeOK
<1>2. /\ record \in ScanRecord /\ record.worker = Nobody
      /\ record.rows = scans[s].rows /\ record.scanned = scans[s].scanned
      /\ record.valid = scans[s].valid /\ record.signed = scans[s].signed
      /\ record.result = scans[s].result /\ record.status = status
  BY <1>1 DEF ScanRecord
<1>3. scans' = [scans EXCEPT ![s] = record]
  BY <1>1 DEF ScanRecord
<1> HIDE DEF record
<1>4. ScanOK(s)'
  BY <1>1, <1>2, <1>3, ScanKept DEF SameData, RiskInv
<1> QED
  BY <1>2, <1>3, <1>4, Leaves

\* It leaves the scan alone.
LEMMA LeavesAlone ==
    ASSUME RiskInv, NEW w \in Screeners, NEW s \in Scans, scans' = scans,
           workers' = [workers EXCEPT ![w] = Idle],
           source' = source, mishaps' = mishaps
    PROVE  RiskInv'
<1>1. scans[s] \in ScanRecord /\ scans' = [scans EXCEPT ![s] = scans[s]]
  BY DEF RiskInv, RiskTypeOK
<1>2. ScanOK(s)'
  BY ScanKept DEF SameData, RiskInv
<1> QED
  BY <1>1, <1>2, Leaves

LEMMA CloseInv ==
    ASSUME RiskInv, NEW w \in Screeners, Close(w)
    PROVE  RiskInv'
<1>1. /\ workers[w].pc = "closing" /\ source' = source /\ mishaps' = mishaps
      /\ workers[w] \in WorkerRecord
  BY DEF RiskInv, RiskTypeOK, Close
<1>2. PICK s \in Scans : s = workers[w].scan
  BY <1>1 DEF RiskInv, Holds
<1>3. workers[w].ending \in Statuses \ {"absent"}
  BY <1>1 DEF RiskInv, Holds, WorkerRecord, Statuses
<1> QED
  BY <1>1, <1>2, <1>3, LeavesStatus DEF Close

LEMMA FailScanInv ==
    ASSUME RiskInv, NEW w \in Screeners, FailScan(w)
    PROVE  RiskInv'
<1>1. /\ workers[w].pc = "failing" /\ source' = source /\ mishaps' = mishaps
      /\ workers' = [workers EXCEPT ![w] = Idle] /\ "failed" \in Statuses \ {"absent"}
  BY DEF FailScan, Statuses
<1>2. PICK s \in Scans : s = workers[w].scan
  BY <1>1 DEF RiskInv, Holds
<1>3. CASE scans[s].worker = w
  BY <1>1, <1>2, <1>3, LeavesStatus DEF FailScan
<1>4. CASE scans[s].worker # w
  BY <1>1, <1>2, <1>4, LeavesAlone DEF FailScan
<1> QED
  BY <1>3, <1>4

LEMMA ReckonInv ==
    ASSUME RiskInv, NEW w \in Screeners, Reckon(w)
    PROVE  RiskInv'
<1>1. PICK s \in Scans : s = workers[w].scan
  BY DEF RiskInv, Holds, Reckon
<1> DEFINE old == workers[w]
           scan == scans[s]
           sound == scan.signed = source /\ Cardinality(scan.rows) = scan.valid
           pc == IF sound THEN "publishing" ELSE "failing"
           result == [scanned |-> scan.scanned, valid |-> scan.valid, published |-> TRUE]
           me == [old EXCEPT !.pc = pc, !.result = result]
<1>2. /\ old \in WorkerRecord /\ scan \in ScanRecord /\ old.pc = "checking"
      /\ scans' = scans /\ source' = source /\ mishaps' = mishaps
      /\ mishaps' \in 0..MaxMishaps /\ source \in Versions
  BY DEF RiskInv, RiskTypeOK, Reckon
<1>3. result \in Results
  BY <1>2 DEF ScanRecord, Results
<1>4. workers' = [workers EXCEPT ![w] = me]
  BY <1>1, <1>2 DEF Reckon, RiskInv, RiskTypeOK, WorkerRecord
<1>5. pc \in {"publishing", "failing"}
  OBVIOUS
<1> HIDE DEF pc, result
<1>6. /\ me \in WorkerRecord
      /\ me.pc = pc /\ me.result = result /\ me.at = old.at /\ me.valid = old.valid
      /\ me.batch = old.batch /\ me.scan = s
  BY <1>1, <1>2, <1>3, <1>5 DEF WorkerRecord
<1>7. workers'[w] = me
  BY <1>4 DEF RiskInv, RiskTypeOK
<1> HIDE DEF me
<1>8. old.valid <= old.at /\ (scan.worker = w => Continues(w, s)) /\ ScanOK(s)
  BY <1>1, <1>2 DEF RiskInv, Holds
<1>9. ASSUME scan.worker = w PROVE Continues(w, s)'
  <2>1. Continues(w, s) /\ scan.scanned = Rows
    BY <1>2, <1>8, <1>9 DEF Continues
  <2>2. ASSUME pc = "publishing"
        PROVE  result.scanned = Rows /\ result.valid = Cardinality(Content[scan.signed])
    <3>1. scan.signed = source
      BY <2>2 DEF pc
    <3>2. scan.rows = Content[source] \cap (1..Rows) /\ scan.valid = Cardinality(scan.rows)
      BY <1>8, <2>1, <3>1 DEF ScanOK, Usable
    <3>3. scan.rows = Content[source]
      BY <1>2, <3>2, WholeFile
    <3> QED
      BY <2>1, <3>1, <3>2, <3>3 DEF result
  <2> QED
    BY <1>2, <1>5, <1>6, <1>7, <2>1, <2>2 DEF Continues, Usable
<1>10. Holds(w)'
  BY <1>2, <1>5, <1>6, <1>7, <1>8, <1>9 DEF Holds
<1> QED
  BY <1>2, <1>4, <1>6, <1>10, Moves

LEMMA PublishInv ==
    ASSUME RiskInv, NEW w \in Screeners, Publish(w)
    PROVE  RiskInv'
<1>1. /\ workers[w].pc = "publishing" /\ source' = source /\ mishaps' = mishaps
      /\ workers' = [workers EXCEPT ![w] = Idle] /\ "cancelled" \in Statuses \ {"absent"}
      /\ scans \in [Scans -> ScanRecord] /\ workers[w] \in WorkerRecord
  BY DEF RiskInv, RiskTypeOK, Publish, Statuses
<1>2. PICK s \in Scans : s = workers[w].scan
  BY <1>1 DEF RiskInv, Holds
<1> DEFINE scan == scans[s]
<1>3. CASE scan.status = "cancel_requested"
  <2>1. scans' = [scans EXCEPT ![s].status = "cancelled", ![s].worker = Nobody,
                               ![s].stale = FALSE]
    BY <1>1, <1>2, <1>3 DEF Publish, ScanRecord
  <2> QED
    BY <1>1, <2>1, LeavesStatus
<1>4. CASE scan.status = "running" /\ scan.worker = w
  <2> DEFINE record == [scan EXCEPT !.status = "completed", !.worker = Nobody,
                                    !.result = workers[w].result, !.stale = FALSE]
  <2>1. scans' = [scans EXCEPT ![s] = record]
    BY <1>1, <1>2, <1>4 DEF Publish, ScanRecord
  <2>2. scan \in ScanRecord /\ workers[w].result \in Results
    BY <1>1 DEF WorkerRecord
  <2>3. /\ record \in ScanRecord /\ record.worker = Nobody
        /\ record.rows = scan.rows /\ record.scanned = scan.scanned
        /\ record.valid = scan.valid /\ record.signed = scan.signed
        /\ record.result = workers[w].result /\ record.status # "absent"
    BY <2>2 DEF ScanRecord, Statuses
  <2> HIDE DEF record
  <2>4. scans'[s] = record
    BY <1>1, <2>1
  <2>5. ScanOK(s) /\ Continues(w, s)
    BY <1>1, <1>2, <1>4 DEF RiskInv, Holds
  <2>6. ScanOK(s)'
    BY <1>1, <2>3, <2>4, <2>5 DEF ScanOK, Continues, Usable
  <2> QED
    BY <1>1, <2>1, <2>3, <2>6, Leaves
<1>5. CASE scan.status # "cancel_requested" /\ ~(scan.status = "running" /\ scan.worker = w)
  <2>1. scans' = scans
    BY <1>1, <1>2, <1>5 DEF Publish
  <2> QED
    BY <1>1, <2>1, LeavesAlone
<1> QED
  BY <1>3, <1>4, <1>5

-----------------------------------------------------------------------------
(* The environment's steps.                                                *)

LEMMA DieInv ==
    ASSUME RiskInv, NEW w \in Screeners, Die(w)
    PROVE  RiskInv'
<1>1. mishaps' \in 0..MaxMishaps
  BY RiskAssumption DEF Die, Mishap, RiskInv, RiskTypeOK
<1>2. Holds(w)'
  BY DEF Die, Holds, Idle, RiskInv, RiskTypeOK
<1> QED
  BY <1>1, <1>2, IdleTyped, Moves DEF Die

LEMMA TakeForDeadInv ==
    ASSUME RiskInv, NEW s \in Scans, TakeForDead(s)
    PROVE  RiskInv'
<1>1. mishaps' \in 0..MaxMishaps
  BY RiskAssumption DEF TakeForDead, Mishap, RiskInv, RiskTypeOK
<1>2. RiskTypeOK'
  BY <1>1, ZenonT(40) DEF RiskInv, RiskTypeOK, ScanRecord, TakeForDead
<1>3. \A t \in Scans : SameData(t) /\ scans'[t].worker = scans[t].worker
  BY DEF RiskInv, RiskTypeOK, ScanRecord, TakeForDead, SameData
<1> QED
  BY <1>2, <1>3, DataKept DEF TakeForDead, Undisturbed

\* The new version is none that a scan was started on.
LEMMA EditSourceInv ==
    ASSUME RiskInv, EditSource
    PROVE  RiskInv'
<1>1. /\ source \in Nat /\ source' = source + 1 /\ source' \in Versions
      /\ scans' = scans /\ workers' = workers /\ mishaps' = mishaps
  BY RiskAssumption DEF EditSource, RiskInv, RiskTypeOK
<1>2. RiskTypeOK'
  BY <1>1 DEF RiskInv, RiskTypeOK
<1>3. ASSUME NEW s \in Scans
      PROVE  scans[s].signed \in Nat /\ scans[s].signed <= source
             /\ scans[s].signed # source' /\ scans[s].signed <= source'
  <2>1. scans[s].signed \in Nat
    BY RiskAssumption DEF RiskInv, RiskTypeOK, ScanRecord
  <2>2. scans[s].signed <= source
    BY DEF RiskInv, ScanOK
  <2> QED
    BY <1>1, <2>1, <2>2
<1>4. \A s \in Scans : ScanOK(s)'
  BY <1>1, <1>3 DEF RiskInv, ScanOK
<1>5. ASSUME NEW w \in Screeners, NEW s \in Scans, Continues(w, s)
      PROVE  Continues(w, s)'
  BY <1>1, <1>3, <1>5 DEF Continues
<1>6. \A w \in Screeners : Holds(w)'
  BY <1>1, <1>5 DEF RiskInv, Holds
<1> QED
  BY <1>2, <1>4, <1>6 DEF RiskInv

-----------------------------------------------------------------------------
LEMMA StepRiskInv == RiskInv /\ [RiskNext]_riskVars => RiskInv'
<1> SUFFICES ASSUME RiskInv, [RiskNext]_riskVars PROVE RiskInv'
  OBVIOUS
<1>1. CASE UserStep
  BY <1>1, StartInv, CancelInv, ResumeInv DEF UserStep
<1>2. ASSUME NEW w \in Screeners, WorkerStep(w) PROVE RiskInv'
  BY <1>2, SmallMovesInv, ReadRowInv, SaveInv, CloseInv, ReckonInv, PublishInv, FailScanInv
     DEF WorkerStep
<1>3. ASSUME NEW w \in Screeners, Poll(w) \/ Interrupt(w) \/ GiveUp(w) \/ Die(w)
      PROVE  RiskInv'
  BY <1>3, ClaimInv, ClaimNoneInv, SmallMovesInv, DieInv DEF Poll
<1>4. CASE \E s \in Scans : TakeForDead(s)
  BY <1>4, TakeForDeadInv
<1>5. CASE EditSource
  BY <1>5, EditSourceInv
<1>6. CASE UNCHANGED riskVars
  <2>1. RiskTypeOK' /\ source' = source
    BY <1>6 DEF riskVars, RiskInv, RiskTypeOK
  <2>2. /\ \A s \in Scans : SameData(s)
        /\ \A w \in Screeners : Undisturbed(w)
    BY <1>6 DEF riskVars, SameData, Undisturbed
  <2> QED
    BY <2>1, <2>2, DataKept
<1> QED
  BY <1>1, <1>2, <1>3, <1>4, <1>5, <1>6 DEF RiskNext

-----------------------------------------------------------------------------
(* What a step never does.                                                 *)

\* A step may not throw a scan back, nor complete a scan that is to be cancelled.
Advances(s) ==
    /\ scans[s].scanned <= scans'[s].scanned
    /\ scans[s].rows \subseteq scans'[s].rows

Honours(s) == scans[s].status = "cancel_requested" => scans'[s].status # "completed"

\* It is enough that the two fields stay.
LEMMA StaysAdvances ==
    ASSUME RiskTypeOK, NEW s \in Scans,
           scans'[s].scanned = scans[s].scanned, scans'[s].rows = scans[s].rows
    PROVE  Advances(s)
<1>1. scans[s].scanned \in Nat
  BY Counters DEF RiskTypeOK
<1> QED
  BY <1>1 DEF Advances

LEMMA UserRespects ==
    ASSUME RiskInv, UserStep, NEW s \in Scans
    PROVE  Advances(s) /\ Honours(s)
<1>1. RiskTypeOK /\ scans \in [Scans -> ScanRecord]
  BY DEF RiskInv, RiskTypeOK
<1>2. ASSUME NEW t \in Scans, NEW r \in RunIds, Start(r, t)
      PROVE  Advances(s) /\ Honours(s)
  <2>1. CASE s # t
    <3>1. scans'[s] = scans[s]
      BY <1>1, <1>2, <2>1 DEF Start
    <3> QED
      BY <1>1, <3>1, StaysAdvances DEF Honours
  <2>2. CASE s = t
    <3>1. PICK n : scans'[s] = [NoScan EXCEPT !.run = r, !.status = "queued",
                                              !.signed = source, !.born = n]
      BY <1>1, <1>2, <2>2 DEF Start
    <3>2. scans'[s].scanned = NoScan.scanned /\ scans'[s].rows = NoScan.rows
          /\ scans'[s].status = "queued"
      BY <3>1, NoScanTyped DEF ScanRecord
    <3>3. scans'[s].scanned = 0 /\ scans'[s].rows = {}
      BY <3>2 DEF NoScan
    <3>4. scans[s].scanned = 0 /\ scans[s].rows = {}
      BY <1>2, <2>2 DEF Start, RiskInv, ScanOK
    <3> QED
      BY <3>2, <3>3, <3>4 DEF Advances, Honours
  <2> QED
    BY <2>1, <2>2
<1>3. ASSUME NEW t \in Scans, Cancel(t) \/ Resume(t)
      PROVE  Advances(s) /\ Honours(s)
  <2>1. /\ scans'[s].scanned = scans[s].scanned /\ scans'[s].rows = scans[s].rows
        /\ scans'[s].status # "completed" \/ scans'[s].status = scans[s].status
    BY <1>1, <1>3 DEF Cancel, Resume, ScanRecord
  <2> QED
    BY <1>1, <2>1, StaysAdvances DEF Honours
<1> QED
  BY <1>2, <1>3 DEF UserStep

LEMMA SaveRespects ==
    ASSUME RiskInv, NEW w \in Screeners, Save(w), NEW s \in Scans
    PROVE  Advances(s) /\ Honours(s)
<1>1. /\ RiskTypeOK /\ scans \in [Scans -> ScanRecord] /\ workers[w] \in WorkerRecord
      /\ workers[w].pc # "idle"
  BY AfterSaveTold DEF RiskInv, RiskTypeOK, Save
<1>2. CASE scans'[s] = scans[s]
  BY <1>1, <1>2, StaysAdvances DEF Honours
<1>3. CASE scans'[s] # scans[s]
  <2>1. /\ s = workers[w].scan /\ HoldsLease(w, s)
        /\ scans' = [scans EXCEPT ![s] = Stored(@, workers[w])]
    BY <1>1, <1>3 DEF Save
  <2>2. Continues(w, s)
    BY <1>1, <2>1 DEF RiskInv, Holds, HoldsLease
  <2>3. scans'[s] = Stored(scans[s], workers[w])
    BY <1>1, <2>1
  <2>4. /\ scans'[s].scanned = workers[w].at
        /\ scans'[s].rows = scans[s].rows \cup workers[w].batch
        /\ scans'[s].status = scans[s].status
    BY <1>1, <2>3 DEF Stored, ScanRecord
  <2> QED
    BY <2>2, <2>4 DEF Advances, Honours, Continues
<1> QED
  BY <1>2, <1>3

LEMMA WorkerRespects ==
    ASSUME RiskInv, NEW w \in Screeners,
           WorkerStep(w) \/ Poll(w) \/ Interrupt(w) \/ GiveUp(w) \/ Die(w),
           NEW s \in Scans
    PROVE  Advances(s) /\ Honours(s)
<1>1. /\ RiskTypeOK /\ scans \in [Scans -> ScanRecord] /\ workers[w] \in WorkerRecord
      /\ scans[s] \in ScanRecord
  BY DEF RiskInv, RiskTypeOK
<1>2. ASSUME scans'[s].scanned = scans[s].scanned, scans'[s].rows = scans[s].rows,
             scans[s].status = "cancel_requested" => scans'[s].status # "completed"
      PROVE  Advances(s) /\ Honours(s)
  BY <1>1, <1>2, StaysAdvances DEF Honours
<1>3. CASE scans' = scans
  BY <1>2, <1>3
<1>4. CASE Save(w)
  BY <1>4, SaveRespects
<1>5. CASE Close(w)
  <2>1. workers[w].ending # "completed"
    BY <1>1 DEF WorkerRecord
  <2> QED
    BY <1>1, <1>2, <1>5, <2>1 DEF Close, ScanRecord
<1>6. CASE Publish(w)
  BY <1>1, <1>2, <1>6 DEF Publish, ScanRecord
<1>7. CASE FailScan(w)
  BY <1>1, <1>2, <1>7 DEF FailScan, ScanRecord
<1>8. CASE ClaimNone(w)
  <2>1. scans'[s] = Swept(scans[s])
    BY <1>8 DEF ClaimNone, SweptScans
  <2>2. Swept(scans[s]).status # "completed" \/ Swept(scans[s]) = scans[s]
    BY <1>1 DEF Swept, ScanRecord
  <2> QED
    BY <1>1, <1>2, <2>1, <2>2, SweptKept
<1>9. ASSUME NEW t \in Scans, Claim(w, t)
      PROVE  Advances(s) /\ Honours(s)
  <2>1. scans'[s] = IF s = t THEN [Swept(scans[s]) EXCEPT !.status = "running", !.worker = w]
                    ELSE Swept(scans[s])
    BY <1>1, <1>9, SweptTyped DEF Claim, SweptScans, ScanRecord
  <2>2. Swept(scans[s]) \in ScanRecord
        /\ (Swept(scans[s]).status # "completed" \/ Swept(scans[s]) = scans[s])
    BY <1>1, SweptKept DEF Swept, ScanRecord
  <2>3. /\ scans'[s].scanned = Swept(scans[s]).scanned
        /\ scans'[s].rows = Swept(scans[s]).rows
        /\ scans'[s].status \in {"running", Swept(scans[s]).status}
    BY <2>1, <2>2 DEF ScanRecord
  <2> QED
    BY <1>1, <1>2, <2>2, <2>3, SweptKept
<1> QED
  BY <1>3, <1>4, <1>5, <1>6, <1>7, <1>8, <1>9
     DEF WorkerStep, Poll, Interrupt, GiveUp, Die, Open, ReadRow, EndOfFile, SeeCancel, Reckon

LEMMA StepRespects ==
    ASSUME RiskInv, [RiskNext]_riskVars, NEW s \in Scans
    PROVE  Advances(s) /\ Honours(s)
<1>1. RiskTypeOK /\ scans \in [Scans -> ScanRecord]
  BY DEF RiskInv, RiskTypeOK
<1>2. CASE UserStep
  BY <1>2, UserRespects
<1>3. ASSUME NEW w \in Screeners,
             WorkerStep(w) \/ Poll(w) \/ Interrupt(w) \/ GiveUp(w) \/ Die(w)
      PROVE  Advances(s) /\ Honours(s)
  BY <1>3, WorkerRespects
<1>4. ASSUME NEW t \in Scans, TakeForDead(t)
      PROVE  Advances(s) /\ Honours(s)
  <2>1. /\ scans'[s].scanned = scans[s].scanned /\ scans'[s].rows = scans[s].rows
        /\ scans'[s].status = scans[s].status
    BY <1>1, <1>4 DEF TakeForDead, ScanRecord
  <2> QED
    BY <1>1, <2>1, StaysAdvances DEF Honours
<1>5. CASE EditSource \/ UNCHANGED riskVars
  <2>1. scans' = scans
    BY <1>5 DEF EditSource, riskVars
  <2> QED
    BY <1>1, <2>1, StaysAdvances DEF Honours
<1> QED
  BY <1>2, <1>3, <1>4, <1>5 DEF RiskNext

\* RiskInv, which ties each scan's rows, checkpoint and counters to one another and to what
\* its worker carries (_run_job), holds in every reachable state: it is inductive.
THEOREM RiskInvHolds == RiskSpec => []RiskInv
BY InitRiskInv, StepRiskInv, PTL DEF RiskSpec

\* Scans, workers, the file's version and the count of mishaps keep their shape
\* through every interleaving of API and workers.
THEOREM RiskTypeCorrect == RiskSpec => []RiskTypeOK
<1>1. RiskInv => RiskTypeOK
  BY DEF RiskInv
<1> QED
  BY <1>1, RiskInvHolds, PTL

\* commit_batch: rows and counters agree, for any number of workers that lose,
\* resume and share scans.
THEOREM LedgerAgreesHolds == RiskSpec => []LedgerAgrees
<1>1. RiskInv => LedgerAgrees
  BY DEF RiskInv, ScanOK, LedgerAgrees
<1> QED
  BY <1>1, RiskInvHolds, PTL

\* _finalize: a published result counts every row of the screened file once.
THEOREM ResultsWhole == RiskSpec => []ResultWhole
<1>1. RiskInv => ResultWhole
  BY DEF RiskInv, ScanOK, ResultWhole
<1> QED
  BY <1>1, RiskInvHolds, PTL

\* commit_batch: no worker, late or not, takes back what another one stored.
THEOREM CheckpointsAdvance == RiskSpec => CheckpointAdvances
<1>1. RiskInv /\ [RiskNext]_riskVars =>
        [\A s \in Scans : /\ scans[s].scanned <= scans'[s].scanned
                          /\ scans[s].rows \subseteq scans'[s].rows]_riskVars
  BY StepRespects DEF Advances
<1> QED
  BY <1>1, RiskInvHolds, PTL DEF RiskSpec, CheckpointAdvances

\* _run_job: a scan that is to be cancelled is not completed.
THEOREM CancellationsHonoured == RiskSpec => CancelHonoured
<1>1. RiskInv /\ [RiskNext]_riskVars =>
        [\A s \in Scans : scans[s].status = "cancel_requested" =>
                             scans'[s].status # "completed"]_riskVars
  BY StepRespects DEF Honours
<1> QED
  BY <1>1, RiskInvHolds, PTL DEF RiskSpec, CancelHonoured
=============================================================================
