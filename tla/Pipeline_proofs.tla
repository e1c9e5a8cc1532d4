-------------------------- MODULE Pipeline_proofs ---------------------------
(***************************************************************************)
(*  Proofs about AnalysisPipeline (what each agent takes and writes over   *)
(*  the executions of a run), RunResults (questions, calculations and the  *)
(*  progress stream beside them) and, at the end, SpendFigures (what is    *)
(*  worked out of one file).                                               *)
(*                                                                         *)
(*  The argument goes in layers. StoreInv says what the stores of a run    *)
(*  hold: records are only appended, and every record names a file that an *)
(*  agent of its type has written. PlanInv says that a dynamic execution   *)
(*  nobody disturbed follows a plan that its dataset meets. DataInv follows*)
(*  what the agents read: the table an execution works on, what is         *)
(*  delivered of it, the files of attempts that died, and the links of a   *)
(*  report back to the datasets. ResultsInv adds the questions: what a     *)
(*  request at work has found, what an answer is about, the answers saved  *)
(*  and under way, and what the stream has shown.                          *)
(***************************************************************************)
EXTENDS RunResults, SpendFigures, FiniteSetTheorems, SequenceTheorems, WellFoundedInduction, TLAPS

\* Every set of numbers that is not empty has a least one.
LEMMA LeastNumber ==
    ASSUME NEW T, T \subseteq Nat, T # {}
    PROVE  \E i \in T : \A k \in T : i <= k
<1> DEFINE R == {ss \in Nat \X Nat : ss[1] < ss[2]}
<1>1. IsWellFoundedOn(R, Nat)
  BY NatLessThanWellFounded DEF OpToRel
<1>2. PICK i \in T : \A k \in T : <<k, i>> \notin R
  BY <1>1, WFMin
<1>3. ASSUME NEW k \in T
      PROVE  i <= k
  <2>1. i \in Nat /\ k \in Nat /\ ~(k < i)
    BY <1>2
  <2>2. QED
    BY <2>1
<1>4. QED
  BY <1>3

LEMMA Counting ==
    ASSUME NEW N \in Nat, NEW S, 0 \in S, \A n \in 0..N : n \in S /\ n < N => n + 1 \in S
    PROVE  \A n \in 0..N : n \in S
<1>1. SUFFICES ASSUME (0..N) \ S # {} PROVE FALSE
  OBVIOUS
<1>2. (0..N) \ S \subseteq Nat
  OBVIOUS
<1>3. PICK i \in (0..N) \ S : \A k \in (0..N) \ S : i <= k
  BY <1>1, <1>2, LeastNumber
<1>4. i # 0 /\ i - 1 \in 0..N /\ i - 1 < N
  BY <1>3
<1>5. i - 1 \in S
  BY <1>3, <1>4
<1>6. (i - 1) + 1 \in S
  BY <1>4, <1>5
<1>7. QED
  BY <1>3, <1>6

-----------------------------------------------------------------------------
(***************************************************************************)
(* The artifacts of a run.  Every record names a file of its kind, and     *)
(* that file tells the recipe in its name.                                 *)
(***************************************************************************)
LEMMA NewestIs ==
    ASSUME NEW N \in Nat, NEW ids, ids \subseteq 1..N, ids # {}
    PROVE  Newest(ids) \in ids /\ \A k \in ids : k <= Newest(ids)
<1> DEFINE T == {N - k : k \in ids}
<1>1. T \subseteq Nat /\ T # {}
  OBVIOUS
<1>2. PICK t \in T : \A k \in T : t <= k
  BY <1>1, LeastNumber
<1>3. PICK i \in ids : t = N - i
  OBVIOUS
<1>4. \A k \in ids : k <= i
  <2>1. \A k \in ids : N - i <= N - k
    BY <1>2, <1>3
  <2>2. QED
    BY <2>1
<1>5. \E i2 \in ids : \A k \in ids : k <= i2
  BY <1>4
<1>6. QED
  BY <1>5 DEF Newest

KindsOfRecords ==
    {"dataset", "schema_profile", "kpi_table", "chart", "dashboard", "report", "evaluation"}

\* The files of a kind, by the first part of their names, and the agent that writes them.
Heads(kind) ==
    IF kind = "schema_profile" THEN {"schema_profile"}
    ELSE IF kind = "kpi_table" THEN {"analysis"}
    ELSE IF kind = "chart" THEN {"first_chart", "other_charts"}
    ELSE IF kind = "evaluation" THEN {"evaluation_result"} ELSE {kind}

StageOf(kind) ==
    IF kind = "dataset" THEN 0 ELSE IF kind = "schema_profile" THEN 1
    ELSE IF kind = "kpi_table" THEN 2 ELSE IF kind = "chart" THEN 3
    ELSE IF kind = "dashboard" THEN 3 ELSE IF kind = "report" THEN 4 ELSE 5

ByRecipe == {"analysis", "first_chart", "other_charts", "dashboard", "report"}
Schema == <<"schema_profile", "any">>

LEMMA FilesAre ==
    /\ \A f \in FileNames :
          /\ f = <<f[1], f[2]>>
          /\ f[1] \in ByRecipe => f[2] \in Recipes
          /\ f[1] = "dataset" => f[2] \in Datasets
          /\ f[1] = "schema_profile" => f = Schema
    /\ Schema \in FileNames /\ <<"evaluation_result", "any">> \in FileNames
    /\ \A d \in Datasets : <<"dataset", d>> \in FileNames
    /\ \A h \in ByRecipe, r \in Recipes : <<h, r>> \in FileNames
BY DEF FileNames, Schema, ByRecipe

LEMMA KindsApart ==
    \A k \in KindsOfRecords, l \in KindsOfRecords :
        \A h \in Heads(k) \cap Heads(l) : k = l
BY DEF KindsOfRecords, Heads

ArtifactRecord == [kind : KindsOfRecords, file : FileNames, sources : SUBSET Nat]

\* The records arts, and the files fs that they name.
RecordsOK(arts, fs) ==
    /\ arts \in Seq(ArtifactRecord)
    /\ \A i \in DOMAIN arts : arts[i].sources \subseteq 1..(i - 1)
    /\ \A i \in DOMAIN arts : arts[i].file[1] \in Heads(arts[i].kind)
    /\ \A i \in DOMAIN arts : fs[arts[i].file].data \in Datasets

FilesOK(fs) ==
    /\ fs \in [FileNames -> Content]
    /\ \A f \in FileNames : fs[f].data \in Datasets =>
          /\ f[1] \in ByRecipe => fs[f].recipe = f[2]
          /\ f[1] = "dataset" => fs[f].data = f[2]

ExecutionRecord ==
    [status : {"idle", "running", "completed", "failed"}, origin : {"dynamic", "procurement"},
     node : 1..5, tries : Nat, known : SUBSET Nat, shifted : BOOLEAN, refused : BOOLEAN]
HistoryRecord == [executions : Nat, retries : Nat, breaks : Nat, torn : SUBSET FileNames]

\* An execution past an agent knows of what that agent has made, and of nothing of the agents
\* that are still to come.
Passed(x, arts) ==
    /\ x.known \subseteq DOMAIN arts
    /\ \A i \in x.known : StageOf(arts[i].kind) > 0
    /\ x.status # "completed" => \A i \in x.known : StageOf(arts[i].kind) < x.node
    /\ \A kind \in {"schema_profile", "kpi_table", "chart", "dashboard", "report"} :
          StageOf(kind) < x.node => \E i \in x.known : arts[i].kind = kind
    /\ x.status = "completed" => x.node = 5

StoreInv ==
    /\ RecordsOK(artifacts, files) /\ FilesOK(files)
    /\ intent \in BOOLEAN /\ planned \in Recipes \cup {"none"}
    /\ attached \in {0} \cup Made("dataset")
    /\ execution \in ExecutionRecord /\ history \in HistoryRecord
    /\ Passed(execution, artifacts)
    /\ execution.status # "idle" => attached # 0
LEMMA LastInIs ==
    ASSUME artifacts \in Seq(ArtifactRecord), NEW ids, ids \subseteq Ids, NEW kind
    PROVE  \/ LastIn(ids, kind) = 0 /\ \A i \in ids : artifacts[i].kind # kind
           \/ /\ LastIn(ids, kind) \in ids /\ artifacts[LastIn(ids, kind)].kind = kind
              /\ \A i \in ids : artifacts[i].kind = kind => i <= LastIn(ids, kind)
<1>1. Len(artifacts) \in Nat /\ Ids = 1..Len(artifacts)
  BY DEF Ids
<1>2. Made(kind) \cap ids \subseteq 1..Len(artifacts)
  BY <1>1
<1>3. CASE Made(kind) \cap ids = {}
  BY <1>3 DEF LastIn, Made
<1>4. CASE Made(kind) \cap ids # {}
  <2>1. /\ Newest(Made(kind) \cap ids) \in Made(kind) \cap ids
        /\ \A k \in Made(kind) \cap ids : k <= Newest(Made(kind) \cap ids)
    BY <1>1, <1>2, <1>4, NewestIs
  <2>2. LastIn(ids, kind) = Newest(Made(kind) \cap ids)
    BY <1>4 DEF LastIn
  <2>3. QED
    BY <2>1, <2>2 DEF Made
<1>5. QED
  BY <1>3, <1>4

\* The latest record of a kind, if any record of the run is of that kind.
LEMMA LastOfAll ==
    ASSUME artifacts \in Seq(ArtifactRecord), NEW kind, \E i \in Ids : artifacts[i].kind = kind
    PROVE  LastIn(Ids, kind) \in Ids /\ artifacts[LastIn(Ids, kind)].kind = kind
<1>1. Ids \subseteq Ids
  OBVIOUS
<1>2. QED
  BY <1>1, LastInIs

\* The report agent takes the latest record that is not of this execution, or else the latest.
LEMMA CandidateIs ==
    ASSUME artifacts \in Seq(ArtifactRecord), NEW kind, \E i \in Ids : artifacts[i].kind = kind,
           execution.known \subseteq Ids
    PROVE  /\ LastCandidate(kind) \in Ids /\ artifacts[LastCandidate(kind)].kind = kind
           /\ \/ LastCandidate(kind) \in execution.known
              \/ \A i \in Ids \ execution.known :
                    artifacts[i].kind = kind => i <= LastCandidate(kind)
<1>0. PICK known : known = execution.known
  OBVIOUS
<1>1. Ids \ known \subseteq Ids /\ known \subseteq Ids /\ 0 \notin Ids
  BY <1>0 DEF Ids
<1>2. \/ LastIn(Ids \ known, kind) = 0 /\ \A i \in Ids \ known : artifacts[i].kind # kind
      \/ /\ LastIn(Ids \ known, kind) \in Ids \ known
         /\ artifacts[LastIn(Ids \ known, kind)].kind = kind
         /\ \A i \in Ids \ known : artifacts[i].kind = kind => i <= LastIn(Ids \ known, kind)
  BY <1>1, LastInIs
<1>3. \/ LastIn(known, kind) = 0 /\ \A i \in known : artifacts[i].kind # kind
      \/ LastIn(known, kind) \in known /\ artifacts[LastIn(known, kind)].kind = kind
  BY <1>1, LastInIs
<1>4. LastCandidate(kind) = IF LastIn(Ids \ known, kind) # 0 THEN LastIn(Ids \ known, kind)
                            ELSE LastIn(known, kind)
  BY <1>0 DEF LastCandidate
<1>5. CASE LastIn(Ids \ known, kind) = 0
  <2>1. \A i \in Ids \ known : artifacts[i].kind # kind
    BY <1>1, <1>2, <1>5
  <2>2. LastIn(known, kind) \in known /\ artifacts[LastIn(known, kind)].kind = kind
    BY <1>3, <2>1
  <2>3. QED
    BY <1>0, <1>1, <1>4, <1>5, <2>2
<1>6. CASE LastIn(Ids \ known, kind) # 0
  BY <1>0, <1>1, <1>2, <1>4, <1>6
<1>7. QED
  BY <1>5, <1>6

-----------------------------------------------------------------------------
(***************************************************************************)
(* One attempt.  arts and fs stand for the records and the files before    *)
(* it, arts2 and fs2 for those after it.                                   *)
(***************************************************************************)
OutputRecord == [kind : KindsOfRecords, file : FileNames, content : Content, sources : SUBSET Nat]

\* What the agent of a node may write.
OutputsOK(outs, arts, node) ==
    /\ outs \in Seq(OutputRecord)
    /\ \A i \in DOMAIN outs :
          /\ StageOf(outs[i].kind) = node /\ outs[i].file[1] \in Heads(outs[i].kind)
          /\ outs[i].content.data \in Datasets
          /\ outs[i].file[1] \in ByRecipe => outs[i].content.recipe = outs[i].file[2]
          /\ outs[i].sources \subseteq 1..(Len(arts) + i - 1)
    /\ \A i \in DOMAIN outs, k \in DOMAIN outs : outs[i].file = outs[k].file => i = k

\* n records were made, and as many files, or one more.
Wrote(outs, n, half, arts, fs, arts2, fs2) ==
    /\ n \in 0..Len(outs) /\ half \in BOOLEAN /\ (half => n < Len(outs))
    /\ arts2 \in Seq(ArtifactRecord) /\ Len(arts2) = Len(arts) + n
    /\ \A i \in 1..Len(arts) : arts2[i] = arts[i]
    /\ \A i \in 1..n : arts2[Len(arts) + i] = Record(outs[i].kind, outs[i].file, outs[i].sources)
    /\ fs2 \in [FileNames -> Content]
    /\ \A f \in FileNames :
          \/ fs2[f] = fs[f] /\ \A i \in 1..(IF half THEN n + 1 ELSE n) : outs[i].file # f
          \/ \E i \in 1..(IF half THEN n + 1 ELSE n) : outs[i].file = f /\ fs2[f] = outs[i].content

\* An attempt that came to its end with success lets the execution pass on.
Ended(x, x2, n, half, outs, arts) ==
    /\ x2 \in ExecutionRecord
    /\ x2.origin = x.origin /\ x2.shifted = x.shifted /\ x2.refused = x.refused
    /\ \/ x2.known = x.known /\ x2.node = x.node /\ x2.status \in {"running", "failed"}
       \/ /\ n = Len(outs) /\ half = FALSE
          /\ x2.known = x.known \cup ((Len(arts) + 1)..(Len(arts) + n))
          /\ \/ x.node < 5 /\ x2.node = x.node + 1 /\ x2.status = "running"
             \/ x.node = 5 /\ x2.node = 5 /\ x2.status = "completed"

LEMMA WritesAre ==
    ASSUME RecordsOK(artifacts, files), FilesOK(files), NEW node, NEW outs,
           OutputsOK(outs, artifacts, node), NEW n \in 0..Len(outs), NEW half \in BOOLEAN,
           half => n < Len(outs), Writes(outs, n, half)
    PROVE  Wrote(outs, n, half, artifacts, files, artifacts', files')
<1>1. artifacts \in Seq(ArtifactRecord) /\ files \in [FileNames -> Content]
  BY DEF RecordsOK, FilesOK
<1>2. Len(outs) \in Nat /\ Len(artifacts) \in Nat /\ DOMAIN outs = 1..Len(outs)
  BY <1>1 DEF OutputsOK
<1>3. \A i \in DOMAIN outs : outs[i] \in OutputRecord
  BY DEF OutputsOK
<1>4. PICK new : new = [i \in 1..n |-> Record(outs[i].kind, outs[i].file, outs[i].sources)]
  OBVIOUS
<1>5. \A i \in 1..n : i \in DOMAIN outs
  BY <1>2
<1>6. \A i \in 1..n : new[i] \in ArtifactRecord
  BY <1>3, <1>4, <1>5 DEF Record, OutputRecord, ArtifactRecord
<1>7. new \in Seq(ArtifactRecord) /\ Len(new) = n
  <2>1. n \in Nat /\ new \in [1..n -> ArtifactRecord]
    BY <1>4, <1>6
  <2>2. QED
    BY <2>1
<1>8. artifacts' = artifacts \o new
  BY <1>4 DEF Writes
<1>9. /\ artifacts' \in Seq(ArtifactRecord) /\ Len(artifacts') = Len(artifacts) + n
      /\ \A i \in 1..Len(artifacts) : artifacts'[i] = artifacts[i]
      /\ \A i \in 1..n : artifacts'[Len(artifacts) + i] = new[i]
  <2>1. Len(artifacts) \in Nat /\ n \in Nat
    BY <1>2
  <2>2. /\ artifacts \o new \in Seq(ArtifactRecord) /\ Len(artifacts \o new) = Len(artifacts) + n
        /\ \A i \in 1..(Len(artifacts) + n) :
              (artifacts \o new)[i] = IF i <= Len(artifacts) THEN artifacts[i]
                                      ELSE new[i - Len(artifacts)]
    BY <1>1, <1>7, ConcatProperties
  <2>3. \A i \in 1..n : /\ Len(artifacts) + i \in 1..(Len(artifacts) + n)
                        /\ ~(Len(artifacts) + i <= Len(artifacts))
                        /\ Len(artifacts) + i - Len(artifacts) = i
    BY <2>1
  <2>4. \A i \in 1..Len(artifacts) : i \in 1..(Len(artifacts) + n) /\ i <= Len(artifacts)
    BY <2>1
  <2>5. QED
    BY <1>8, <2>2, <2>3, <2>4
<1> DEFINE W == 1..(IF half THEN n + 1 ELSE n)
<1>10. \A i \in W : i \in DOMAIN outs
  BY <1>2
<1>11. \A f \in FileNames :
          files'[f] = IF {i \in W : outs[i].file = f} = {} THEN files[f]
                      ELSE outs[CHOOSE i \in {k \in W : outs[k].file = f} : TRUE].content
  BY <1>1 DEF Writes
<1>12. \A f \in FileNames :
          \/ files'[f] = files[f] /\ \A i \in W : outs[i].file # f
          \/ \E i \in W : outs[i].file = f /\ files'[f] = outs[i].content
  <2>1. TAKE f \in FileNames
  <2>2. CASE {i \in W : outs[i].file = f} = {}
    BY <1>11, <2>2
  <2>3. CASE {i \in W : outs[i].file = f} # {}
    <3>1. PICK i : i = CHOOSE k \in {k \in W : outs[k].file = f} : TRUE
      OBVIOUS
    <3>2. i \in {k \in W : outs[k].file = f}
      BY <2>3, <3>1
    <3>3. files'[f] = outs[i].content
      BY <1>11, <2>3, <3>1
    <3>4. QED
      BY <3>2, <3>3
  <2>4. QED
    BY <2>2, <2>3
<1>13. files' \in [FileNames -> Content]
  <2>1. \A f \in FileNames : files'[f] \in Content
    BY <1>1, <1>3, <1>10, <1>12 DEF OutputRecord
  <2>2. files' = [f \in FileNames |-> files'[f]]
    BY <1>1 DEF Writes
  <2>3. QED
    BY <2>1, <2>2
<1>14. QED
  BY <1>4, <1>9, <1>12, <1>13 DEF Wrote

LEMMA FailedIs ==
    ASSUME execution \in ExecutionRecord
    PROVE  /\ Failed \in ExecutionRecord /\ Failed.status \in {"running", "failed"}
           /\ Failed.origin = execution.origin /\ Failed.shifted = execution.shifted
           /\ Failed.refused = execution.refused /\ Failed.known = execution.known
           /\ Failed.node = execution.node
<1>1. PICK x : x = execution
  OBVIOUS
<1>2. x \in ExecutionRecord /\ x.tries + 1 \in Nat
  BY <1>1 DEF ExecutionRecord
<1>3. PICK s \in {"running", "failed"} :
         s = IF x.tries + 1 < MaxAttempts THEN "running" ELSE "failed"
  OBVIOUS
<1>4. Failed = [x EXCEPT !.tries = x.tries + 1, !.status = s]
  BY <1>1, <1>3 DEF Failed
<1>5. QED
  BY <1>1, <1>2, <1>4 DEF ExecutionRecord

LEMMA SucceedIs ==
    ASSUME execution \in ExecutionRecord, artifacts \in Seq(ArtifactRecord), NEW n \in Nat, Succeed(n)
    PROVE  /\ execution' \in ExecutionRecord
           /\ execution'.origin = execution.origin /\ execution'.shifted = execution.shifted
           /\ execution'.refused = execution.refused
           /\ execution'.known = execution.known \cup ((Len(artifacts) + 1)..(Len(artifacts) + n))
           /\ \/ execution.node < 5 /\ execution'.node = execution.node + 1
                 /\ execution'.status = "running"
              \/ execution.node = 5 /\ execution'.node = 5 /\ execution'.status = "completed"
<1>1. PICK x : x = execution
  OBVIOUS
<1>2. PICK new : new = (Len(artifacts) + 1)..(Len(artifacts) + n)
  OBVIOUS
<1>3. x \in ExecutionRecord /\ new \in SUBSET Nat /\ x.node \in 1..5 /\ Len(Stages) = 5
  BY <1>1, <1>2 DEF ExecutionRecord, Stages
<1>4. x.known \cup new \in SUBSET Nat
  BY <1>3 DEF ExecutionRecord
<1>5. CASE x.node = 5
  <2>1. execution' = [x EXCEPT !.known = x.known \cup new, !.tries = 0, !.node = x.node,
                               !.status = "completed"]
    BY <1>1, <1>2, <1>3, <1>5 DEF Succeed
  <2>2. QED
    BY <1>1, <1>2, <1>3, <1>4, <1>5, <2>1 DEF ExecutionRecord
<1>6. CASE x.node # 5
  <2>1. execution' = [x EXCEPT !.known = x.known \cup new, !.tries = 0, !.node = x.node + 1,
                               !.status = "running"]
    BY <1>1, <1>2, <1>3, <1>6 DEF Succeed
  <2>2. x.node + 1 \in 1..5 /\ x.node < 5
    BY <1>3, <1>6
  <2>3. QED
    BY <1>1, <1>2, <1>3, <1>4, <2>1, <2>2 DEF ExecutionRecord
<1>7. QED
  BY <1>5, <1>6

LEMMA AttemptIs ==
    ASSUME RecordsOK(artifacts, files), FilesOK(files), execution \in ExecutionRecord,
           execution.status = "running", NEW node, NEW outs, OutputsOK(outs, artifacts, node),
           NEW verdict, Attempt(outs, verdict), history \in HistoryRecord
    PROVE  \E n \in 0..Len(outs), half \in BOOLEAN :
              /\ Wrote(outs, n, half, artifacts, files, artifacts', files')
              /\ Ended(execution, execution', n, half, outs, artifacts)
              /\ history'.executions = history.executions
              /\ history'.torn = TornFiles(outs, n, half)
              /\ history' \in HistoryRecord
<1>1. Len(outs) \in Nat /\ Len(artifacts) \in Nat /\ DOMAIN outs = 1..Len(outs)
  <2>1. outs \in Seq(OutputRecord) /\ artifacts \in Seq(ArtifactRecord)
    BY DEF OutputsOK, RecordsOK
  <2>2. QED
    BY <2>1
<1>2. \A i \in DOMAIN outs : outs[i].file \in FileNames
  <2>1. \A i \in DOMAIN outs : outs[i] \in OutputRecord
    BY DEF OutputsOK
  <2>2. QED
    BY <2>1 DEF OutputRecord
<1>3. ASSUME NEW n \in 0..Len(outs), NEW half \in BOOLEAN, half => n < Len(outs)
      PROVE  TornFiles(outs, n, half) \in SUBSET FileNames
  <2>1. half => n + 1 \in DOMAIN outs
    BY <1>1, <1>3
  <2>2. QED
    BY <1>2, <2>1 DEF TornFiles, HistoryRecord
<1>4. ASSUME NEW n \in 0..Len(outs), NEW half \in BOOLEAN, FailAttempt
      PROVE  Ended(execution, execution', n, half, outs, artifacts)
  <2>1. execution' = Failed
    BY <1>4 DEF FailAttempt
  <2>2. QED
    BY <2>1, FailedIs DEF Ended
<1>5. ASSUME Succeed(Len(outs))
      PROVE  Ended(execution, execution', Len(outs), FALSE, outs, artifacts)
  <2>1. artifacts \in Seq(ArtifactRecord) /\ Len(outs) \in Nat
    BY <1>1 DEF RecordsOK
  <2>2. PICK n \in Nat : n = Len(outs)
    BY <2>1
  <2>3. Succeed(n)
    BY <1>5, <2>2
  <2>4. QED
    BY <2>1, <2>2, <2>3, SucceedIs DEF Ended
<1>6. CASE /\ Writes(outs, Len(outs), FALSE)
           /\ IF verdict THEN Succeed(Len(outs)) ELSE FailAttempt
           /\ history' = [history EXCEPT !.torn = TornFiles(outs, Len(outs), FALSE)]
  <2>1. Len(outs) \in 0..Len(outs) /\ FALSE \in BOOLEAN
    BY <1>1
  <2>2. Wrote(outs, Len(outs), FALSE, artifacts, files, artifacts', files')
    BY <1>6, <2>1, WritesAre
  <2>3. Ended(execution, execution', Len(outs), FALSE, outs, artifacts)
    BY <1>4, <1>5, <1>6, <2>1
  <2>4. TornFiles(outs, Len(outs), FALSE) \in SUBSET FileNames
    BY <1>3, <2>1
  <2>5. /\ history'.executions = history.executions
        /\ history'.torn = TornFiles(outs, Len(outs), FALSE)
        /\ history' \in HistoryRecord
    BY <1>6, <2>4 DEF HistoryRecord
  <2>6. QED
    BY <2>1, <2>2, <2>3, <2>5
<1>7. CASE /\ \E n \in 0..Len(outs), half \in BOOLEAN :
                 /\ half => n < Len(outs)
                 /\ Writes(outs, n, half)
                 /\ history' = [history EXCEPT !.breaks = @ + 1, !.torn = TornFiles(outs, n, half)]
           /\ FailAttempt
  <2>1. PICK n \in 0..Len(outs), half \in BOOLEAN :
           /\ half => n < Len(outs)
           /\ Writes(outs, n, half)
           /\ history' = [history EXCEPT !.breaks = @ + 1, !.torn = TornFiles(outs, n, half)]
    BY <1>7
  <2>2. Wrote(outs, n, half, artifacts, files, artifacts', files')
    BY <2>1, WritesAre
  <2>3. Ended(execution, execution', n, half, outs, artifacts)
    BY <1>4, <1>7
  <2>4. TornFiles(outs, n, half) \in SUBSET FileNames
    BY <1>3, <2>1
  <2>5. /\ history'.executions = history.executions
        /\ history'.torn = TornFiles(outs, n, half)
        /\ history' \in HistoryRecord
    <3>1. PICK torn : torn = TornFiles(outs, n, half)
      OBVIOUS
    <3>2. history' = [history EXCEPT !.breaks = @ + 1, !.torn = torn] /\ torn \in SUBSET FileNames
      BY <2>1, <2>4, <3>1
    <3>3. /\ history'.executions = history.executions /\ history'.torn = torn
          /\ history' \in HistoryRecord
      <4>1. PICK h \in HistoryRecord : h = history
        OBVIOUS
      <4>2. h.breaks + 1 \in Nat
        BY DEF HistoryRecord
      <4>3. history' = [h EXCEPT !.breaks = h.breaks + 1, !.torn = torn]
        BY <3>2, <4>1
      <4>4. QED
        BY <3>2, <4>1, <4>2, <4>3 DEF HistoryRecord
    <3>4. QED
      BY <3>1, <3>3
  <2>6. QED
    BY <2>2, <2>3, <2>5
<1>8. QED
  BY <1>6, <1>7 DEF Attempt
-----------------------------------------------------------------------------
(***************************************************************************)
(* What a record's content is, and everything it was made from.            *)
(***************************************************************************)
LEMMA ContentIs ==
    ASSUME RecordsOK(artifacts, files), FilesOK(files), NEW i \in Ids
    PROVE  /\ artifacts[i] \in ArtifactRecord /\ artifacts[i].file \in FileNames
           /\ artifacts[i].kind \in KindsOfRecords
           /\ artifacts[i].file[1] \in Heads(artifacts[i].kind)
           /\ ContentOf(i) = files[artifacts[i].file]
           /\ ContentOf(i) \in Content /\ ContentOf(i).data \in Datasets
           /\ ContentOf(i).recipe \in Recipes
           /\ artifacts[i].file[1] \in ByRecipe => ContentOf(i).recipe = artifacts[i].file[2]
           /\ artifacts[i].file[1] = "dataset" => ContentOf(i).data = artifacts[i].file[2]
<1>1. artifacts[i] \in ArtifactRecord
  BY DEF RecordsOK, Ids
<1>2. artifacts[i].file \in FileNames /\ artifacts[i].kind \in KindsOfRecords
  BY <1>1 DEF ArtifactRecord
<1>3. ContentOf(i) = files[artifacts[i].file]
  BY DEF ContentOf
<1>4. ContentOf(i) \in Content /\ ContentOf(i).data \in Datasets
  BY <1>2, <1>3 DEF RecordsOK, FilesOK, Ids
<1>5. ContentOf(i).recipe \in Recipes
  BY <1>4 DEF Content
<1>6. artifacts[i].file[1] \in Heads(artifacts[i].kind)
  BY DEF RecordsOK, Ids
<1>7. /\ artifacts[i].file[1] \in ByRecipe => ContentOf(i).recipe = artifacts[i].file[2]
      /\ artifacts[i].file[1] = "dataset" => ContentOf(i).data = artifacts[i].file[2]
  BY <1>2, <1>3, <1>4 DEF FilesOK
<1>8. QED
  BY <1>1, <1>2, <1>3, <1>4, <1>5, <1>6, <1>7

\* The run's dataset, once one is attached.
LEMMA DatasetIs ==
    ASSUME RecordsOK(artifacts, files), FilesOK(files), attached \in Made("dataset")
    PROVE  /\ Dataset \in Datasets /\ attached \in Ids
           /\ artifacts[attached].kind = "dataset" /\ artifacts[attached].file = <<"dataset", Dataset>>
           /\ Dataset = files[artifacts[attached].file].data
<1>1. attached \in Ids /\ artifacts[attached].kind = "dataset"
  BY DEF Made
<1>2. PICK i \in Ids : i = attached
  BY <1>1
<1>3. Dataset = ContentOf(i).data /\ ContentOf(i) = files[artifacts[i].file]
  BY <1>2 DEF Dataset, ContentOf
<1>4. /\ artifacts[i].file \in FileNames /\ artifacts[i].file[1] \in Heads("dataset")
      /\ ContentOf(i).data \in Datasets
      /\ artifacts[i].file[1] = "dataset" => ContentOf(i).data = artifacts[i].file[2]
  BY <1>1, <1>2, ContentIs
<1>5. artifacts[i].file[1] = "dataset"
  BY <1>4 DEF Heads
<1>6. artifacts[i].file = <<artifacts[i].file[1], artifacts[i].file[2]>>
  BY <1>4, FilesAre
<1>7. QED
  BY <1>1, <1>2, <1>3, <1>4, <1>5, <1>6

\* g tells the sources of the first n records, and their sources in turn.
Traced(g, sources, n) ==
    g = [i \in 1..n |-> sources[i] \cup UNION {g[j] : j \in sources[i]}]

LEMMA TracesExist ==
    ASSUME NEW N \in Nat, NEW sources, \A i \in 1..N : sources[i] \subseteq 1..(i - 1)
    PROVE  \E g : Traced(g, sources, N)
<1> DEFINE S == {n \in 0..N : \E g : Traced(g, sources, n)}
<1>1. 0 \in S
  <2>1. PICK g : g = [i \in 1..0 |-> {}]
    OBVIOUS
  <2>2. Traced(g, sources, 0)
    <3>1. g = [i \in 1..0 |-> sources[i] \cup UNION {g[j] : j \in sources[i]}]
      BY <2>1
    <3>2. QED
      BY <3>1 DEF Traced
  <2>3. 0 \in 0..N
    OBVIOUS
  <2>4. QED
    BY <2>2, <2>3
<1>2. ASSUME NEW n \in 0..N, n \in S, n < N
      PROVE  n + 1 \in S
  <2>1. PICK g : Traced(g, sources, n)
    BY <1>2
  <2>2. PICK h : h = [i \in 1..(n + 1) |->
                        IF i = n + 1 THEN sources[i] \cup UNION {g[j] : j \in sources[i]} ELSE g[i]]
    OBVIOUS
  <2>3. \A i \in 1..n : h[i] = g[i]
    BY <2>2
  <2>4. ASSUME NEW i \in 1..(n + 1)
        PROVE  h[i] = sources[i] \cup UNION {h[j] : j \in sources[i]}
    <3>1. i \in 1..N /\ 1..(i - 1) \subseteq 1..n
      BY <1>2
    <3>2. \A j \in sources[i] : h[j] = g[j]
      BY <2>3, <3>1
    <3>3. {h[j] : j \in sources[i]} = {g[j] : j \in sources[i]}
      BY <3>2
    <3>4. CASE i = n + 1
      BY <2>2, <3>3, <3>4
    <3>5. CASE i # n + 1
      <4>1. i \in 1..n
        BY <3>5
      <4>2. g[i] = sources[i] \cup UNION {g[j] : j \in sources[i]}
        BY <2>1, <4>1 DEF Traced
      <4>3. QED
        BY <2>3, <3>3, <4>1, <4>2
    <3>6. QED
      BY <3>4, <3>5
  <2>5. h = [i \in 1..(n + 1) |-> sources[i] \cup UNION {h[j] : j \in sources[i]}]
    <3>1. h = [i \in 1..(n + 1) |-> h[i]]
      BY <2>2
    <3>2. QED
      BY <2>4, <3>1
  <2>6. QED
    BY <1>2, <2>5 DEF Traced
<1>3. \A n \in 0..N : n \in S
  <2>1. \A n \in 0..N : n \in S /\ n < N => n + 1 \in S
    BY <1>2
  <2> HIDE DEF S
  <2>2. QED
    BY <1>1, <2>1, Counting
<1>4. QED
  BY <1>3

\* It only tells of earlier records.
LEMMA TracesType ==
    ASSUME NEW N \in Nat, NEW sources, NEW g, Traced(g, sources, N),
           \A i \in 1..N : sources[i] \subseteq 1..(i - 1)
    PROVE  \A i \in 1..N : g[i] \subseteq 1..(i - 1)
<1> DEFINE S == {n \in 0..N : \A i \in 1..n : g[i] \subseteq 1..(i - 1)}
<1>1. 0 \in S
  OBVIOUS
<1>2. ASSUME NEW n \in 0..N, n \in S, n < N
      PROVE  n + 1 \in S
  <2>1. n + 1 \in 1..N /\ n + 1 \in 0..N /\ (n + 1) - 1 = n
    BY <1>2
  <2>2. g[n + 1] = sources[n + 1] \cup UNION {g[j] : j \in sources[n + 1]}
    BY <2>1 DEF Traced
  <2>3. sources[n + 1] \subseteq 1..n
    BY <2>1
  <2>4. ASSUME NEW j \in sources[n + 1]
        PROVE  g[j] \subseteq 1..n
    <3>1. j \in 1..n /\ 1..(j - 1) \subseteq 1..n
      BY <2>3
    <3>2. g[j] \subseteq 1..(j - 1)
      BY <1>2, <3>1
    <3>3. QED
      BY <3>1, <3>2
  <2>5. g[n + 1] \subseteq 1..n
    BY <2>2, <2>3, <2>4
  <2>6. ASSUME NEW i \in 1..(n + 1)
        PROVE  g[i] \subseteq 1..(i - 1)
    <3>1. CASE i = n + 1
      BY <2>1, <2>5, <3>1
    <3>2. CASE i # n + 1
      <4>1. i \in 1..n
        BY <3>2
      <4>2. QED
        BY <1>2, <4>1
    <3>3. QED
      BY <3>1, <3>2
  <2>7. QED
    BY <2>1, <2>6
<1>3. \A n \in 0..N : n \in S
  <2>1. \A n \in 0..N : n \in S /\ n < N => n + 1 \in S
    BY <1>2
  <2> HIDE DEF S
  <2>2. QED
    BY <1>1, <2>1, Counting
<1>4. N \in S
  BY <1>3
<1>5. QED
  BY <1>4

LEMMA UpstreamIs ==
    ASSUME RecordsOK(artifacts, files)
    PROVE  \A i \in Ids : /\ artifacts[i].sources \subseteq Upstream[i]
                          /\ \A j \in artifacts[i].sources : Upstream[j] \subseteq Upstream[i]
                          /\ Upstream[i] \subseteq Ids
<1>1. PICK N \in Nat : N = Len(artifacts) /\ Ids = 1..N
  BY DEF RecordsOK, Ids
<1>2. PICK sources : sources = [i \in 1..N |-> artifacts[i].sources]
  OBVIOUS
<1>3. \A i \in 1..N : sources[i] \subseteq 1..(i - 1)
  BY <1>1, <1>2 DEF RecordsOK, Ids
<1>4. \E g : Traced(g, sources, N)
  BY <1>3, TracesExist
<1> DEFINE up == CHOOSE g : g = [i \in Ids |-> artifacts[i].sources
                                               \cup UNION {g[j] : j \in artifacts[i].sources}]
<1>5. \A g : Traced(g, sources, N)
             <=> g = [i \in Ids |-> artifacts[i].sources \cup UNION {g[j] : j \in artifacts[i].sources}]
  <2>1. TAKE g
  <2>2. \A i \in 1..N : sources[i] \cup UNION {g[j] : j \in sources[i]}
                        = artifacts[i].sources \cup UNION {g[j] : j \in artifacts[i].sources}
    BY <1>2
  <2>3. [i \in 1..N |-> sources[i] \cup UNION {g[j] : j \in sources[i]}]
        = [i \in 1..N |-> artifacts[i].sources \cup UNION {g[j] : j \in artifacts[i].sources}]
    BY <2>2
  <2>4. QED
    BY <1>1, <2>3 DEF Traced
<1>6. Upstream = up
  BY DEF Upstream
<1>7. Traced(up, sources, N)
  <2>1. \E g : g = [i \in Ids |-> artifacts[i].sources \cup UNION {g[j] : j \in artifacts[i].sources}]
    BY <1>4, <1>5
  <2>2. up = [i \in Ids |-> artifacts[i].sources \cup UNION {up[j] : j \in artifacts[i].sources}]
    BY <2>1
  <2> HIDE DEF up
  <2>3. QED
    BY <1>5, <2>2
<1> HIDE DEF up
<1>8. \A i \in 1..N : up[i] \subseteq 1..(i - 1)
  BY <1>3, <1>7, TracesType
<1>9. \A i \in 1..N : up[i] = artifacts[i].sources \cup UNION {up[j] : j \in artifacts[i].sources}
  BY <1>2, <1>7 DEF Traced
<1>10. ASSUME NEW i \in Ids
       PROVE  /\ artifacts[i].sources \subseteq up[i]
              /\ \A j \in artifacts[i].sources : up[j] \subseteq up[i]
              /\ up[i] \subseteq Ids
  <2>1. i \in 1..N /\ 1..(i - 1) \subseteq 1..N
    BY <1>1
  <2>2. QED
    BY <1>1, <1>8, <1>9, <2>1
<1>11. QED
  BY <1>6, <1>10
-----------------------------------------------------------------------------
(***************************************************************************)
(* What the agents write.                                                  *)
(***************************************************************************)
\* Whoever passes node has made a record of each kind that is the node's.
Covers(outs, node) ==
    \A kind \in {"schema_profile", "kpi_table", "chart", "dashboard", "report"} :
        StageOf(kind) = node => \E i \in DOMAIN outs : outs[i].kind = kind

ProfileOutputs ==
    <<Output("schema_profile", <<"schema_profile", "any">>, Of(Dataset, PlanForProfile), {attached})>>

SchemaRecipe == ContentOf(LastIn(Ids, "schema_profile")).recipe

AnalysisOutputs ==
    <<Output("kpi_table", <<"analysis", SchemaRecipe>>, Of(Dataset, SchemaRecipe), {attached})>>

ChartOutputs(kpi, content, new) ==
    <<Output("chart", <<"first_chart", content.recipe>>, content, {kpi}),
      Output("chart", <<"other_charts", content.recipe>>, content, {kpi}),
      Output("dashboard", <<"dashboard", content.recipe>>, content, {kpi, new + 1, new + 2})>>

ReportContent == [ContentOf(LastCandidate("kpi_table")) EXCEPT
                      !.profile = ContentOf(LastCandidate("schema_profile")).data]
ReportOutputs ==
    <<Output("report", <<"report", ContentOf(LastCandidate("kpi_table")).recipe>>,
             ReportContent, ReportSources)>>

EvaluationOutputs ==
    <<Output("evaluation", <<"evaluation_result", "any">>, ContentOf(LastCandidate("kpi_table")), Ids)>>

\* A single output.
LEMMA OneOutput ==
    ASSUME NEW kind \in KindsOfRecords, NEW name \in FileNames, NEW content \in Content,
           NEW arts, Len(arts) \in Nat, NEW sources \in SUBSET (1..Len(arts)),
           name[1] \in Heads(kind), content.data \in Datasets,
           name[1] \in ByRecipe => content.recipe = name[2]
    PROVE  OutputsOK(<<Output(kind, name, content, sources)>>, arts, StageOf(kind))
<1>1. PICK out : out = Output(kind, name, content, sources)
  OBVIOUS
<1>2. /\ out.kind = kind /\ out.file = name /\ out.content = content /\ out.sources = sources
      /\ out \in OutputRecord
  BY <1>1 DEF Output, OutputRecord
<1>3. PICK outs : outs = <<out>>
  OBVIOUS
<1>4. outs \in Seq(OutputRecord) /\ DOMAIN outs = {1} /\ outs[1] = out
  BY <1>2, <1>3
<1>5. Len(arts) + 1 - 1 = Len(arts)
  OBVIOUS
<1>6. OutputsOK(outs, arts, StageOf(kind))
  BY <1>2, <1>4, <1>5 DEF OutputsOK
<1>7. QED
  BY <1>1, <1>3, <1>6

LEMMA ChartOutputsOK ==
    ASSUME NEW arts, Len(arts) \in Nat, NEW kpi \in 1..Len(arts), NEW content \in Content,
           content.data \in Datasets
    PROVE  OutputsOK(ChartOutputs(kpi, content, Len(arts)), arts, 3)
<1>1. PICK r \in Recipes : r = content.recipe
  BY DEF Content
<1>2. PICK n \in Nat : n = Len(arts)
  OBVIOUS
<1>3. PICK o1 : o1 = Output("chart", <<"first_chart", r>>, content, {kpi})
  OBVIOUS
<1>4. PICK o2 : o2 = Output("chart", <<"other_charts", r>>, content, {kpi})
  OBVIOUS
<1>5. PICK o3 : o3 = Output("dashboard", <<"dashboard", r>>, content, {kpi, n + 1, n + 2})
  OBVIOUS
<1>6. /\ <<"first_chart", r>> \in FileNames /\ <<"other_charts", r>> \in FileNames
      /\ <<"dashboard", r>> \in FileNames
  BY FilesAre DEF ByRecipe
<1>7. /\ o1.kind = "chart" /\ o1.file = <<"first_chart", r>> /\ o1.content = content
      /\ o1.sources = {kpi} /\ o1 \in OutputRecord
  BY <1>2, <1>3, <1>6 DEF Output, OutputRecord, KindsOfRecords
<1>8. /\ o2.kind = "chart" /\ o2.file = <<"other_charts", r>> /\ o2.content = content
      /\ o2.sources = {kpi} /\ o2 \in OutputRecord
  BY <1>2, <1>4, <1>6 DEF Output, OutputRecord, KindsOfRecords
<1>9. /\ o3.kind = "dashboard" /\ o3.file = <<"dashboard", r>> /\ o3.content = content
      /\ o3.sources = {kpi, n + 1, n + 2} /\ o3 \in OutputRecord
  BY <1>2, <1>5, <1>6 DEF Output, OutputRecord, KindsOfRecords
<1>10. PICK outs : outs = <<o1, o2, o3>>
  OBVIOUS
<1>11. /\ outs \in Seq(OutputRecord) /\ DOMAIN outs = 1..3
       /\ outs[1] = o1 /\ outs[2] = o2 /\ outs[3] = o3
  BY <1>7, <1>8, <1>9, <1>10
<1>12. \A i \in DOMAIN outs : i = 1 \/ i = 2 \/ i = 3
  BY <1>11
<1>13. ASSUME NEW i \in DOMAIN outs
       PROVE  /\ StageOf(outs[i].kind) = 3 /\ outs[i].file[1] \in Heads(outs[i].kind)
              /\ outs[i].content.data \in Datasets
              /\ outs[i].file[1] \in ByRecipe => outs[i].content.recipe = outs[i].file[2]
              /\ outs[i].sources \subseteq 1..(n + i - 1)
  <2>1. CASE i = 1
    BY <1>1, <1>2, <1>7, <1>11, <2>1 DEF StageOf, Heads
  <2>2. CASE i = 2
    BY <1>1, <1>2, <1>8, <1>11, <2>2 DEF StageOf, Heads
  <2>3. CASE i = 3
    BY <1>1, <1>2, <1>9, <1>11, <2>3 DEF StageOf, Heads
  <2>4. QED
    BY <1>12, <2>1, <2>2, <2>3
<1>14. ASSUME NEW i \in DOMAIN outs, NEW k \in DOMAIN outs, outs[i].file = outs[k].file
       PROVE  i = k
  <2>1. o1.file # o2.file /\ o1.file # o3.file /\ o2.file # o3.file
    BY <1>7, <1>8, <1>9
  <2>2. QED
    BY <1>11, <1>12, <1>14, <2>1
<1>15. OutputsOK(outs, arts, 3)
  BY <1>2, <1>11, <1>13, <1>14 DEF OutputsOK
<1>16. ChartOutputs(kpi, content, Len(arts)) = outs
  BY <1>1, <1>2, <1>3, <1>4, <1>5, <1>10 DEF ChartOutputs
<1>17. QED
  BY <1>15, <1>16

\* Each agent either refuses, or attempts to write what is fit to be written.
LEMMA ProfileActs ==
    ASSUME StoreInv, ProfileDataset
    PROVE  /\ execution.status = "running" /\ execution.node = 1
           /\ UNCHANGED <<intent, attached, planned>>
           /\ \/ Refuse /\ planned = "none"
              \/ /\ Attempt(ProfileOutputs, TRUE)
                 /\ OutputsOK(ProfileOutputs, artifacts, 1) /\ Covers(ProfileOutputs, 1)
<1>1. /\ execution.status = "running" /\ Stages[execution.node] = "data_profile"
      /\ UNCHANGED <<intent, attached, planned>>
  BY DEF ProfileDataset, At
<1>2. execution.node = 1
  BY <1>1 DEF StoreInv, ExecutionRecord, Stages
<1>3. RecordsOK(artifacts, files) /\ FilesOK(files) /\ attached \in Made("dataset")
  BY <1>1 DEF StoreInv
<1>4. Dataset \in Datasets /\ attached \in Ids
  BY <1>3, DatasetIs
<1>5. Len(artifacts) \in Nat /\ Ids = 1..Len(artifacts)
  BY <1>3 DEF RecordsOK, Ids
<1>6. PlanForProfile \in Recipes
  BY DEF StoreInv, PlanForProfile, Recipes
<1>7. Of(Dataset, PlanForProfile) \in Content /\ Of(Dataset, PlanForProfile).data \in Datasets
  BY <1>4, <1>6 DEF Of, Content
<1>8. PICK f \in FileNames : f = <<"schema_profile", "any">>
  BY FilesAre DEF Schema
<1>9. /\ "schema_profile" \in KindsOfRecords /\ f[1] \in Heads("schema_profile") /\ f[1] \notin ByRecipe
      /\ StageOf("schema_profile") = 1
  BY <1>8 DEF KindsOfRecords, Heads, ByRecipe, StageOf
<1>10. {attached} \in SUBSET (1..Len(artifacts))
  BY <1>4, <1>5
<1>11. OutputsOK(<<Output("schema_profile", f, Of(Dataset, PlanForProfile), {attached})>>, artifacts, 1)
  BY <1>5, <1>7, <1>9, <1>10, OneOutput
<1>12. OutputsOK(ProfileOutputs, artifacts, 1)
  BY <1>8, <1>11 DEF ProfileOutputs
<1>13. Covers(ProfileOutputs, 1)
  BY DEF Covers, ProfileOutputs, Output, StageOf
<1>14. (Refuse /\ planned = "none") \/ Attempt(ProfileOutputs, TRUE)
  BY DEF ProfileDataset, ProfileOutputs
<1>15. QED
  BY <1>1, <1>2, <1>12, <1>13, <1>14

\* A kind that is behind the execution has a record.
LEMMA Behind ==
    ASSUME StoreInv, NEW kind \in {"schema_profile", "kpi_table", "chart", "dashboard", "report"},
           StageOf(kind) < execution.node
    PROVE  /\ \E i \in execution.known : artifacts[i].kind = kind
           /\ \E i \in Ids : artifacts[i].kind = kind
           /\ execution.known \subseteq Ids /\ artifacts \in Seq(ArtifactRecord)
BY DEF StoreInv, Passed, Ids, RecordsOK

LEMMA AnalyzeActs ==
    ASSUME StoreInv, Analyze
    PROVE  /\ execution.status = "running" /\ execution.node = 2
           /\ UNCHANGED <<intent, attached, planned>>
           /\ SchemaRecipe = files[Schema].recipe /\ SchemaRecipe \in Recipes
           /\ \/ Refuse /\ SchemaRecipe = "procurement" /\ Dataset \notin Ready
              \/ /\ Attempt(AnalysisOutputs, TRUE)
                 /\ OutputsOK(AnalysisOutputs, artifacts, 2) /\ Covers(AnalysisOutputs, 2)
<1>1. /\ execution.status = "running" /\ Stages[execution.node] = "analytics"
      /\ UNCHANGED <<intent, attached, planned>>
  BY DEF Analyze, At
<1>2. execution.node = 2
  BY <1>1 DEF StoreInv, ExecutionRecord, Stages
<1>3. RecordsOK(artifacts, files) /\ FilesOK(files) /\ attached \in Made("dataset")
  BY <1>1 DEF StoreInv
<1>4. Dataset \in Datasets /\ attached \in Ids
  BY <1>3, DatasetIs
<1>5. Len(artifacts) \in Nat /\ Ids = 1..Len(artifacts)
  BY <1>3 DEF RecordsOK, Ids
<1>6. \E i \in Ids : artifacts[i].kind = "schema_profile"
  <2>1. StageOf("schema_profile") < execution.node
    BY <1>2 DEF StageOf
  <2>2. QED
    BY <2>1, Behind
<1>7. PICK s \in Ids : s = LastIn(Ids, "schema_profile") /\ artifacts[s].kind = "schema_profile"
  BY <1>3, <1>6, LastOfAll DEF RecordsOK
<1>8. /\ artifacts[s].file \in FileNames /\ artifacts[s].file[1] \in Heads("schema_profile")
      /\ ContentOf(s) = files[artifacts[s].file] /\ ContentOf(s).recipe \in Recipes
  BY <1>3, <1>7, ContentIs
<1>9. artifacts[s].file = Schema
  BY <1>8, FilesAre DEF Heads
<1>10. SchemaRecipe = files[Schema].recipe /\ SchemaRecipe \in Recipes
  BY <1>7, <1>8, <1>9 DEF SchemaRecipe
<1>11. PICK f \in FileNames : f = <<"analysis", SchemaRecipe>>
  BY <1>10, FilesAre DEF ByRecipe
<1>12. /\ Of(Dataset, SchemaRecipe) \in Content /\ Of(Dataset, SchemaRecipe).data \in Datasets
       /\ Of(Dataset, SchemaRecipe).recipe = f[2]
  BY <1>4, <1>10, <1>11 DEF Of, Content
<1>13. "kpi_table" \in KindsOfRecords /\ f[1] \in Heads("kpi_table") /\ StageOf("kpi_table") = 2
  BY <1>11 DEF KindsOfRecords, Heads, StageOf
<1>14. {attached} \in SUBSET (1..Len(artifacts))
  BY <1>4, <1>5
<1>15. OutputsOK(<<Output("kpi_table", f, Of(Dataset, SchemaRecipe), {attached})>>, artifacts, 2)
  BY <1>5, <1>12, <1>13, <1>14, OneOutput
<1>16. OutputsOK(AnalysisOutputs, artifacts, 2)
  BY <1>11, <1>15 DEF AnalysisOutputs
<1>17. Covers(AnalysisOutputs, 2)
  BY DEF Covers, AnalysisOutputs, Output, StageOf
<1>18. \/ Refuse /\ SchemaRecipe = "procurement" /\ Dataset \notin Ready
       \/ Attempt(AnalysisOutputs, TRUE)
  BY DEF Analyze, AnalysisOutputs, SchemaRecipe
<1>19. QED
  BY <1>1, <1>2, <1>10, <1>16, <1>17, <1>18

\* The visualization agent takes a table that its own execution has made.
LEMMA VisualizeActs ==
    ASSUME StoreInv, Visualize
    PROVE  /\ execution.status = "running" /\ execution.node = 3
           /\ UNCHANGED <<intent, attached, planned>>
           /\ KpiForCharts \in execution.known /\ KpiForCharts \in Ids
           /\ artifacts[KpiForCharts].kind = "kpi_table"
           /\ Attempt(ChartOutputs(KpiForCharts, ContentOf(KpiForCharts), Len(artifacts)), TRUE)
           /\ OutputsOK(ChartOutputs(KpiForCharts, ContentOf(KpiForCharts), Len(artifacts)), artifacts, 3)
           /\ Covers(ChartOutputs(KpiForCharts, ContentOf(KpiForCharts), Len(artifacts)), 3)
<1>1. /\ execution.status = "running" /\ Stages[execution.node] = "visualization"
      /\ UNCHANGED <<intent, attached, planned>>
  BY DEF Visualize, At
<1>2. execution.node = 3
  BY <1>1 DEF StoreInv, ExecutionRecord, Stages
<1>3. RecordsOK(artifacts, files) /\ FilesOK(files)
  BY DEF StoreInv
<1>4. Len(artifacts) \in Nat /\ Ids = 1..Len(artifacts)
  BY <1>3 DEF RecordsOK, Ids
<1>5. /\ \E i \in execution.known : artifacts[i].kind = "kpi_table"
      /\ execution.known \subseteq Ids /\ artifacts \in Seq(ArtifactRecord)
  <2>1. StageOf("kpi_table") < execution.node
    BY <1>2 DEF StageOf
  <2>2. QED
    BY <2>1, Behind
<1>6. PICK k : k = LastIn(execution.known, "kpi_table")
  OBVIOUS
<1>7. k \in execution.known /\ artifacts[k].kind = "kpi_table"
  BY <1>5, <1>6, LastInIs
<1>8. k \in Ids /\ k # 0
  BY <1>4, <1>5, <1>7
<1>9. KpiForCharts = k
  BY <1>6, <1>8 DEF KpiForCharts
<1>10. PICK content \in Content : content = ContentOf(k) /\ content.data \in Datasets
  BY <1>3, <1>8, ContentIs
<1>11. OutputsOK(ChartOutputs(k, content, Len(artifacts)), artifacts, 3)
  BY <1>4, <1>8, <1>10, ChartOutputsOK
<1>12. Covers(ChartOutputs(k, content, Len(artifacts)), 3)
  BY DEF Covers, ChartOutputs, Output, StageOf
<1>13. Attempt(ChartOutputs(k, content, Len(artifacts)), TRUE)
  BY <1>9, <1>10 DEF Visualize, ChartOutputs
<1>14. QED
  BY <1>1, <1>2, <1>7, <1>8, <1>9, <1>10, <1>11, <1>12, <1>13

\* The report agent's sources are records of the run, its charts and what these were made
\* from among them.
LEMMA ReportSourcesAre ==
    ASSUME StoreInv, execution.node = 4
    PROVE  /\ ReportSources \subseteq Ids
           /\ \A i \in Ids : artifacts[i].kind = "chart" => Upstream[i] \subseteq ReportSources
           /\ \A kind \in {"kpi_table", "schema_profile"} :
                 Upstream[LastCandidate(kind)] \subseteq ReportSources
<1>1. RecordsOK(artifacts, files) /\ artifacts \in Seq(ArtifactRecord)
  BY DEF StoreInv, RecordsOK
<1>2. \A kind \in {"kpi_table", "schema_profile", "dashboard"} : LastCandidate(kind) \in Ids
  <2>1. TAKE kind \in {"kpi_table", "schema_profile", "dashboard"}
  <2>2. StageOf(kind) < execution.node
    BY DEF StageOf
  <2>3. (\E i \in Ids : artifacts[i].kind = kind) /\ execution.known \subseteq Ids
    BY <2>2, Behind
  <2>4. QED
    BY <1>1, <2>3, CandidateIs
<1> DEFINE T == {LastCandidate(k) : k \in {"kpi_table", "schema_profile", "dashboard"}}
                \cup {i \in Ids : artifacts[i].kind = "chart"}
<1>3. T \subseteq Ids
  BY <1>2
<1>4. ReportSources = T \cup UNION {Upstream[i] : i \in T}
  BY DEF ReportSources, Expanded
<1>5. \A i \in Ids : Upstream[i] \subseteq Ids
  BY <1>1, UpstreamIs
<1>6. ReportSources \subseteq Ids
  <2> HIDE DEF T
  <2>1. QED
    BY <1>3, <1>4, <1>5
<1>7. \A i \in T : Upstream[i] \subseteq ReportSources
  <2> HIDE DEF T
  <2>1. QED
    BY <1>4
<1>8. QED
  BY <1>6, <1>7

LEMMA ReportActs ==
    ASSUME StoreInv, ComposeReport
    PROVE  /\ execution.status = "running" /\ execution.node = 4
           /\ UNCHANGED <<intent, attached, planned>>
           /\ LastCandidate("kpi_table") \in Ids /\ LastCandidate("schema_profile") \in Ids
           /\ artifacts[LastCandidate("kpi_table")].kind = "kpi_table"
           /\ artifacts[LastCandidate("schema_profile")].kind = "schema_profile"
           /\ ReportContent.data = ContentOf(LastCandidate("kpi_table")).data
           /\ ReportContent.recipe = ContentOf(LastCandidate("kpi_table")).recipe
           /\ ReportContent.profile = ContentOf(LastCandidate("schema_profile")).data
           /\ Attempt(ReportOutputs, TRUE)
           /\ OutputsOK(ReportOutputs, artifacts, 4) /\ Covers(ReportOutputs, 4)
<1>1. /\ execution.status = "running" /\ Stages[execution.node] = "report"
      /\ UNCHANGED <<intent, attached, planned>>
  BY DEF ComposeReport, At
<1>2. execution.node = 4
  BY <1>1 DEF StoreInv, ExecutionRecord, Stages
<1>3. RecordsOK(artifacts, files) /\ FilesOK(files) /\ artifacts \in Seq(ArtifactRecord)
  BY DEF StoreInv, RecordsOK
<1>4. Len(artifacts) \in Nat /\ Ids = 1..Len(artifacts)
  BY <1>3 DEF Ids
<1>5. \A kind \in {"kpi_table", "schema_profile"} :
          LastCandidate(kind) \in Ids /\ artifacts[LastCandidate(kind)].kind = kind
  <2>1. TAKE kind \in {"kpi_table", "schema_profile"}
  <2>2. StageOf(kind) < execution.node
    BY <1>2 DEF StageOf
  <2>3. (\E i \in Ids : artifacts[i].kind = kind) /\ execution.known \subseteq Ids
    BY <2>2, Behind
  <2>4. QED
    BY <1>3, <2>3, CandidateIs
<1>6. PICK k \in Ids : k = LastCandidate("kpi_table") /\ artifacts[k].kind = "kpi_table"
  BY <1>5
<1>7. PICK s \in Ids : s = LastCandidate("schema_profile") /\ artifacts[s].kind = "schema_profile"
  BY <1>5
<1>8. PICK analysis \in Content : analysis = ContentOf(k) /\ analysis.data \in Datasets
  BY <1>3, ContentIs
<1>9. PICK profile \in Datasets : profile = ContentOf(s).data
  BY <1>3, ContentIs
<1>10. PICK content : content = [analysis EXCEPT !.profile = profile]
  OBVIOUS
<1>11. /\ content \in Content /\ content.data = analysis.data
       /\ content.recipe = analysis.recipe /\ content.profile = profile
  BY <1>10 DEF Content
<1>12. ReportContent = content
  BY <1>6, <1>7, <1>8, <1>9, <1>10 DEF ReportContent
<1>13. analysis.recipe \in Recipes
  BY DEF Content
<1>14. PICK f \in FileNames : f = <<"report", analysis.recipe>>
  BY <1>13, FilesAre DEF ByRecipe
<1>15. /\ "report" \in KindsOfRecords /\ f[1] \in Heads("report") /\ StageOf("report") = 4
       /\ content.recipe = f[2]
  BY <1>11, <1>14 DEF KindsOfRecords, Heads, StageOf
<1>16. ReportSources \in SUBSET (1..Len(artifacts))
  BY <1>2, <1>4, ReportSourcesAre
<1>17. OutputsOK(<<Output("report", f, content, ReportSources)>>, artifacts, 4)
  BY <1>4, <1>8, <1>11, <1>15, <1>16, OneOutput
<1>18. OutputsOK(ReportOutputs, artifacts, 4)
  BY <1>6, <1>8, <1>12, <1>14, <1>17 DEF ReportOutputs
<1>19. Covers(ReportOutputs, 4)
  BY DEF Covers, ReportOutputs, Output, StageOf
<1>20. Attempt(ReportOutputs, TRUE)
  BY DEF ComposeReport, ReportOutputs, ReportContent
<1>21. QED
  BY <1>1, <1>2, <1>6, <1>7, <1>8, <1>9, <1>11, <1>12, <1>18, <1>19, <1>20

LEMMA EvaluateActs ==
    ASSUME StoreInv, EvaluateRun
    PROVE  /\ execution.status = "running" /\ execution.node = 5
           /\ UNCHANGED <<intent, attached, planned>>
           /\ LastCandidate("kpi_table") \in Ids
           /\ artifacts[LastCandidate("kpi_table")].kind = "kpi_table"
           /\ \E verdict : Attempt(EvaluationOutputs, verdict)
           /\ OutputsOK(EvaluationOutputs, artifacts, 5) /\ Covers(EvaluationOutputs, 5)
<1>1. /\ execution.status = "running" /\ Stages[execution.node] = "evaluation"
      /\ UNCHANGED <<intent, attached, planned>>
  BY DEF EvaluateRun, At
<1>2. execution.node = 5
  BY <1>1 DEF StoreInv, ExecutionRecord, Stages
<1>3. RecordsOK(artifacts, files) /\ FilesOK(files) /\ artifacts \in Seq(ArtifactRecord)
  BY DEF StoreInv, RecordsOK
<1>4. Len(artifacts) \in Nat /\ Ids = 1..Len(artifacts)
  BY <1>3 DEF Ids
<1>5. /\ LastCandidate("kpi_table") \in Ids
      /\ artifacts[LastCandidate("kpi_table")].kind = "kpi_table"
  <2>1. StageOf("kpi_table") < execution.node
    BY <1>2 DEF StageOf
  <2>2. (\E i \in Ids : artifacts[i].kind = "kpi_table") /\ execution.known \subseteq Ids
    BY <2>1, Behind
  <2>3. QED
    BY <1>3, <2>2, CandidateIs
<1>6. PICK k \in Ids : k = LastCandidate("kpi_table")
  BY <1>5
<1>7. PICK content \in Content : content = ContentOf(k) /\ content.data \in Datasets
  BY <1>3, ContentIs
<1>8. PICK f \in FileNames : f = <<"evaluation_result", "any">>
  BY FilesAre
<1>9. /\ "evaluation" \in KindsOfRecords /\ f[1] \in Heads("evaluation") /\ f[1] \notin ByRecipe
      /\ StageOf("evaluation") = 5
  BY <1>8 DEF KindsOfRecords, Heads, ByRecipe, StageOf
<1>10. Ids \in SUBSET (1..Len(artifacts))
  BY <1>4
<1>11. OutputsOK(<<Output("evaluation", f, content, Ids)>>, artifacts, 5)
  BY <1>4, <1>7, <1>9, <1>10, OneOutput
<1>12. OutputsOK(EvaluationOutputs, artifacts, 5)
  BY <1>6, <1>7, <1>8, <1>11 DEF EvaluationOutputs
<1>13. Covers(EvaluationOutputs, 5)
  BY DEF Covers, StageOf
<1>14. \E verdict : Attempt(EvaluationOutputs, verdict)
  BY DEF EvaluateRun, EvaluationOutputs
<1>15. QED
  BY <1>1, <1>2, <1>5, <1>12, <1>13, <1>14

-----------------------------------------------------------------------------
(***************************************************************************)
(* The records and files stay in order.                                    *)
(***************************************************************************)
\* What an attempt leaves as it is: the files of other nodes' kinds.
LEMMA WritesKeepOthers ==
    ASSUME NEW outs, NEW arts, NEW node, OutputsOK(outs, arts, node), NEW n, NEW half, NEW fs,
           NEW arts2, NEW fs2, Wrote(outs, n, half, arts, fs, arts2, fs2),
           NEW kind \in KindsOfRecords, StageOf(kind) # node, NEW f \in FileNames, f[1] \in Heads(kind)
    PROVE  fs2[f] = fs[f]
<1>1. Len(outs) \in Nat /\ DOMAIN outs = 1..Len(outs)
  BY DEF OutputsOK
<1>2. ASSUME NEW i \in 1..(IF half THEN n + 1 ELSE n)
      PROVE  outs[i].file # f
  <2>1. i \in DOMAIN outs
    BY <1>1, <1>2 DEF Wrote
  <2>2. outs[i] \in OutputRecord
    BY <2>1 DEF OutputsOK
  <2>3. outs[i].kind \in KindsOfRecords /\ outs[i].file[1] \in Heads(outs[i].kind)
    BY <2>1, <2>2 DEF OutputsOK, OutputRecord
  <2>4. outs[i].kind # kind
    BY <2>1 DEF OutputsOK
  <2>5. outs[i].file[1] \notin Heads(kind)
    BY <2>3, <2>4, KindsApart
  <2>6. QED
    BY <2>5
<1>3. QED
  BY <1>2 DEF Wrote

\* The new records.
LEMMA NewRecords ==
    ASSUME NEW outs, NEW arts, NEW node, OutputsOK(outs, arts, node), NEW n, NEW half, NEW fs,
           NEW arts2, NEW fs2, Wrote(outs, n, half, arts, fs, arts2, fs2), Len(arts) \in Nat
    PROVE  \A i \in 1..Len(arts2) :
              \/ i \in 1..Len(arts) /\ arts2[i] = arts[i]
              \/ /\ i - Len(arts) \in 1..n /\ i - Len(arts) \in DOMAIN outs /\ i > Len(arts)
                 /\ arts2[i].kind = outs[i - Len(arts)].kind
                 /\ arts2[i].file = outs[i - Len(arts)].file
                 /\ arts2[i].sources = outs[i - Len(arts)].sources
<1>1. Len(outs) \in Nat /\ DOMAIN outs = 1..Len(outs) /\ n \in 0..Len(outs)
  BY DEF OutputsOK, Wrote
<1>2. TAKE i \in 1..Len(arts2)
<1>3. Len(arts2) = Len(arts) + n
  BY DEF Wrote
<1>4. CASE i \in 1..Len(arts)
  BY <1>4 DEF Wrote
<1>5. CASE i \notin 1..Len(arts)
  <2>1. PICK k : k = i - Len(arts)
    OBVIOUS
  <2>2. k \in 1..n /\ k \in DOMAIN outs /\ i = Len(arts) + k /\ i > Len(arts)
    BY <1>1, <1>3, <1>5, <2>1
  <2>3. arts2[Len(arts) + k] = Record(outs[k].kind, outs[k].file, outs[k].sources)
    BY <2>2 DEF Wrote
  <2>4. arts2[i] = Record(outs[k].kind, outs[k].file, outs[k].sources)
    BY <2>2, <2>3
  <2>5. QED
    BY <2>1, <2>2, <2>4 DEF Record
<1>6. QED
  BY <1>4, <1>5

LEMMA WritesKeepOrder ==
    ASSUME NEW outs, NEW arts, NEW node \in 1..5, OutputsOK(outs, arts, node), NEW n, NEW half, NEW fs,
           NEW arts2, NEW fs2, Wrote(outs, n, half, arts, fs, arts2, fs2),
           RecordsOK(arts, fs), FilesOK(fs)
    PROVE  RecordsOK(arts2, fs2) /\ FilesOK(fs2)
<1>1. Len(arts) \in Nat /\ Len(outs) \in Nat /\ DOMAIN outs = 1..Len(outs) /\ DOMAIN arts = 1..Len(arts)
  BY DEF OutputsOK, RecordsOK
<1>2. arts2 \in Seq(ArtifactRecord) /\ DOMAIN arts2 = 1..Len(arts2)
  BY DEF Wrote
<1>3. \A i \in 1..Len(arts2) :
         \/ i \in 1..Len(arts) /\ arts2[i] = arts[i]
         \/ /\ i - Len(arts) \in 1..n /\ i - Len(arts) \in DOMAIN outs /\ i > Len(arts)
            /\ arts2[i].kind = outs[i - Len(arts)].kind
            /\ arts2[i].file = outs[i - Len(arts)].file
            /\ arts2[i].sources = outs[i - Len(arts)].sources
  BY <1>1, NewRecords
<1>4. ASSUME NEW f \in FileNames, fs2[f] # fs[f]
      PROVE  \E i \in DOMAIN outs : outs[i].file = f /\ fs2[f] = outs[i].content
  <2>1. PICK i \in 1..(IF half THEN n + 1 ELSE n) : outs[i].file = f /\ fs2[f] = outs[i].content
    BY <1>4 DEF Wrote
  <2>2. i \in DOMAIN outs
    BY <1>1, <2>1 DEF Wrote
  <2>3. QED
    BY <2>1, <2>2
<1>5. \A f \in FileNames : fs[f].data \in Datasets => fs2[f].data \in Datasets
  BY <1>4 DEF OutputsOK
<1>6. FilesOK(fs2)
  <2>1. fs2 \in [FileNames -> Content]
    BY DEF Wrote
  <2>2. ASSUME NEW f \in FileNames, fs2[f].data \in Datasets
        PROVE  /\ f[1] \in ByRecipe => fs2[f].recipe = f[2]
               /\ f[1] = "dataset" => fs2[f].data = f[2]
    <3>1. CASE fs2[f] = fs[f]
      BY <2>2, <3>1 DEF FilesOK
    <3>2. CASE fs2[f] # fs[f]
      <4>1. PICK i \in DOMAIN outs : outs[i].file = f /\ fs2[f] = outs[i].content
        BY <1>4, <3>2
      <4>2. f[1] \in ByRecipe => fs2[f].recipe = f[2]
        BY <4>1 DEF OutputsOK
      <4>3. f[1] # "dataset"
        <5>1. "dataset" \in KindsOfRecords /\ StageOf("dataset") # node /\ Heads("dataset") = {"dataset"}
          BY DEF KindsOfRecords, StageOf, Heads
        <5>2. QED
          BY <3>2, <5>1, WritesKeepOthers
      <4>4. QED
        BY <4>2, <4>3
    <3>3. QED
      BY <3>1, <3>2
  <2>3. QED
    BY <2>1, <2>2 DEF FilesOK
<1>7. ASSUME NEW i \in DOMAIN arts2
      PROVE  /\ arts2[i].sources \subseteq 1..(i - 1)
             /\ arts2[i].file[1] \in Heads(arts2[i].kind)
             /\ fs2[arts2[i].file].data \in Datasets
  <2>0. i \in 1..Len(arts2)
    BY <1>2
  <2>1. CASE i \in 1..Len(arts) /\ arts2[i] = arts[i]
    <3>1. arts[i] \in ArtifactRecord
      BY <1>1, <2>1 DEF RecordsOK
    <3>2. arts[i].file \in FileNames
      BY <3>1 DEF ArtifactRecord
    <3>3. fs[arts[i].file].data \in Datasets
      BY <1>1, <2>1 DEF RecordsOK
    <3>4. QED
      BY <1>1, <1>5, <2>1, <3>2, <3>3 DEF RecordsOK
  <2>2. CASE i \notin 1..Len(arts)
    <3>1. PICK k \in 1..n : /\ k = i - Len(arts) /\ k \in DOMAIN outs
                            /\ arts2[i].kind = outs[k].kind /\ arts2[i].file = outs[k].file
                            /\ arts2[i].sources = outs[k].sources
      BY <1>3, <2>0, <2>2
    <3>2. i - 1 = Len(arts) + k - 1
      BY <1>1, <2>0, <3>1
    <3>3. outs[k].sources \subseteq 1..(i - 1) /\ outs[k].file[1] \in Heads(outs[k].kind)
      BY <3>1, <3>2 DEF OutputsOK
    <3>4. outs[k] \in OutputRecord
      BY <3>1 DEF OutputsOK
    <3>5. outs[k].file \in FileNames
      BY <3>4 DEF OutputRecord
    <3>6. k \in 1..(IF half THEN n + 1 ELSE n)
      BY <1>1, <3>1 DEF Wrote
    <3>7. \E j \in 1..(IF half THEN n + 1 ELSE n) : fs2[outs[k].file] = outs[j].content
      BY <3>5, <3>6 DEF Wrote
    <3>8. \A j \in 1..(IF half THEN n + 1 ELSE n) : j \in DOMAIN outs
      BY <1>1 DEF Wrote
    <3>9. fs2[outs[k].file].data \in Datasets
      BY <3>7, <3>8 DEF OutputsOK
    <3>10. QED
      BY <3>1, <3>3, <3>9
  <2>3. QED
    BY <1>3, <2>0, <2>1, <2>2
<1>8. QED
  BY <1>2, <1>6, <1>7 DEF RecordsOK

LEMMA PassedOn ==
    ASSUME NEW arts, NEW fs, RecordsOK(arts, fs), NEW x \in ExecutionRecord, Passed(x, arts),
           x.status = "running", NEW outs, OutputsOK(outs, arts, x.node), Covers(outs, x.node),
           NEW n, NEW half, NEW arts2, NEW fs2, Wrote(outs, n, half, arts, fs, arts2, fs2),
           NEW x2, Ended(x, x2, n, half, outs, arts)
    PROVE  Passed(x2, arts2)
<1>1. Len(arts) \in Nat /\ Len(outs) \in Nat /\ DOMAIN outs = 1..Len(outs) /\ DOMAIN arts = 1..Len(arts)
  BY DEF OutputsOK, RecordsOK
<1>2. DOMAIN arts2 = 1..(Len(arts) + n) /\ n \in 0..Len(outs) /\ Len(arts2) = Len(arts) + n
  BY DEF Wrote
<1>3. \A i \in DOMAIN arts : i \in DOMAIN arts2 /\ arts2[i] = arts[i]
  BY <1>1, <1>2 DEF Wrote
<1>4. x.known \subseteq DOMAIN arts
  BY DEF Passed
<1>5. x.node \in 1..5
  BY DEF ExecutionRecord
<1>6. CASE x2.known = x.known /\ x2.node = x.node /\ x2.status \in {"running", "failed"}
  BY <1>3, <1>4, <1>6 DEF Passed
<1>7. CASE /\ n = Len(outs) /\ half = FALSE
           /\ x2.known = x.known \cup ((Len(arts) + 1)..(Len(arts) + n))
           /\ \/ x.node < 5 /\ x2.node = x.node + 1 /\ x2.status = "running"
              \/ x.node = 5 /\ x2.node = 5 /\ x2.status = "completed"
  <2>1. x2.known \subseteq DOMAIN arts2
    BY <1>1, <1>2, <1>3, <1>4, <1>7
  <2>2. ASSUME NEW i \in x2.known
        PROVE  /\ StageOf(arts2[i].kind) > 0 /\ StageOf(arts2[i].kind) <= x.node
    <3>1. CASE i \in x.known
      <4>1. StageOf(arts[i].kind) > 0 /\ StageOf(arts[i].kind) < x.node
        BY <3>1 DEF Passed
      <4>2. StageOf(arts[i].kind) \in 0..5
        BY DEF StageOf
      <4>3. QED
        BY <1>3, <1>4, <1>5, <3>1, <4>1, <4>2
    <3>2. CASE i \notin x.known
      <4>1. i \in (Len(arts) + 1)..(Len(arts) + n)
        BY <1>7, <3>2
      <4>2. i \in 1..Len(arts2) /\ i \notin 1..Len(arts)
        BY <1>1, <1>2, <4>1
      <4>3. PICK k \in DOMAIN outs : arts2[i].kind = outs[k].kind
        <5>1. /\ i - Len(arts) \in DOMAIN outs
              /\ arts2[i].kind = outs[i - Len(arts)].kind
          BY <1>1, <4>2, NewRecords
        <5>2. QED
          BY <5>1
      <4>4. StageOf(outs[k].kind) = x.node
        BY DEF OutputsOK
      <4>5. QED
        BY <1>5, <4>3, <4>4
    <3>3. QED
      BY <3>1, <3>2
  <2>3. x2.status # "completed" => \A i \in x2.known : StageOf(arts2[i].kind) < x2.node
    <3>1. CASE x2.status = "completed"
      BY <3>1
    <3>2. CASE x2.status # "completed"
      <4>1. x2.node = x.node + 1
        BY <1>7, <3>2
      <4>2. \A k \in KindsOfRecords : StageOf(k) \in 0..5
        BY DEF StageOf
      <4>3. ASSUME NEW i \in x2.known
            PROVE  StageOf(arts2[i].kind) < x2.node
        <5>1. StageOf(arts2[i].kind) \in 0..5
          BY DEF StageOf
        <5>2. QED
          BY <1>5, <2>2, <4>1, <5>1
      <4>4. QED
        BY <4>3
    <3>3. QED
      BY <3>1, <3>2
  <2>4. ASSUME NEW kind \in {"schema_profile", "kpi_table", "chart", "dashboard", "report"},
               StageOf(kind) < x2.node
        PROVE  \E i \in x2.known : arts2[i].kind = kind
    <3>1. StageOf(kind) \in 0..5
      BY DEF StageOf
    <3>2. CASE StageOf(kind) < x.node
      <4>1. PICK i \in x.known : arts[i].kind = kind
        BY <3>2 DEF Passed
      <4>2. QED
        BY <1>3, <1>4, <1>7, <4>1
    <3>3. CASE ~(StageOf(kind) < x.node)
      <4>1. StageOf(kind) = x.node
        BY <1>5, <1>7, <2>4, <3>1, <3>3
      <4>2. PICK k \in DOMAIN outs : outs[k].kind = kind
        BY <4>1 DEF Covers
      <4>3. k \in 1..n
        BY <1>1, <1>7, <4>2
      <4>4. arts2[Len(arts) + k] = Record(outs[k].kind, outs[k].file, outs[k].sources)
        BY <4>3 DEF Wrote
      <4>5. arts2[Len(arts) + k].kind = kind
        BY <4>2, <4>4 DEF Record
      <4>6. Len(arts) + k \in x2.known
        BY <1>1, <1>2, <1>7, <4>3
      <4>7. QED
        BY <4>5, <4>6
    <3>4. QED
      BY <3>2, <3>3
  <2>5. x2.status = "completed" => x2.node = 5
    BY <1>7
  <2>6. QED
    BY <2>1, <2>2, <2>3, <2>4, <2>5 DEF Passed
<1>8. QED
  BY <1>6, <1>7 DEF Ended

\* A predicate of its own, so that a step can be stated once for all agents: an attempt of the
\* node's agent to write outs was made.
Attempted(outs) ==
    /\ execution.status = "running"
    /\ UNCHANGED <<intent, attached, planned>>
    /\ OutputsOK(outs, artifacts, execution.node) /\ Covers(outs, execution.node)
    /\ \E n \in 0..Len(outs), half \in BOOLEAN :
          /\ Wrote(outs, n, half, artifacts, files, artifacts', files')
          /\ Ended(execution, execution', n, half, outs, artifacts)
          /\ history'.executions = history.executions
          /\ history'.torn = TornFiles(outs, n, half)
          /\ history' \in HistoryRecord

Refused ==
    /\ execution.status = "running"
    /\ UNCHANGED <<intent, artifacts, files, attached, planned, history>>
    /\ execution' \in ExecutionRecord /\ execution'.status \in {"running", "failed"}
    /\ execution'.origin = execution.origin /\ execution'.shifted = execution.shifted
    /\ execution'.known = execution.known /\ execution'.node = execution.node

LEMMA RefuseIs ==
    ASSUME execution \in ExecutionRecord, execution.status = "running", Refuse,
           UNCHANGED <<intent, attached, planned>>
    PROVE  Refused
<1>1. PICK x : x = Failed
  OBVIOUS
<1>2. /\ x \in ExecutionRecord /\ x.status \in {"running", "failed"}
      /\ x.origin = execution.origin /\ x.shifted = execution.shifted
      /\ x.known = execution.known /\ x.node = execution.node
  BY <1>1, FailedIs
<1>3. execution' = [x EXCEPT !.refused = TRUE]
  BY <1>1 DEF Refuse
<1>4. /\ execution' \in ExecutionRecord /\ execution'.status = x.status
      /\ execution'.origin = x.origin /\ execution'.shifted = x.shifted
      /\ execution'.known = x.known /\ execution'.node = x.node
  BY <1>2, <1>3 DEF ExecutionRecord
<1>5. UNCHANGED <<artifacts, files, history>>
  BY DEF Refuse
<1>6. QED
  BY <1>2, <1>4, <1>5 DEF Refused

\* What each agent does.
LEMMA AgentsAct ==
    ASSUME StoreInv
    PROVE  /\ ProfileDataset =>
                 \/ Refused /\ execution.node = 1 /\ planned = "none"
                 \/ execution.node = 1 /\ Attempted(ProfileOutputs)
           /\ Analyze =>
                 /\ execution.node = 2 /\ SchemaRecipe = files[Schema].recipe /\ SchemaRecipe \in Recipes
                 /\ \/ Refused /\ SchemaRecipe = "procurement" /\ Dataset \notin Ready
                    \/ Attempted(AnalysisOutputs)
           /\ Visualize =>
                 /\ execution.node = 3
                 /\ Attempted(ChartOutputs(KpiForCharts, ContentOf(KpiForCharts), Len(artifacts)))
           /\ ComposeReport => execution.node = 4 /\ Attempted(ReportOutputs)
           /\ EvaluateRun => execution.node = 5 /\ Attempted(EvaluationOutputs)
<1>1. /\ RecordsOK(artifacts, files) /\ FilesOK(files) /\ execution \in ExecutionRecord
      /\ history \in HistoryRecord
  BY DEF StoreInv
<1>2. ASSUME execution.status = "running", UNCHANGED <<intent, attached, planned>>,
             NEW outs, OutputsOK(outs, artifacts, execution.node), Covers(outs, execution.node),
             NEW verdict, Attempt(outs, verdict)
      PROVE  Attempted(outs)
  <2>1. \E n \in 0..Len(outs), half \in BOOLEAN :
           /\ Wrote(outs, n, half, artifacts, files, artifacts', files')
           /\ Ended(execution, execution', n, half, outs, artifacts)
           /\ history'.executions = history.executions
           /\ history'.torn = TornFiles(outs, n, half)
           /\ history' \in HistoryRecord
    BY <1>1, <1>2, AttemptIs
  <2>2. QED
    BY <1>2, <2>1 DEF Attempted
<1>3. ASSUME ProfileDataset
      PROVE  \/ Refused /\ execution.node = 1 /\ planned = "none"
             \/ execution.node = 1 /\ Attempted(ProfileOutputs)
  <2>1. /\ execution.status = "running" /\ execution.node = 1
        /\ UNCHANGED <<intent, attached, planned>>
        /\ \/ Refuse /\ planned = "none"
           \/ /\ Attempt(ProfileOutputs, TRUE)
              /\ OutputsOK(ProfileOutputs, artifacts, 1) /\ Covers(ProfileOutputs, 1)
    BY <1>3, ProfileActs
  <2>2. CASE Refuse /\ planned = "none"
    BY <1>1, <2>1, <2>2, RefuseIs
  <2>3. CASE /\ Attempt(ProfileOutputs, TRUE)
             /\ OutputsOK(ProfileOutputs, artifacts, 1) /\ Covers(ProfileOutputs, 1)
    BY <1>2, <2>1, <2>3
  <2>4. QED
    BY <2>1, <2>2, <2>3
<1>4. ASSUME Analyze
      PROVE  /\ execution.node = 2 /\ SchemaRecipe = files[Schema].recipe /\ SchemaRecipe \in Recipes
             /\ \/ Refused /\ SchemaRecipe = "procurement" /\ Dataset \notin Ready
                \/ Attempted(AnalysisOutputs)
  <2>1. /\ execution.status = "running" /\ execution.node = 2
        /\ UNCHANGED <<intent, attached, planned>>
        /\ SchemaRecipe = files[Schema].recipe /\ SchemaRecipe \in Recipes
        /\ \/ Refuse /\ SchemaRecipe = "procurement" /\ Dataset \notin Ready
           \/ /\ Attempt(AnalysisOutputs, TRUE)
              /\ OutputsOK(AnalysisOutputs, artifacts, 2) /\ Covers(AnalysisOutputs, 2)
    BY <1>4, AnalyzeActs
  <2>2. CASE Refuse /\ SchemaRecipe = "procurement" /\ Dataset \notin Ready
    BY <1>1, <2>1, <2>2, RefuseIs
  <2>3. CASE /\ Attempt(AnalysisOutputs, TRUE)
             /\ OutputsOK(AnalysisOutputs, artifacts, 2) /\ Covers(AnalysisOutputs, 2)
    BY <1>2, <2>1, <2>3
  <2>4. QED
    BY <2>1, <2>2, <2>3
<1>5. ASSUME Visualize
      PROVE  /\ execution.node = 3
             /\ Attempted(ChartOutputs(KpiForCharts, ContentOf(KpiForCharts), Len(artifacts)))
  BY <1>2, <1>5, VisualizeActs
<1>6. ASSUME ComposeReport
      PROVE  execution.node = 4 /\ Attempted(ReportOutputs)
  BY <1>2, <1>6, ReportActs
<1>7. ASSUME EvaluateRun
      PROVE  execution.node = 5 /\ Attempted(EvaluationOutputs)
  <2>1. /\ execution.status = "running" /\ execution.node = 5
        /\ UNCHANGED <<intent, attached, planned>>
        /\ \E verdict : Attempt(EvaluationOutputs, verdict)
        /\ OutputsOK(EvaluationOutputs, artifacts, 5) /\ Covers(EvaluationOutputs, 5)
    BY <1>7, EvaluateActs
  <2>2. PICK verdict : Attempt(EvaluationOutputs, verdict)
    BY <2>1
  <2>3. QED
    BY <1>2, <2>1, <2>2
<1>8. QED
  BY <1>3, <1>4, <1>5, <1>6, <1>7

LEMMA AttemptKeepsStore ==
    ASSUME StoreInv, NEW outs, Attempted(outs)
    PROVE  StoreInv'
<1>1. PICK n \in 0..Len(outs), half \in BOOLEAN :
         /\ Wrote(outs, n, half, artifacts, files, artifacts', files')
         /\ Ended(execution, execution', n, half, outs, artifacts)
         /\ history' \in HistoryRecord
  BY DEF Attempted
<1>2. /\ execution.status = "running" /\ UNCHANGED <<intent, attached, planned>>
      /\ OutputsOK(outs, artifacts, execution.node) /\ Covers(outs, execution.node)
  BY DEF Attempted
<1>3. /\ RecordsOK(artifacts, files) /\ FilesOK(files) /\ execution \in ExecutionRecord
      /\ Passed(execution, artifacts) /\ execution.node \in 1..5
  BY DEF StoreInv, ExecutionRecord
<1>4. RecordsOK(artifacts', files') /\ FilesOK(files')
  BY <1>1, <1>2, <1>3, WritesKeepOrder
<1>5. Passed(execution', artifacts')
  BY <1>1, <1>2, <1>3, PassedOn
<1>6. execution' \in ExecutionRecord
  BY <1>1 DEF Ended
<1>7. attached' \in Made("dataset")' /\ attached' # 0
  <2>1. attached \in Made("dataset") /\ attached # 0
    BY <1>2 DEF StoreInv
  <2>2. attached \in 1..Len(artifacts) /\ artifacts[attached].kind = "dataset"
    BY <1>3, <2>1 DEF Made, Ids, RecordsOK
  <2>3. artifacts'[attached] = artifacts[attached] /\ Len(artifacts') = Len(artifacts) + n
    BY <1>1, <2>2 DEF Wrote
  <2>4. DOMAIN artifacts' = 1..Len(artifacts') /\ Len(artifacts) \in Nat
    BY <1>3, <1>4 DEF RecordsOK
  <2>5. attached \in DOMAIN artifacts'
    BY <2>2, <2>3, <2>4
  <2>6. QED
    BY <1>2, <2>1, <2>2, <2>3, <2>5 DEF Made, Ids
<1>8. intent' \in BOOLEAN /\ planned' \in Recipes \cup {"none"}
  BY <1>2 DEF StoreInv
<1>9. QED
  BY <1>1, <1>4, <1>5, <1>6, <1>7, <1>8 DEF StoreInv

\* A dataset is attached: what the attempts of an execution have made stays as it is.
LEMMA AttachIs ==
    ASSUME StoreInv, NEW d \in Datasets, AttachDataset(d)
    PROVE  /\ Len(artifacts) \in Nat /\ DOMAIN artifacts = 1..Len(artifacts)
           /\ artifacts' \in Seq(ArtifactRecord) /\ Len(artifacts') = Len(artifacts) + 1
           /\ DOMAIN artifacts' = 1..(Len(artifacts) + 1) /\ attached' = Len(artifacts) + 1
           /\ \A i \in 1..Len(artifacts) : artifacts'[i] = artifacts[i]
           /\ artifacts'[attached'].kind = "dataset" /\ artifacts'[attached'].sources = {}
           /\ artifacts'[attached'].file = <<"dataset", d>>
           /\ files' \in [FileNames -> Content] /\ <<"dataset", d>> \in FileNames
           /\ files'[<<"dataset", d>>].data = d
           /\ \A f \in FileNames : f # <<"dataset", d>> => files'[f] = files[f]
           /\ execution' \in ExecutionRecord /\ execution'.shifted = TRUE
           /\ execution'.status = execution.status /\ execution'.known = execution.known
           /\ execution'.node = execution.node /\ execution'.origin = execution.origin
           /\ execution'.refused = execution.refused
           /\ UNCHANGED <<intent, planned, history>>
<1>1. /\ artifacts \in Seq(ArtifactRecord) /\ files \in [FileNames -> Content]
      /\ execution \in ExecutionRecord
  BY DEF StoreInv, RecordsOK, FilesOK
<1>2. PICK r : r = Record("dataset", <<"dataset", d>>, {})
  OBVIOUS
<1>3. <<"dataset", d>> \in FileNames
  BY FilesAre
<1>4. /\ r \in ArtifactRecord /\ r.kind = "dataset" /\ r.sources = {}
      /\ r.file = <<"dataset", d>>
  BY <1>2, <1>3 DEF Record, ArtifactRecord, KindsOfRecords
<1>5. artifacts' = Append(artifacts, r) /\ attached' = Len(artifacts) + 1
  BY <1>2 DEF AttachDataset
<1>6. /\ Len(artifacts) \in Nat /\ DOMAIN artifacts = 1..Len(artifacts)
      /\ artifacts' \in Seq(ArtifactRecord) /\ Len(artifacts') = Len(artifacts) + 1
      /\ \A i \in 1..Len(artifacts) : artifacts'[i] = artifacts[i]
      /\ artifacts'[Len(artifacts) + 1] = r
  BY <1>1, <1>4, <1>5, AppendProperties
<1>7. DOMAIN artifacts' = 1..(Len(artifacts) + 1)
  BY <1>6
<1>8. Of(d, "generic") \in Content /\ Of(d, "generic").data = d
  BY DEF Of, Content, Recipes
<1>9. files' = [files EXCEPT ![<<"dataset", d>>] = Of(d, "generic")]
  BY DEF AttachDataset
<1>10. /\ files' \in [FileNames -> Content] /\ files'[<<"dataset", d>>].data = d
       /\ \A f \in FileNames : f # <<"dataset", d>> => files'[f] = files[f]
  BY <1>1, <1>3, <1>8, <1>9
<1>11. /\ execution' \in ExecutionRecord /\ execution'.shifted = TRUE
       /\ execution'.status = execution.status /\ execution'.known = execution.known
       /\ execution'.node = execution.node /\ execution'.origin = execution.origin
       /\ execution'.refused = execution.refused
  <2>1. execution' = [execution EXCEPT !.shifted = TRUE]
    BY DEF AttachDataset
  <2>2. QED
    BY <1>1, <2>1 DEF ExecutionRecord
<1>12. UNCHANGED <<intent, planned, history>>
  BY DEF AttachDataset
<1>13. QED
  BY <1>3, <1>4, <1>5, <1>6, <1>7, <1>10, <1>11, <1>12

LEMMA AttachKeepsStore ==
    ASSUME StoreInv, NEW d \in Datasets, AttachDataset(d)
    PROVE  StoreInv'
<1>1. /\ Len(artifacts) \in Nat /\ DOMAIN artifacts = 1..Len(artifacts)
      /\ artifacts' \in Seq(ArtifactRecord) /\ Len(artifacts') = Len(artifacts) + 1
      /\ DOMAIN artifacts' = 1..(Len(artifacts) + 1) /\ attached' = Len(artifacts) + 1
      /\ \A i \in 1..Len(artifacts) : artifacts'[i] = artifacts[i]
      /\ artifacts'[attached'].kind = "dataset" /\ artifacts'[attached'].sources = {}
      /\ artifacts'[attached'].file = <<"dataset", d>>
  BY AttachIs
<1>2. /\ files' \in [FileNames -> Content] /\ <<"dataset", d>> \in FileNames
      /\ files'[<<"dataset", d>>].data = d
      /\ \A f \in FileNames : f # <<"dataset", d>> => files'[f] = files[f]
  BY AttachIs
<1>3. /\ execution' \in ExecutionRecord /\ execution'.shifted = TRUE
      /\ execution'.status = execution.status /\ execution'.known = execution.known
      /\ execution'.node = execution.node /\ UNCHANGED <<intent, planned, history>>
  BY AttachIs
<1>4. RecordsOK(artifacts, files) /\ FilesOK(files) /\ Passed(execution, artifacts)
  BY DEF StoreInv
<1>5. ASSUME NEW i \in DOMAIN artifacts'
      PROVE  /\ artifacts'[i].sources \subseteq 1..(i - 1)
             /\ artifacts'[i].file[1] \in Heads(artifacts'[i].kind)
             /\ files'[artifacts'[i].file].data \in Datasets
  <2>1. CASE i \in 1..Len(artifacts)
    <3>1. /\ artifacts[i] \in ArtifactRecord /\ artifacts[i].sources \subseteq 1..(i - 1)
          /\ artifacts[i].file[1] \in Heads(artifacts[i].kind)
          /\ files[artifacts[i].file].data \in Datasets
      BY <1>1, <1>4, <2>1 DEF RecordsOK
    <3>2. artifacts[i].file \in FileNames
      BY <3>1 DEF ArtifactRecord
    <3>3. files'[artifacts[i].file].data \in Datasets
      BY <1>2, <3>1, <3>2
    <3>4. QED
      BY <1>1, <2>1, <3>1, <3>3
  <2>2. CASE i = attached'
    BY <1>1, <1>2, <2>2 DEF Heads
  <2>3. QED
    BY <1>1, <2>1, <2>2
<1>6. RecordsOK(artifacts', files')
  BY <1>1, <1>5 DEF RecordsOK
<1>7. FilesOK(files')
  <2>1. ASSUME NEW f \in FileNames, files'[f].data \in Datasets
        PROVE  /\ f[1] \in ByRecipe => files'[f].recipe = f[2]
               /\ f[1] = "dataset" => files'[f].data = f[2]
    <3>1. CASE f = <<"dataset", d>>
      BY <1>2, <3>1 DEF ByRecipe
    <3>2. CASE f # <<"dataset", d>>
      BY <1>2, <1>4, <2>1, <3>2 DEF FilesOK
    <3>3. QED
      BY <3>1, <3>2
  <2>2. QED
    BY <1>2, <2>1 DEF FilesOK
<1>8. Passed(execution', artifacts')
  <2>1. \A i \in execution.known : i \in DOMAIN artifacts' /\ artifacts'[i] = artifacts[i]
    BY <1>1, <1>4 DEF Passed
  <2>2. QED
    BY <1>3, <1>4, <2>1 DEF Passed
<1>9. attached' \in Made("dataset")' /\ attached' # 0
  BY <1>1 DEF Made, Ids
<1>10. intent' \in BOOLEAN /\ planned' \in Recipes \cup {"none"} /\ history' \in HistoryRecord
  BY <1>3 DEF StoreInv
<1>11. QED
  BY <1>3, <1>6, <1>7, <1>8, <1>9, <1>10 DEF StoreInv

\* An execution begins, or a failed node is taken up again.
LEMMA BegunIs ==
    ASSUME NEW origin \in {"dynamic", "procurement"}
    PROVE  /\ Begun(origin) \in ExecutionRecord /\ Begun(origin).status = "running"
           /\ Begun(origin).origin = origin /\ Begun(origin).node = 1 /\ Begun(origin).known = {}
           /\ Begun(origin).shifted = FALSE /\ Begun(origin).refused = FALSE
           /\ \A arts : Passed(Begun(origin), arts)
<1>1. PICK x : x = Begun(origin)
  OBVIOUS
<1>2. /\ x \in ExecutionRecord /\ x.status = "running" /\ x.origin = origin /\ x.node = 1
      /\ x.known = {} /\ x.shifted = FALSE /\ x.refused = FALSE
  BY <1>1 DEF Begun, ExecutionRecord
<1>3. \A kind \in {"schema_profile", "kpi_table", "chart", "dashboard", "report"} : ~(StageOf(kind) < 1)
  BY DEF StageOf
<1>4. \A arts : Passed(x, arts)
  BY <1>2, <1>3 DEF Passed
<1>5. QED
  BY <1>1, <1>2, <1>4

LEMMA StartIs ==
    ASSUME StoreInv, StartDynamic \/ StartProcurement
    PROVE  /\ execution.status # "running" /\ attached # 0 /\ UNCHANGED <<intent, artifacts, files, attached>>
           /\ history' \in HistoryRecord /\ history'.torn = history.torn
           /\ history.executions < MaxExecutions /\ history'.executions = history.executions + 1
           /\ \/ StartDynamic /\ execution' = Begun("dynamic")
              \/ StartProcurement /\ execution' = Begun("procurement") /\ planned' = planned
           /\ planned' \in Recipes \cup {"none"}
<1>1. PICK h \in HistoryRecord : h = history
  BY DEF StoreInv
<1>2. /\ execution.status # "running" /\ attached # 0 /\ UNCHANGED <<intent, artifacts, files, attached>>
      /\ history.executions < MaxExecutions /\ history' = [h EXCEPT !.executions = h.executions + 1]
      /\ \/ StartDynamic /\ execution' = Begun("dynamic")
         \/ StartProcurement /\ execution' = Begun("procurement") /\ planned' = planned
  BY <1>1 DEF StartDynamic, StartProcurement, Starts
<1>3. h.executions + 1 \in Nat
  BY DEF HistoryRecord
<1>4. /\ history' \in HistoryRecord /\ history'.torn = h.torn
      /\ history'.executions = h.executions + 1
  BY <1>2, <1>3 DEF HistoryRecord
<1>5. planned' \in Recipes \cup {"none"}
  <2>1. CASE StartDynamic
    <3>1. PICK advice \in Advices : planned' = Advised(advice)
      BY <2>1 DEF StartDynamic
    <3>2. Deterministic \in Recipes
      BY DEF Deterministic, Recipes
    <3>3. QED
      BY <3>1, <3>2 DEF Advised, Recipes
  <2>2. CASE StartProcurement
    BY <2>2 DEF StartProcurement, StoreInv
  <2>3. QED
    BY <2>1, <2>2
<1>6. QED
  BY <1>1, <1>2, <1>4, <1>5

LEMMA RetryIs ==
    ASSUME StoreInv, RetryFailedNode
    PROVE  /\ execution.status = "failed" /\ UNCHANGED <<intent, artifacts, files, attached, planned>>
           /\ history' \in HistoryRecord /\ history'.torn = history.torn
           /\ history'.executions = history.executions
           /\ execution' \in ExecutionRecord /\ execution'.status = "running"
           /\ execution'.node = execution.node /\ execution'.known = execution.known
           /\ execution'.origin = execution.origin /\ execution'.shifted = execution.shifted
           /\ execution'.refused = execution.refused
<1>1. PICK h \in HistoryRecord : h = history
  BY DEF StoreInv
<1>2. PICK x \in ExecutionRecord : x = execution
  BY DEF StoreInv
<1>3. /\ x.status = "failed" /\ history' = [h EXCEPT !.retries = h.retries + 1]
      /\ execution' = [x EXCEPT !.status = "running", !.tries = 0]
      /\ UNCHANGED <<intent, artifacts, files, attached, planned>>
  BY <1>1, <1>2 DEF RetryFailedNode
<1>4. h.retries + 1 \in Nat
  BY DEF HistoryRecord
<1>5. history' \in HistoryRecord /\ history'.torn = h.torn /\ history'.executions = h.executions
  BY <1>3, <1>4 DEF HistoryRecord
<1>6. /\ execution' \in ExecutionRecord /\ execution'.status = "running"
      /\ execution'.node = x.node /\ execution'.known = x.known /\ execution'.origin = x.origin
      /\ execution'.shifted = x.shifted /\ execution'.refused = x.refused
  BY <1>3 DEF ExecutionRecord
<1>7. QED
  BY <1>1, <1>2, <1>3, <1>5, <1>6

LEMMA StoreInit == PipelineInit => StoreInv
<1>1. SUFFICES ASSUME PipelineInit PROVE StoreInv
  OBVIOUS
<1>2. /\ intent \in BOOLEAN /\ artifacts = <<>> /\ attached = 0 /\ planned = "none"
      /\ files = [f \in FileNames |-> Empty]
      /\ execution = [Begun("dynamic") EXCEPT !.status = "idle"]
      /\ history = [executions |-> 0, retries |-> 0, breaks |-> 0, torn |-> {}]
  BY <1>1 DEF PipelineInit
<1>3. artifacts \in Seq(ArtifactRecord) /\ DOMAIN artifacts = {}
  BY <1>2
<1>4. RecordsOK(artifacts, files)
  BY <1>3 DEF RecordsOK
<1>5. Empty \in Content /\ Empty.data \notin Datasets
  BY PipelineAssumption DEF Empty, Content, Recipes
<1>6. FilesOK(files)
  BY <1>2, <1>5 DEF FilesOK
<1>7. history \in HistoryRecord
  BY <1>2 DEF HistoryRecord
<1>8. PICK x \in ExecutionRecord : /\ x = Begun("dynamic") /\ x.known = {} /\ x.node = 1
  BY BegunIs
<1>9. execution = [x EXCEPT !.status = "idle"]
  BY <1>2, <1>8
<1>10. execution \in ExecutionRecord /\ execution.known = {} /\ execution.node = 1 /\ execution.status = "idle"
  BY <1>8, <1>9 DEF ExecutionRecord
<1>11. \A kind \in {"schema_profile", "kpi_table", "chart", "dashboard", "report"} : ~(StageOf(kind) < 1)
  BY DEF StageOf
<1>12. Passed(execution, artifacts)
  BY <1>10, <1>11 DEF Passed
<1>13. QED
  BY <1>2, <1>4, <1>6, <1>7, <1>10, <1>12 DEF StoreInv

LEMMA StoreNext ==
    ASSUME StoreInv, [PipelineNext]_pipelineVars
    PROVE  StoreInv'
<1>1. CASE UNCHANGED pipelineVars
  <2>1. UNCHANGED <<intent, artifacts, files, attached, planned, execution, history>>
    BY <1>1 DEF pipelineVars
  <2>2. QED
    BY <2>1 DEF StoreInv, Made, Ids
<1>2. ASSUME NEW d \in Datasets, AttachDataset(d)
      PROVE  StoreInv'
  BY <1>2, AttachKeepsStore
<1>3. CASE StartDynamic \/ StartProcurement
  <2>1. /\ attached # 0 /\ UNCHANGED <<intent, artifacts, files, attached>>
        /\ history' \in HistoryRecord /\ planned' \in Recipes \cup {"none"}
        /\ execution' = Begun("dynamic") \/ execution' = Begun("procurement")
    BY <1>3, StartIs
  <2>2. execution' \in ExecutionRecord /\ Passed(execution', artifacts')
    BY <2>1, BegunIs
  <2>3. Made("dataset")' = Made("dataset")
    BY <2>1 DEF Made, Ids
  <2>4. QED
    BY <2>1, <2>2, <2>3 DEF StoreInv
<1>4. CASE RetryFailedNode
  <2>1. /\ execution.status = "failed" /\ UNCHANGED <<intent, artifacts, files, attached, planned>>
        /\ history' \in HistoryRecord /\ execution' \in ExecutionRecord
        /\ execution'.status = "running" /\ execution'.node = execution.node
        /\ execution'.known = execution.known
    BY <1>4, RetryIs
  <2>2. Passed(execution', artifacts')
    BY <2>1 DEF StoreInv, Passed
  <2>3. Made("dataset")' = Made("dataset")
    BY <2>1 DEF Made, Ids
  <2>4. QED
    BY <2>1, <2>2, <2>3 DEF StoreInv
<1>5. ASSUME Refused
      PROVE  StoreInv'
  <2>1. /\ execution.status = "running"
        /\ UNCHANGED <<intent, artifacts, files, attached, planned, history>>
        /\ execution' \in ExecutionRecord /\ execution'.status \in {"running", "failed"}
        /\ execution'.known = execution.known /\ execution'.node = execution.node
    BY <1>5 DEF Refused
  <2>2. Passed(execution', artifacts')
    BY <2>1 DEF StoreInv, Passed
  <2>3. Made("dataset")' = Made("dataset")
    BY <2>1 DEF Made, Ids
  <2>4. QED
    BY <2>1, <2>2, <2>3 DEF StoreInv
<1>6. CASE ProfileDataset \/ Analyze \/ Visualize \/ ComposeReport \/ EvaluateRun
  BY <1>5, <1>6, AgentsAct, AttemptKeepsStore
<1>7. QED
  BY <1>1, <1>2, <1>3, <1>4, <1>6 DEF PipelineNext

\* The records and files of a run fit together, whatever executions and broken attempts wrote
\* them: every source is an earlier record, and what an execution knows of are records of the run.
THEOREM PipelineTypes == PipelineSpec => []PipelineTypeOK
<1>1. StoreInv => PipelineTypeOK
  <2>1. SUFFICES ASSUME StoreInv PROVE PipelineTypeOK
    OBVIOUS
  <2>2. RecordsOK(artifacts, files) /\ FilesOK(files) /\ artifacts \in Seq(ArtifactRecord)
    BY <2>1 DEF StoreInv, RecordsOK
  <2>3. Len(artifacts) \in Nat /\ Ids = 1..Len(artifacts)
    BY <2>2 DEF Ids
  <2>4. \A i \in Ids : artifacts[i].sources \subseteq 1..(i - 1) /\ artifacts[i] \in ArtifactRecord
    BY <2>2 DEF RecordsOK, Ids
  <2> DEFINE R == [kind : {"dataset", "schema_profile", "kpi_table", "chart", "dashboard",
                           "report", "evaluation"}, file : FileNames, sources : SUBSET Ids]
  <2>5. ASSUME NEW i \in 1..Len(artifacts)
        PROVE  artifacts[i] \in R
    <3>1. artifacts[i] \in ArtifactRecord /\ artifacts[i].sources \subseteq Ids
      <4>1. 1..(i - 1) \subseteq 1..Len(artifacts)
        BY <2>3
      <4>2. QED
        BY <2>3, <2>4, <4>1
    <3>2. QED
      BY <3>1 DEF ArtifactRecord, KindsOfRecords
  <2>6. artifacts \in Seq(R)
    <3>1. artifacts \in [1..Len(artifacts) -> R]
      <4>1. artifacts = [i \in 1..Len(artifacts) |-> artifacts[i]]
        BY <2>2
      <4> HIDE DEF R
      <4>2. QED
        BY <2>5, <4>1
    <3> HIDE DEF R
    <3>2. QED
      BY <2>3, <3>1
  <2>7. \A i \in Ids : \A j \in artifacts[i].sources : j < i
    BY <2>3, <2>4
  <2>8. files \in [FileNames -> Content]
    BY <2>2 DEF FilesOK
  <2>9. attached \in {0} \cup Ids /\ planned \in Recipes \cup {"none"} /\ Delivered \subseteq Ids
    BY <2>1 DEF StoreInv, Made, Delivered, Passed, Ids
  <2>10. QED
    BY <2>6, <2>7, <2>8, <2>9 DEF PipelineTypeOK
<1>2. PipelineSpec => []StoreInv
  BY StoreInit, StoreNext, PTL DEF PipelineSpec
<1>3. QED
  BY <1>1, <1>2, PTL

-----------------------------------------------------------------------------
(***************************************************************************)
(* What an attempt changes of what an execution knows of: at most it adds  *)
(* to it, and the files of what was known before stay as they are.         *)
(***************************************************************************)
\* The run has used one file for its KPI tables.
OneTable(arts) ==
    \A i \in DOMAIN arts, k \in DOMAIN arts :
        arts[i].kind = "kpi_table" /\ arts[k].kind = "kpi_table" => arts[i].file = arts[k].file

LEMMA KnownKinds ==
    ASSUME StoreInv, NEW i \in execution.known
    PROVE  /\ i \in Ids /\ artifacts[i].kind \in KindsOfRecords /\ artifacts[i].kind # "dataset"
           /\ artifacts[i].file \in FileNames /\ artifacts[i].file[1] \in Heads(artifacts[i].kind)
           /\ execution.status # "completed" => StageOf(artifacts[i].kind) < execution.node
<1>1. i \in Ids
  BY DEF StoreInv, Passed, Ids
<1>2. RecordsOK(artifacts, files) /\ FilesOK(files)
  BY DEF StoreInv
<1>3. StageOf(artifacts[i].kind) > 0
  BY DEF StoreInv, Passed
<1>4. artifacts[i].kind # "dataset"
  BY <1>3 DEF StageOf
<1>5. QED
  BY <1>1, <1>2, <1>4, ContentIs DEF StoreInv, Passed

LEMMA KnownAfter ==
    ASSUME StoreInv, NEW outs, Attempted(outs)
    PROVE  /\ \A i \in execution.known :
                 /\ artifacts'[i] = artifacts[i]
                 /\ files'[artifacts[i].file] = files[artifacts[i].file]
           /\ \A i \in execution'.known :
                 \/ i \in execution.known
                 \/ \E k \in DOMAIN outs :
                       /\ artifacts'[i].kind = outs[k].kind /\ artifacts'[i].file = outs[k].file
                       /\ artifacts'[i].sources = outs[k].sources
                       /\ files'[artifacts'[i].file] = outs[k].content
           /\ \A i \in Ids : i \in DOMAIN artifacts' /\ artifacts'[i] = artifacts[i]
           /\ attached' = attached /\ attached \in Ids
           /\ files'[artifacts[attached].file] = files[artifacts[attached].file]
           /\ files'[artifacts[attached].file].data = Dataset
           /\ artifacts[attached].file = <<"dataset", Dataset>>
           /\ OneTable(artifacts') => OneTable(artifacts)
           /\ execution'.shifted = execution.shifted /\ execution'.origin = execution.origin
           /\ execution'.refused = execution.refused /\ execution'.status # "idle"
           /\ execution.known \subseteq Ids /\ planned' = planned
           /\ execution'.node = execution.node
              \/ \A k \in DOMAIN outs : files'[outs[k].file] = outs[k].content
<1>1. PICK n \in 0..Len(outs), half \in BOOLEAN :
         /\ Wrote(outs, n, half, artifacts, files, artifacts', files')
         /\ Ended(execution, execution', n, half, outs, artifacts)
  BY DEF Attempted
<1>2. /\ execution.status = "running" /\ UNCHANGED <<intent, attached, planned>>
      /\ OutputsOK(outs, artifacts, execution.node)
  BY DEF Attempted
<1>3. /\ RecordsOK(artifacts, files) /\ FilesOK(files) /\ execution \in ExecutionRecord
      /\ execution.node \in 1..5
  BY DEF StoreInv, ExecutionRecord
<1>4. Len(artifacts) \in Nat /\ Ids = 1..Len(artifacts)
  BY <1>3 DEF RecordsOK, Ids
<1>5. Len(outs) \in Nat /\ DOMAIN outs = 1..Len(outs) /\ n \in 0..Len(outs)
  BY <1>1, <1>2 DEF OutputsOK
<1>6. /\ Len(artifacts') = Len(artifacts) + n /\ DOMAIN artifacts' = 1..Len(artifacts')
      /\ \A i \in Ids : i \in DOMAIN artifacts' /\ artifacts'[i] = artifacts[i]
  BY <1>1, <1>4, <1>5 DEF Wrote
<1>7. \A i \in execution.known : i \in Ids
  BY KnownKinds
<1>8. ASSUME NEW i \in execution.known
      PROVE  artifacts'[i] = artifacts[i] /\ files'[artifacts[i].file] = files[artifacts[i].file]
  <2>1. /\ i \in Ids /\ artifacts[i].kind \in KindsOfRecords
        /\ artifacts[i].file \in FileNames /\ artifacts[i].file[1] \in Heads(artifacts[i].kind)
        /\ StageOf(artifacts[i].kind) < execution.node
    BY <1>2, KnownKinds
  <2>2. StageOf(artifacts[i].kind) # execution.node
    <3>1. StageOf(artifacts[i].kind) \in Int /\ execution.node \in Int
      BY <1>3 DEF StageOf
    <3>2. QED
      BY <2>1, <3>1
  <2>3. files'[artifacts[i].file] = files[artifacts[i].file]
    BY <1>1, <1>2, <2>1, <2>2, WritesKeepOthers
  <2>4. QED
    BY <1>6, <2>1, <2>3
<1>9. ASSUME n = Len(outs), half = FALSE, NEW k \in DOMAIN outs
      PROVE  files'[outs[k].file] = outs[k].content
  <2>1. outs[k] \in OutputRecord
    BY <1>2 DEF OutputsOK
  <2>2. outs[k].file \in FileNames
    BY <2>1 DEF OutputRecord
  <2>3. k \in 1..(IF half THEN n + 1 ELSE n)
    BY <1>5, <1>9
  <2>4. PICK j \in 1..(IF half THEN n + 1 ELSE n) :
           outs[j].file = outs[k].file /\ files'[outs[k].file] = outs[j].content
    BY <1>1, <2>2, <2>3 DEF Wrote
  <2>5. j \in DOMAIN outs
    BY <1>5, <1>9
  <2>6. j = k
    BY <1>2, <2>4, <2>5 DEF OutputsOK
  <2>7. QED
    BY <2>4, <2>6
<1>10. ASSUME NEW i \in execution'.known, i \notin execution.known
       PROVE  \E k \in DOMAIN outs :
                 /\ artifacts'[i].kind = outs[k].kind /\ artifacts'[i].file = outs[k].file
                 /\ artifacts'[i].sources = outs[k].sources
                 /\ files'[artifacts'[i].file] = outs[k].content
  <2>1. /\ n = Len(outs) /\ half = FALSE /\ i \in (Len(artifacts) + 1)..(Len(artifacts) + n)
    BY <1>1, <1>10 DEF Ended
  <2>2. PICK k \in 1..n : k = i - Len(artifacts)
    BY <1>4, <1>5, <2>1
  <2>3. k \in DOMAIN outs /\ i = Len(artifacts) + k
    BY <1>4, <1>5, <2>1, <2>2
  <2>4. artifacts'[Len(artifacts) + k] = Record(outs[k].kind, outs[k].file, outs[k].sources)
    BY <1>1 DEF Wrote
  <2>5. /\ artifacts'[i].kind = outs[k].kind /\ artifacts'[i].file = outs[k].file
        /\ artifacts'[i].sources = outs[k].sources
    BY <2>3, <2>4 DEF Record
  <2>6. files'[outs[k].file] = outs[k].content
    BY <1>9, <2>1, <2>3
  <2>7. QED
    BY <2>3, <2>5, <2>6
<1>11. attached \in Made("dataset")
  BY <1>2 DEF StoreInv
<1>12. /\ Dataset \in Datasets /\ attached \in Ids /\ artifacts[attached].kind = "dataset"
       /\ artifacts[attached].file = <<"dataset", Dataset>>
       /\ Dataset = files[artifacts[attached].file].data
  BY <1>3, <1>11, DatasetIs
<1>13. files'[artifacts[attached].file] = files[artifacts[attached].file]
  <2>1. "dataset" \in KindsOfRecords /\ StageOf("dataset") # execution.node
    BY <1>3 DEF KindsOfRecords, StageOf
  <2>2. PICK f \in FileNames : f = artifacts[attached].file /\ f[1] \in Heads("dataset")
    BY <1>3, <1>12, ContentIs
  <2>3. files'[f] = files[f]
    BY <1>1, <1>2, <2>1, <2>2, WritesKeepOthers
  <2>4. QED
    BY <2>2, <2>3
<1>14. OneTable(artifacts') => OneTable(artifacts)
  BY <1>6 DEF OneTable, Ids
<1>15. /\ execution'.shifted = execution.shifted /\ execution'.origin = execution.origin
       /\ execution'.refused = execution.refused /\ execution'.status # "idle"
       /\ execution'.node = execution.node \/ (n = Len(outs) /\ half = FALSE)
  BY <1>1 DEF Ended
<1>16. /\ \A i \in execution.known :
                 /\ artifacts'[i] = artifacts[i]
                 /\ files'[artifacts[i].file] = files[artifacts[i].file]
       /\ \A i \in execution'.known :
                 \/ i \in execution.known
                 \/ \E k \in DOMAIN outs :
                       /\ artifacts'[i].kind = outs[k].kind /\ artifacts'[i].file = outs[k].file
                       /\ artifacts'[i].sources = outs[k].sources
                       /\ files'[artifacts'[i].file] = outs[k].content
  BY <1>8, <1>10
<1>17. /\ attached' = attached /\ attached \in Ids /\ planned' = planned
       /\ files'[artifacts[attached].file].data = Dataset
       /\ execution.known \subseteq Ids
  BY <1>2, <1>7, <1>12, <1>13
<1>18. execution'.node = execution.node \/ \A k \in DOMAIN outs : files'[outs[k].file] = outs[k].content
  BY <1>9, <1>15
<1>19. QED
  BY <1>6, <1>12, <1>13, <1>14, <1>15, <1>16, <1>17, <1>18

-----------------------------------------------------------------------------
(***************************************************************************)
(* A dynamic execution does what was planned for its dataset.              *)
(***************************************************************************)
PlanInv ==
    /\ execution.status = "idle" => execution.refused = FALSE
    /\ execution.status # "idle" /\ execution.origin = "dynamic" /\ execution.shifted = FALSE =>
          /\ execution.refused = FALSE /\ planned \in Recipes
          /\ planned = "procurement" => Dataset \in Ready
          /\ execution.node # 1 => files[Schema].recipe = planned

LEMMA SchemaStays ==
    ASSUME StoreInv, NEW outs, Attempted(outs), execution.node # 1
    PROVE  files'[Schema] = files[Schema]
<1>1. PICK n \in 0..Len(outs), half \in BOOLEAN :
         Wrote(outs, n, half, artifacts, files, artifacts', files')
  BY DEF Attempted
<1>2. OutputsOK(outs, artifacts, execution.node)
  BY DEF Attempted
<1>3. /\ "schema_profile" \in KindsOfRecords /\ StageOf("schema_profile") # execution.node
      /\ Schema \in FileNames /\ Schema[1] \in Heads("schema_profile")
  BY FilesAre DEF KindsOfRecords, StageOf, Heads, Schema
<1>4. QED
  BY <1>1, <1>2, <1>3, WritesKeepOthers

LEMMA AttemptKeepsPlan ==
    ASSUME StoreInv, PlanInv, NEW outs, Attempted(outs),
           execution.node = 1 => outs = ProfileOutputs
    PROVE  PlanInv'
<1>1. /\ attached' = attached /\ attached \in Ids /\ planned' = planned
      /\ files'[artifacts[attached].file].data = Dataset
      /\ \A i \in Ids : artifacts'[i] = artifacts[i]
      /\ execution'.shifted = execution.shifted /\ execution'.origin = execution.origin
      /\ execution'.refused = execution.refused /\ execution'.status # "idle"
      /\ execution'.node = execution.node \/ \A k \in DOMAIN outs : files'[outs[k].file] = outs[k].content
  BY KnownAfter
<1>2. Dataset' = Dataset
  BY <1>1 DEF Dataset, ContentOf
<1>3. execution.status # "idle" /\ execution.node \in 1..5 /\ execution'.node \in 1..5
  <2>1. execution' \in ExecutionRecord /\ execution \in ExecutionRecord
    BY AttemptKeepsStore DEF StoreInv
  <2>2. QED
    BY <2>1 DEF Attempted, ExecutionRecord
<1>4. ASSUME execution.origin = "dynamic", execution.shifted = FALSE, execution'.node # 1
      PROVE  files'[Schema].recipe = planned
  <2>1. planned \in Recipes /\ (execution.node # 1 => files[Schema].recipe = planned)
    BY <1>3, <1>4 DEF PlanInv
  <2>2. CASE execution.node # 1
    BY <2>1, <2>2, SchemaStays
  <2>3. CASE execution.node = 1
    <3>1. \A k \in DOMAIN outs : files'[outs[k].file] = outs[k].content
      BY <1>1, <1>4, <2>3
    <3>2. PICK out : out = Output("schema_profile", Schema, Of(Dataset, PlanForProfile), {attached})
      OBVIOUS
    <3>3. outs = <<out>>
      BY <2>3, <3>2 DEF ProfileOutputs, Schema
    <3>4. DOMAIN outs = {1} /\ outs[1] = out
      BY <3>3
    <3>5. out.file = Schema /\ out.content.recipe = PlanForProfile
      BY <3>2 DEF Output, Of
    <3>6. files'[Schema].recipe = PlanForProfile
      BY <3>1, <3>4, <3>5
    <3>7. planned # "none"
      BY <2>1 DEF Recipes
    <3>8. QED
      BY <3>6, <3>7 DEF PlanForProfile
  <2>4. QED
    BY <2>2, <2>3
<1>5. QED
  BY <1>1, <1>2, <1>3, <1>4 DEF PlanInv

LEMMA PlanNext ==
    ASSUME StoreInv, PlanInv, [PipelineNext]_pipelineVars
    PROVE  PlanInv'
<1>1. CASE UNCHANGED pipelineVars
  <2>1. UNCHANGED <<artifacts, files, attached, planned, execution>>
    BY <1>1 DEF pipelineVars
  <2>2. QED
    BY <2>1 DEF PlanInv, Dataset, ContentOf
<1>2. ASSUME NEW d \in Datasets, AttachDataset(d)
      PROVE  PlanInv'
  <2>1. execution'.shifted = TRUE /\ execution'.refused = execution.refused
        /\ execution'.status = execution.status
    BY <1>2, AttachIs
  <2>2. QED
    BY <2>1 DEF PlanInv
<1>3. CASE StartDynamic \/ StartProcurement
  <2>1. /\ UNCHANGED <<artifacts, files, attached>>
        /\ \/ StartDynamic /\ execution' = Begun("dynamic")
           \/ StartProcurement /\ execution' = Begun("procurement")
    BY <1>3, StartIs
  <2>2. Dataset' = Dataset
    BY <2>1 DEF Dataset, ContentOf
  <2>3. CASE execution' = Begun("procurement")
    <3>1. execution'.origin = "procurement" /\ execution'.status = "running"
      BY <2>3, BegunIs
    <3>2. QED
      BY <3>1 DEF PlanInv
  <2>4. CASE StartDynamic /\ execution' = Begun("dynamic")
    <3>1. execution'.node = 1 /\ execution'.refused = FALSE
      BY <2>4, BegunIs
    <3>2. PICK advice \in Advices : planned' = Advised(advice)
      BY <2>4 DEF StartDynamic
    <3>3. Deterministic \in Recipes /\ (Deterministic = "procurement" => Dataset \in Ready)
      BY DEF Deterministic, Recipes
    <3>4. planned' \in Recipes /\ (planned' = "procurement" => Dataset \in Ready)
      BY <3>2, <3>3 DEF Advised, Mapped, Recipes
    <3>5. QED
      BY <2>2, <3>1, <3>4 DEF PlanInv
  <2>5. QED
    BY <2>1, <2>3, <2>4
<1>4. CASE RetryFailedNode
  <2>1. /\ execution.status = "failed" /\ UNCHANGED <<intent, artifacts, files, attached, planned>>
        /\ execution'.status = "running" /\ execution'.node = execution.node
        /\ execution'.origin = execution.origin /\ execution'.shifted = execution.shifted
        /\ execution'.refused = execution.refused
    BY <1>4, RetryIs
  <2>2. Dataset' = Dataset
    BY <2>1 DEF Dataset, ContentOf
  <2>3. QED
    BY <2>1, <2>2 DEF PlanInv
<1>5. CASE ProfileDataset
  <2>1. CASE Refused /\ planned = "none"
    <3>1. /\ execution'.origin = execution.origin /\ execution'.shifted = execution.shifted
          /\ execution.status # "idle" /\ execution'.status # "idle"
      BY <2>1 DEF Refused
    <3>2. ~(execution.origin = "dynamic" /\ execution.shifted = FALSE)
      BY <2>1, <3>1 DEF PlanInv, Recipes
    <3>3. QED
      BY <3>1, <3>2 DEF PlanInv
  <2>2. CASE Attempted(ProfileOutputs)
    BY <2>2, AttemptKeepsPlan
  <2>3. QED
    BY <1>5, <2>1, <2>2, AgentsAct
<1>6. CASE Analyze
  <2>1. /\ execution.node = 2 /\ SchemaRecipe = files[Schema].recipe
        /\ \/ Refused /\ SchemaRecipe = "procurement" /\ Dataset \notin Ready
           \/ Attempted(AnalysisOutputs)
    BY <1>6, AgentsAct
  <2>2. CASE Refused /\ SchemaRecipe = "procurement" /\ Dataset \notin Ready
    <3>1. /\ execution'.origin = execution.origin /\ execution'.shifted = execution.shifted
          /\ execution.status # "idle" /\ execution'.status # "idle"
      BY <2>2 DEF Refused
    <3>2. ~(execution.origin = "dynamic" /\ execution.shifted = FALSE)
      BY <2>1, <2>2, <3>1 DEF PlanInv
    <3>3. QED
      BY <3>1, <3>2 DEF PlanInv
  <2>3. CASE Attempted(AnalysisOutputs)
    BY <2>1, <2>3, AttemptKeepsPlan
  <2>4. QED
    BY <2>1, <2>2, <2>3
<1>7. ASSUME NEW outs, Attempted(outs), execution.node \in 3..5
      PROVE  PlanInv'
  BY <1>7, AttemptKeepsPlan
<1>8. CASE Visualize \/ ComposeReport \/ EvaluateRun
  <2>1. CASE Visualize
    BY <1>7, <2>1, AgentsAct
  <2>2. CASE ComposeReport
    BY <1>7, <2>2, AgentsAct
  <2>3. CASE EvaluateRun
    BY <1>7, <2>3, AgentsAct
  <2>4. QED
    BY <1>8, <2>1, <2>2, <2>3
<1>9. QED
  BY <1>1, <1>2, <1>3, <1>4, <1>5, <1>6, <1>8 DEF PipelineNext

LEMMA PlanInit == PipelineInit => PlanInv
<1>1. SUFFICES ASSUME PipelineInit PROVE PlanInv
  OBVIOUS
<1>2. PICK x \in ExecutionRecord : x = Begun("dynamic") /\ x.refused = FALSE
  BY BegunIs
<1>3. execution = [x EXCEPT !.status = "idle"]
  BY <1>1, <1>2 DEF PipelineInit
<1>4. execution.refused = FALSE /\ execution.status = "idle"
  BY <1>2, <1>3 DEF ExecutionRecord
<1>5. QED
  BY <1>4 DEF PlanInv

\* No model's advice and no planner event of an earlier execution makes an agent of a dynamic
\* execution refuse its data, as long as no other data is attached meanwhile.
THEOREM PlansFit == PipelineSpec => []PlansFitData
<1>1. StoreInv /\ PlanInv => PlansFitData
  BY DEF StoreInv, ExecutionRecord, PlanInv, PlansFitData
<1>2. PipelineSpec => [](StoreInv /\ PlanInv)
  <2>1. PipelineInit => StoreInv /\ PlanInv
    BY StoreInit, PlanInit
  <2>2. StoreInv /\ PlanInv /\ [PipelineNext]_pipelineVars => (StoreInv /\ PlanInv)'
    BY StoreNext, PlanNext
  <2>3. QED
    BY <2>1, <2>2, PTL DEF PipelineSpec
<1>3. QED
  BY <1>1, <1>2, PTL

-----------------------------------------------------------------------------
(***************************************************************************)
(* What an execution knows of, and where it comes from.                    *)
(***************************************************************************)
\* One KPI table, which the charts and the dashboard show and the charts name as their source.
TableOK(arts, fs, known) ==
    \A i \in known, k \in known : arts[k].kind = "kpi_table" =>
        /\ arts[i].kind = "kpi_table" => i = k
        /\ arts[i].kind \in {"chart", "dashboard"} => fs[arts[i].file] = fs[arts[k].file]
        /\ arts[i].kind = "chart" => k \in arts[i].sources

\* Without another dataset, profile and table are of the run's dataset, and so is the rest
\* where there is but one table to be found.
SteadyOK(arts, fs, known, att, dataset) ==
    \A i \in known :
        /\ arts[i].kind \in {"schema_profile", "kpi_table"} => fs[arts[i].file].data = dataset
        /\ arts[i].kind = "kpi_table" => att \in arts[i].sources
        /\ arts[i].kind = "report" => fs[arts[i].file].profile = dataset
        /\ OneTable(arts) /\ arts[i].kind \in {"report", "evaluation"} => fs[arts[i].file].data = dataset

\* The last record that names an analysis leads to the dataset it was computed from,
\* unless the file was overwritten without one.
TornOK(arts, fs, torn) ==
    \A i \in DOMAIN arts :
        /\ arts[i].kind = "kpi_table" /\ arts[i].file \notin torn
        /\ \A k \in DOMAIN arts :
              arts[k].kind = "kpi_table" /\ arts[k].file = arts[i].file => k <= i
        => \E j \in arts[i].sources : arts[j].file = <<"dataset", fs[arts[i].file].data>>

\* A report leads to the datasets of its figures and of its profile.
ReportOK(arts, fs, known, torn) ==
    \A i \in known :
        arts[i].kind = "report" /\ <<"analysis", fs[arts[i].file].recipe>> \notin torn =>
            /\ \E j \in arts[i].sources : arts[j].file = <<"dataset", fs[arts[i].file].data>>
            /\ \E j \in arts[i].sources : arts[j].file = <<"dataset", fs[arts[i].file].profile>>

DataInv ==
    /\ TableOK(artifacts, files, execution.known)
    /\ TornOK(artifacts, files, history.torn)
    /\ execution.shifted = FALSE =>
          /\ SteadyOK(artifacts, files, execution.known, attached, files[artifacts[attached].file].data)
          /\ ReportOK(artifacts, files, execution.known, history.torn)

\* What is known stays so, and what is new shows the one table.
LEMMA TableKept ==
    ASSUME StoreInv, NEW outs, Attempted(outs), TableOK(artifacts, files, execution.known),
           \/ \A k \in DOMAIN outs : outs[k].kind \notin {"kpi_table", "chart", "dashboard"}
           \/ /\ \A k \in DOMAIN outs : outs[k].kind \in {"chart", "dashboard"}
              /\ \A i \in execution.known : artifacts[i].kind = "kpi_table" =>
                    \A k \in DOMAIN outs : /\ outs[k].content = files[artifacts[i].file]
                                           /\ i \in outs[k].sources
    PROVE  TableOK(artifacts', files', execution'.known)
<1>1. /\ \A i \in execution.known :
                 /\ artifacts'[i] = artifacts[i]
                 /\ files'[artifacts[i].file] = files[artifacts[i].file]
      /\ \A i \in execution'.known :
                 \/ i \in execution.known
                 \/ \E k \in DOMAIN outs :
                       /\ artifacts'[i].kind = outs[k].kind /\ artifacts'[i].file = outs[k].file
                       /\ artifacts'[i].sources = outs[k].sources
                       /\ files'[artifacts'[i].file] = outs[k].content
  BY KnownAfter
<1>2. SUFFICES ASSUME NEW i \in execution'.known, NEW k \in execution'.known,
                      artifacts'[k].kind = "kpi_table"
               PROVE  /\ artifacts'[i].kind = "kpi_table" => i = k
                      /\ artifacts'[i].kind \in {"chart", "dashboard"} =>
                            files'[artifacts'[i].file] = files'[artifacts'[k].file]
                      /\ artifacts'[i].kind = "chart" => k \in artifacts'[i].sources
  BY DEF TableOK
<1>3. \A j \in DOMAIN outs : outs[j].kind # "kpi_table"
  OBVIOUS
<1>4. /\ k \in execution.known /\ artifacts'[k] = artifacts[k]
      /\ files'[artifacts[k].file] = files[artifacts[k].file]
  BY <1>1, <1>2, <1>3
<1>5. CASE i \in execution.known
  BY <1>1, <1>2, <1>4, <1>5 DEF TableOK
<1>6. CASE i \notin execution.known
  <2>1. PICK j \in DOMAIN outs :
           /\ artifacts'[i].kind = outs[j].kind /\ artifacts'[i].file = outs[j].file
           /\ artifacts'[i].sources = outs[j].sources
           /\ files'[artifacts'[i].file] = outs[j].content
    BY <1>1, <1>6
  <2>2. QED
    BY <1>2, <1>3, <1>4, <2>1
<1>7. QED
  BY <1>5, <1>6

\* The table of an execution at its second node is its first one.
LEMMA FirstTable ==
    ASSUME StoreInv, Attempted(AnalysisOutputs), execution.node = 2
    PROVE  TableOK(artifacts', files', execution'.known)
<1>1. /\ \A i \in execution.known : artifacts'[i] = artifacts[i]
      /\ execution.known \subseteq Ids
  BY KnownAfter
<1>2. PICK n \in 0..Len(AnalysisOutputs), half \in BOOLEAN :
         /\ Wrote(AnalysisOutputs, n, half, artifacts, files, artifacts', files')
         /\ Ended(execution, execution', n, half, AnalysisOutputs, artifacts)
  BY DEF Attempted
<1>3. execution.status = "running"
  BY DEF Attempted
<1>4. \A i \in execution.known : artifacts[i].kind \notin {"kpi_table", "chart", "dashboard"}
  <2>1. \A i \in execution.known : StageOf(artifacts[i].kind) < 2
    BY <1>3, KnownKinds
  <2>2. QED
    BY <2>1 DEF StageOf
<1>5. Len(AnalysisOutputs) = 1 /\ AnalysisOutputs[1].kind = "kpi_table"
  BY DEF AnalysisOutputs, Output
<1>6. Len(artifacts) \in Nat
  BY DEF StoreInv, RecordsOK
<1>7. \A i \in execution'.known : i \in execution.known \/ (i = Len(artifacts) + 1 /\ n = 1)
  BY <1>2, <1>5, <1>6 DEF Ended
<1>8. n = 1 => artifacts'[Len(artifacts) + 1].kind = "kpi_table"
  <2>1. n = 1 => artifacts'[Len(artifacts) + 1]
                 = Record(AnalysisOutputs[1].kind, AnalysisOutputs[1].file, AnalysisOutputs[1].sources)
    BY <1>2 DEF Wrote
  <2>2. QED
    BY <1>5, <2>1 DEF Record
<1>9. \A i \in execution'.known :
         i # Len(artifacts) + 1 => artifacts'[i].kind \notin {"kpi_table", "chart", "dashboard"}
  BY <1>1, <1>4, <1>7
<1>10. \A i \in execution'.known : i = Len(artifacts) + 1 => artifacts'[i].kind = "kpi_table"
  <2>1. \A i \in execution.known : i # Len(artifacts) + 1
    BY <1>1, <1>6 DEF Ids, StoreInv, RecordsOK
  <2>2. QED
    BY <1>7, <1>8, <2>1
<1>11. QED
  BY <1>9, <1>10 DEF TableOK

\* What is known stays of the dataset it is of; what is new is looked at on its own.
LEMMA SteadyKept ==
    ASSUME StoreInv, NEW outs, Attempted(outs),
           SteadyOK(artifacts, files, execution.known, attached, Dataset),
           \A k \in DOMAIN outs :
              /\ outs[k].kind \in {"schema_profile", "kpi_table"} => outs[k].content.data = Dataset
              /\ outs[k].kind = "kpi_table" => attached \in outs[k].sources
              /\ outs[k].kind = "report" => outs[k].content.profile = Dataset
              /\ OneTable(artifacts) /\ outs[k].kind \in {"report", "evaluation"} =>
                    outs[k].content.data = Dataset
    PROVE  SteadyOK(artifacts', files', execution'.known, attached', Dataset)
<1>1. /\ \A i \in execution.known :
                 /\ artifacts'[i] = artifacts[i]
                 /\ files'[artifacts[i].file] = files[artifacts[i].file]
      /\ \A i \in execution'.known :
                 \/ i \in execution.known
                 \/ \E k \in DOMAIN outs :
                       /\ artifacts'[i].kind = outs[k].kind /\ artifacts'[i].file = outs[k].file
                       /\ artifacts'[i].sources = outs[k].sources
                       /\ files'[artifacts'[i].file] = outs[k].content
      /\ attached' = attached /\ (OneTable(artifacts') => OneTable(artifacts))
  BY KnownAfter
<1>2. SUFFICES ASSUME NEW i \in execution'.known
               PROVE  /\ artifacts'[i].kind \in {"schema_profile", "kpi_table"} =>
                            files'[artifacts'[i].file].data = Dataset
                      /\ artifacts'[i].kind = "kpi_table" => attached' \in artifacts'[i].sources
                      /\ artifacts'[i].kind = "report" => files'[artifacts'[i].file].profile = Dataset
                      /\ OneTable(artifacts') /\ artifacts'[i].kind \in {"report", "evaluation"} =>
                            files'[artifacts'[i].file].data = Dataset
  BY DEF SteadyOK
<1>3. CASE i \in execution.known
  BY <1>1, <1>3 DEF SteadyOK
<1>4. CASE i \notin execution.known
  <2>1. PICK k \in DOMAIN outs :
           /\ artifacts'[i].kind = outs[k].kind /\ artifacts'[i].file = outs[k].file
           /\ artifacts'[i].sources = outs[k].sources
           /\ files'[artifacts'[i].file] = outs[k].content
    BY <1>1, <1>4
  <2>2. QED
    BY <1>1, <2>1
<1>5. QED
  BY <1>3, <1>4

\* Of analyses only the analytics agent writes.
LEMMA AnalysesStay ==
    ASSUME StoreInv, NEW outs, Attempted(outs), execution.node # 2
    PROVE  /\ \A r : <<"analysis", r>> \in FileNames =>
                 /\ files'[<<"analysis", r>>] = files[<<"analysis", r>>]
                 /\ <<"analysis", r>> \in history'.torn <=> <<"analysis", r>> \in history.torn
           /\ \A i \in DOMAIN artifacts' : artifacts'[i].kind = "kpi_table" => i \in Ids
<1>1. PICK n \in 0..Len(outs), half \in BOOLEAN :
         /\ Wrote(outs, n, half, artifacts, files, artifacts', files')
         /\ history'.torn = TornFiles(outs, n, half)
  BY DEF Attempted
<1>2. OutputsOK(outs, artifacts, execution.node)
  BY DEF Attempted
<1>3. Len(outs) \in Nat /\ DOMAIN outs = 1..Len(outs) /\ n \in 0..Len(outs) /\ Len(artifacts) \in Nat
  BY <1>1, <1>2 DEF OutputsOK, StoreInv, RecordsOK
<1>4. "kpi_table" \in KindsOfRecords /\ StageOf("kpi_table") # execution.node /\ Heads("kpi_table") = {"analysis"}
  BY DEF KindsOfRecords, StageOf, Heads
<1>5. ASSUME NEW k \in DOMAIN outs
      PROVE  outs[k].kind # "kpi_table" /\ outs[k].file[1] # "analysis"
  <2>1. outs[k] \in OutputRecord
    BY <1>2 DEF OutputsOK
  <2>2. /\ outs[k].kind \in KindsOfRecords /\ outs[k].file[1] \in Heads(outs[k].kind)
        /\ outs[k].kind # "kpi_table"
    BY <1>2, <1>4, <2>1 DEF OutputsOK, OutputRecord
  <2>3. QED
    BY <1>4, <2>2, KindsApart
<1>6. ASSUME NEW r, <<"analysis", r>> \in FileNames
      PROVE  /\ files'[<<"analysis", r>>] = files[<<"analysis", r>>]
             /\ <<"analysis", r>> \in history'.torn <=> <<"analysis", r>> \in history.torn
  <2>1. PICK f \in FileNames : f = <<"analysis", r>> /\ f[1] \in Heads("kpi_table") /\ f[1] = "analysis"
    BY <1>4, <1>6
  <2>2. files'[f] = files[f]
    BY <1>1, <1>2, <1>4, <2>1, WritesKeepOthers
  <2>3. \A k \in 1..n : k \in DOMAIN outs
    BY <1>3
  <2>4. half => n + 1 \in DOMAIN outs
    BY <1>1, <1>3 DEF Wrote
  <2>5. f \in history'.torn <=> f \in history.torn
    BY <1>1, <1>5, <2>1, <2>3, <2>4 DEF TornFiles
  <2>6. QED
    BY <2>1, <2>2, <2>5
<1>7. ASSUME NEW i \in DOMAIN artifacts', artifacts'[i].kind = "kpi_table"
      PROVE  i \in Ids
  <2>1. Ids = 1..Len(artifacts)
    BY DEF Ids, StoreInv, RecordsOK
  <2>2. i \in 1..Len(artifacts')
    BY <1>1 DEF Wrote
  <2>3. \/ i \in 1..Len(artifacts)
        \/ i - Len(artifacts) \in DOMAIN outs /\ artifacts'[i].kind = outs[i - Len(artifacts)].kind
    BY <1>1, <1>2, <1>3, <2>2, NewRecords
  <2>4. QED
    BY <1>5, <1>7, <2>1, <2>3
<1>8. QED
  BY <1>6, <1>7

LEMMA TableFile ==
    ASSUME StoreInv, NEW i \in Ids, artifacts[i].kind = "kpi_table"
    PROVE  /\ artifacts[i].file = <<"analysis", files[artifacts[i].file].recipe>>
           /\ artifacts[i].file \in FileNames
<1>1. RecordsOK(artifacts, files) /\ FilesOK(files)
  BY DEF StoreInv
<1>2. PICK f \in FileNames : /\ f = artifacts[i].file /\ f[1] \in Heads("kpi_table")
                             /\ ContentOf(i) = files[f]
                             /\ f[1] \in ByRecipe => ContentOf(i).recipe = f[2]
  BY <1>1, ContentIs
<1>3. f[1] = "analysis" /\ f[1] \in ByRecipe
  BY <1>2 DEF Heads, ByRecipe
<1>4. f = <<f[1], f[2]>>
  BY FilesAre
<1>5. QED
  BY <1>2, <1>3, <1>4

LEMMA TornKept ==
    ASSUME StoreInv, NEW outs, Attempted(outs), execution.node # 2,
           TornOK(artifacts, files, history.torn)
    PROVE  TornOK(artifacts', files', history'.torn)
<1>1. /\ \A i \in Ids : i \in DOMAIN artifacts' /\ artifacts'[i] = artifacts[i]
  BY KnownAfter
<1>2. /\ \A r : <<"analysis", r>> \in FileNames =>
            /\ files'[<<"analysis", r>>] = files[<<"analysis", r>>]
            /\ <<"analysis", r>> \in history'.torn <=> <<"analysis", r>> \in history.torn
      /\ \A i \in DOMAIN artifacts' : artifacts'[i].kind = "kpi_table" => i \in Ids
  BY AnalysesStay
<1>3. SUFFICES ASSUME NEW i \in DOMAIN artifacts', artifacts'[i].kind = "kpi_table",
                      artifacts'[i].file \notin history'.torn,
                      \A k \in DOMAIN artifacts' :
                         artifacts'[k].kind = "kpi_table" /\ artifacts'[k].file = artifacts'[i].file
                         => k <= i
               PROVE  \E j \in artifacts'[i].sources :
                         artifacts'[j].file = <<"dataset", files'[artifacts'[i].file].data>>
  BY DEF TornOK
<1>4. i \in Ids /\ artifacts'[i] = artifacts[i]
  BY <1>1, <1>2, <1>3
<1>5. PICK f \in FileNames : f = artifacts[i].file /\ \E r : f = <<"analysis", r>>
  BY <1>3, <1>4, TableFile
<1>6. files'[f] = files[f] /\ (f \in history'.torn <=> f \in history.torn)
  BY <1>2, <1>5
<1>7. \A k \in Ids : artifacts[k].kind = "kpi_table" /\ artifacts[k].file = artifacts[i].file => k <= i
  BY <1>1, <1>3, <1>4
<1>8. PICK j \in artifacts[i].sources : artifacts[j].file = <<"dataset", files[f].data>>
  BY <1>3, <1>4, <1>5, <1>6, <1>7 DEF TornOK, Ids
<1>9. j \in Ids
  <2>1. artifacts[i].sources \subseteq 1..(i - 1) /\ Ids = 1..Len(artifacts) /\ Len(artifacts) \in Nat
    BY <1>4 DEF StoreInv, RecordsOK, Ids
  <2>2. QED
    BY <1>4, <2>1
<1>10. artifacts'[j] = artifacts[j]
  BY <1>1, <1>9
<1>11. QED
  BY <1>4, <1>5, <1>6, <1>8, <1>10

\* An analysis that is recorded has the run's dataset as its source; one that is not is torn.
LEMMA TornAnalysis ==
    ASSUME StoreInv, Attempted(AnalysisOutputs), execution.node = 2, SchemaRecipe \in Recipes,
           TornOK(artifacts, files, history.torn)
    PROVE  TornOK(artifacts', files', history'.torn)
<1>1. PICK n \in 0..Len(AnalysisOutputs), half \in BOOLEAN :
         /\ Wrote(AnalysisOutputs, n, half, artifacts, files, artifacts', files')
         /\ history'.torn = TornFiles(AnalysisOutputs, n, half)
  BY DEF Attempted
<1>2. /\ \A i \in Ids : i \in DOMAIN artifacts' /\ artifacts'[i] = artifacts[i]
      /\ attached' = attached /\ attached \in Ids /\ artifacts[attached].file = <<"dataset", Dataset>>
  BY KnownAfter
<1>3. PICK f \in FileNames : f = <<"analysis", SchemaRecipe>>
  BY FilesAre DEF ByRecipe
<1>4. PICK out : out = Output("kpi_table", f, Of(Dataset, SchemaRecipe), {attached})
  OBVIOUS
<1>5. AnalysisOutputs = <<out>>
  BY <1>3, <1>4 DEF AnalysisOutputs
<1>6. /\ Len(AnalysisOutputs) = 1 /\ AnalysisOutputs[1] = out
  BY <1>5
<1>7. /\ out.kind = "kpi_table" /\ out.file = f /\ out.sources = {attached}
      /\ out.content.data = Dataset
  BY <1>4 DEF Output, Of
<1>8. n \in {0, 1} /\ (half => n = 0)
  <2>1. n \in 0..1 /\ (half => n < 1)
    BY <1>1, <1>6 DEF Wrote
  <2>2. QED
    BY <2>1
<1>9. Len(artifacts) \in Nat /\ Ids = 1..Len(artifacts)
  BY DEF StoreInv, RecordsOK, Ids
<1>10. \A g \in FileNames : g # f => files'[g] = files[g]
  <2>1. ASSUME NEW g \in FileNames, g # f
        PROVE  \A i \in 1..(IF half THEN n + 1 ELSE n) : AnalysisOutputs[i].file # g
    <3>1. \A i \in 1..(IF half THEN n + 1 ELSE n) : i = 1
      BY <1>8
    <3>2. QED
      BY <1>6, <1>7, <2>1, <3>1
  <2>2. QED
    BY <1>1, <2>1 DEF Wrote
<1>11. \A g \in FileNames : g # f => (g \in history'.torn <=> g \in history.torn)
  <2>1. \A i \in 1..n : i = 1
    BY <1>8
  <2>2. half => n + 1 = 1
    BY <1>8
  <2>3. QED
    BY <1>1, <1>6, <1>7, <2>1, <2>2 DEF TornFiles
<1>12. half => f \in history'.torn
  <2>1. half => n + 1 = 1
    BY <1>8
  <2>2. QED
    BY <1>1, <1>6, <1>7, <2>1 DEF TornFiles
<1>13. n = 1 => /\ Len(artifacts) + 1 \in DOMAIN artifacts'
                /\ artifacts'[Len(artifacts) + 1].kind = "kpi_table"
                /\ artifacts'[Len(artifacts) + 1].file = f
                /\ artifacts'[Len(artifacts) + 1].sources = {attached}
                /\ files'[f].data = Dataset
  <2>1. SUFFICES ASSUME n = 1
                 PROVE  /\ Len(artifacts) + 1 \in DOMAIN artifacts'
                        /\ artifacts'[Len(artifacts) + 1].kind = "kpi_table"
                        /\ artifacts'[Len(artifacts) + 1].file = f
                        /\ artifacts'[Len(artifacts) + 1].sources = {attached}
                        /\ files'[f].data = Dataset
    OBVIOUS
  <2>2. Len(artifacts) + 1 \in DOMAIN artifacts'
    BY <1>1, <1>9, <2>1 DEF Wrote
  <2>3. 1 \in 1..n
    BY <2>1
  <2>4. artifacts'[Len(artifacts) + 1]
        = Record(AnalysisOutputs[1].kind, AnalysisOutputs[1].file, AnalysisOutputs[1].sources)
    BY <1>1, <2>3 DEF Wrote
  <2>5. /\ artifacts'[Len(artifacts) + 1].kind = "kpi_table"
        /\ artifacts'[Len(artifacts) + 1].file = f
        /\ artifacts'[Len(artifacts) + 1].sources = {attached}
    BY <1>6, <1>7, <2>4 DEF Record
  <2>6. half = FALSE
    BY <1>8, <2>1
  <2>7. 1..(IF half THEN n + 1 ELSE n) = {1}
    BY <2>1, <2>6
  <2>8. files'[f] = AnalysisOutputs[1].content
    BY <1>1, <1>6, <1>7, <2>7 DEF Wrote
  <2>9. QED
    BY <1>6, <1>7, <2>2, <2>5, <2>8
<1>14. \A i \in DOMAIN artifacts' : i \in Ids \/ (n = 1 /\ i = Len(artifacts) + 1)
  <2>1. DOMAIN artifacts' = 1..(Len(artifacts) + n)
    BY <1>1 DEF Wrote
  <2>2. QED
    BY <1>8, <1>9, <2>1
<1>15. n = 0 /\ half = FALSE => files'[f] = files[f] /\ (f \in history'.torn <=> f \in history.torn)
  <2>1. SUFFICES ASSUME n = 0, half = FALSE
                 PROVE  files'[f] = files[f] /\ (f \in history'.torn <=> f \in history.torn)
    OBVIOUS
  <2>2. 1..(IF half THEN n + 1 ELSE n) = {} /\ 1..n = {}
    BY <2>1
  <2>3. files'[f] = files[f]
    BY <1>1, <2>2 DEF Wrote
  <2>4. history'.torn = history.torn
    BY <1>1, <2>1, <2>2 DEF TornFiles
  <2>5. QED
    BY <2>3, <2>4
<1>16. SUFFICES ASSUME NEW i \in DOMAIN artifacts', artifacts'[i].kind = "kpi_table",
                       artifacts'[i].file \notin history'.torn,
                       \A k \in DOMAIN artifacts' :
                          artifacts'[k].kind = "kpi_table" /\ artifacts'[k].file = artifacts'[i].file
                          => k <= i
                PROVE  \E j \in artifacts'[i].sources :
                          artifacts'[j].file = <<"dataset", files'[artifacts'[i].file].data>>
  BY DEF TornOK
<1>17. CASE i \notin Ids
  <2>1. n = 1 /\ i = Len(artifacts) + 1
    BY <1>14, <1>16, <1>17
  <2>2. artifacts'[attached].file = <<"dataset", Dataset>>
    BY <1>2
  <2>3. QED
    BY <1>13, <2>1, <2>2
<1>18. CASE i \in Ids
  <2>1. artifacts'[i] = artifacts[i]
    BY <1>2, <1>18
  <2>2. artifacts[i].file \in FileNames
    BY <1>16, <1>18, <2>1, TableFile
  <2>3. artifacts[i].file = f => n = 0 /\ half = FALSE
    <3>1. SUFFICES ASSUME artifacts[i].file = f PROVE n = 0 /\ half = FALSE
      OBVIOUS
    <3>2. half = FALSE
      BY <1>12, <1>16, <2>1, <3>1
    <3>3. ~(n = 1)
      <4>1. n = 1 => Len(artifacts) + 1 <= i
        BY <1>13, <1>16, <2>1, <3>1
      <4>2. QED
        BY <1>9, <1>18, <4>1
    <3>4. QED
      BY <1>8, <3>2, <3>3
  <2>4. /\ files'[artifacts[i].file] = files[artifacts[i].file]
        /\ artifacts[i].file \notin history.torn
    BY <1>10, <1>11, <1>15, <1>16, <2>1, <2>2, <2>3
  <2>5. \A k \in Ids : artifacts[k].kind = "kpi_table" /\ artifacts[k].file = artifacts[i].file => k <= i
    BY <1>2, <1>16, <2>1
  <2>6. PICK j \in artifacts[i].sources : artifacts[j].file = <<"dataset", files[artifacts[i].file].data>>
    BY <1>16, <1>18, <2>1, <2>4, <2>5 DEF TornOK, Ids
  <2>7. j \in Ids
    <3>1. artifacts[i].sources \subseteq 1..(i - 1)
      BY <1>18 DEF StoreInv, RecordsOK, Ids
    <3>2. QED
      BY <1>9, <1>18, <3>1
  <2>8. artifacts'[j] = artifacts[j]
    BY <1>2, <2>7
  <2>9. QED
    BY <2>1, <2>4, <2>6, <2>8
<1>19. QED
  BY <1>17, <1>18

\* A report that is known stays as it is, and so do its sources.
LEMMA ReportKept ==
    ASSUME StoreInv, NEW outs, Attempted(outs),
           ReportOK(artifacts, files, execution.known, history.torn),
           \A k \in DOMAIN outs :
              outs[k].kind = "report" /\ <<"analysis", outs[k].content.recipe>> \notin history.torn =>
              /\ \E j \in outs[k].sources : j \in Ids /\ artifacts[j].file = <<"dataset", outs[k].content.data>>
              /\ \E j \in outs[k].sources : j \in Ids /\ artifacts[j].file = <<"dataset", outs[k].content.profile>>
    PROVE  ReportOK(artifacts', files', execution'.known, history'.torn)
<1>1. /\ \A i \in execution.known :
                 /\ artifacts'[i] = artifacts[i]
                 /\ files'[artifacts[i].file] = files[artifacts[i].file]
      /\ \A i \in execution'.known :
                 \/ i \in execution.known
                 \/ \E k \in DOMAIN outs :
                       /\ artifacts'[i].kind = outs[k].kind /\ artifacts'[i].file = outs[k].file
                       /\ artifacts'[i].sources = outs[k].sources
                       /\ files'[artifacts'[i].file] = outs[k].content
      /\ \A i \in Ids : artifacts'[i] = artifacts[i]
  BY KnownAfter
<1>2. SUFFICES ASSUME NEW i \in execution'.known, artifacts'[i].kind = "report",
                      <<"analysis", files'[artifacts'[i].file].recipe>> \notin history'.torn
               PROVE  /\ \E j \in artifacts'[i].sources :
                            artifacts'[j].file = <<"dataset", files'[artifacts'[i].file].data>>
                      /\ \E j \in artifacts'[i].sources :
                            artifacts'[j].file = <<"dataset", files'[artifacts'[i].file].profile>>
  BY DEF ReportOK
<1>3. execution.status = "running" /\ OutputsOK(outs, artifacts, execution.node)
  BY DEF Attempted
<1>4. /\ <<"analysis", files'[artifacts'[i].file].recipe>> \notin history.torn
  <2>1. execution.node # 2
    <3>1. CASE i \in execution.known
      <4>1. artifacts[i].kind = "report" /\ StageOf(artifacts[i].kind) < execution.node
        BY <1>1, <1>2, <1>3, <3>1, KnownKinds
      <4>2. QED
        BY <4>1 DEF StageOf
    <3>2. CASE i \notin execution.known
      <4>1. PICK k \in DOMAIN outs : outs[k].kind = "report"
        BY <1>1, <1>2, <3>2
      <4>2. StageOf("report") = execution.node
        BY <1>3, <4>1 DEF OutputsOK
      <4>3. QED
        BY <4>2 DEF StageOf
    <3>3. QED
      BY <3>1, <3>2
  <2>2. \A r : <<"analysis", r>> \in FileNames =>
           (<<"analysis", r>> \in history'.torn <=> <<"analysis", r>> \in history.torn)
    BY <2>1, AnalysesStay
  <2>3. history.torn \subseteq FileNames
    BY DEF StoreInv, HistoryRecord
  <2>4. QED
    BY <1>2, <2>2, <2>3
<1>5. CASE i \in execution.known
  <2>1. artifacts'[i] = artifacts[i] /\ files'[artifacts'[i].file] = files[artifacts[i].file] /\ i \in Ids
    BY <1>1, <1>5, KnownKinds
  <2>2. /\ \E j \in artifacts[i].sources : artifacts[j].file = <<"dataset", files[artifacts[i].file].data>>
        /\ \E j \in artifacts[i].sources : artifacts[j].file = <<"dataset", files[artifacts[i].file].profile>>
    BY <1>2, <1>4, <1>5, <2>1 DEF ReportOK
  <2>3. \A j \in artifacts[i].sources : j \in Ids
    <3>1. /\ artifacts[i].sources \subseteq 1..(i - 1) /\ Ids = 1..Len(artifacts)
          /\ Len(artifacts) \in Nat
      BY <2>1 DEF StoreInv, RecordsOK, Ids
    <3>2. QED
      BY <2>1, <3>1
  <2>4. QED
    BY <1>1, <2>1, <2>2, <2>3
<1>6. CASE i \notin execution.known
  <2>1. PICK k \in DOMAIN outs :
           /\ artifacts'[i].kind = outs[k].kind /\ artifacts'[i].sources = outs[k].sources
           /\ files'[artifacts'[i].file] = outs[k].content
    BY <1>1, <1>6
  <2>2. /\ \E j \in outs[k].sources : j \in Ids /\ artifacts[j].file = <<"dataset", outs[k].content.data>>
        /\ \E j \in outs[k].sources : j \in Ids /\ artifacts[j].file = <<"dataset", outs[k].content.profile>>
    BY <1>2, <1>4, <2>1
  <2>3. QED
    BY <1>1, <2>1, <2>2
<1>7. QED
  BY <1>5, <1>6

\* The figures that the report agent takes are of the run's dataset, if there is one table;
\* if not, its sources still lead to the dataset they are of.
LEMMA CandidateData ==
    ASSUME StoreInv, execution.status = "running", execution.node \in {4, 5},
           TableOK(artifacts, files, execution.known), TornOK(artifacts, files, history.torn),
           SteadyOK(artifacts, files, execution.known, attached, Dataset),
           NEW l, l = LastCandidate("kpi_table")
    PROVE  /\ OneTable(artifacts) => ContentOf(l).data = Dataset
           /\ <<"analysis", ContentOf(l).recipe>> \notin history.torn =>
                 \/ ContentOf(l).data = Dataset
                 \/ \E j \in artifacts[l].sources :
                       j \in Ids /\ artifacts[j].file = <<"dataset", ContentOf(l).data>>
<1>1. /\ \E i \in execution.known : artifacts[i].kind = "kpi_table"
      /\ \E i \in Ids : artifacts[i].kind = "kpi_table"
      /\ execution.known \subseteq Ids /\ artifacts \in Seq(ArtifactRecord)
  <2>1. StageOf("kpi_table") < execution.node
    BY DEF StageOf
  <2>2. QED
    BY <2>1, Behind
<1>2. PICK t \in execution.known : artifacts[t].kind = "kpi_table" /\ t \in Ids
  BY <1>1
<1>3. files[artifacts[t].file].data = Dataset
  BY <1>2 DEF SteadyOK
<1>4. /\ l \in Ids /\ artifacts[l].kind = "kpi_table"
      /\ l \in execution.known
         \/ \A i \in Ids \ execution.known : artifacts[i].kind = "kpi_table" => i <= l
  BY <1>1, CandidateIs
<1>5. ContentOf(l) = files[artifacts[l].file]
  BY DEF ContentOf
<1>6. OneTable(artifacts) => artifacts[l].file = artifacts[t].file
  BY <1>2, <1>4 DEF OneTable, Ids
<1>7. l \in execution.known => l = t
  BY <1>2, <1>4 DEF TableOK
<1>8. ASSUME <<"analysis", ContentOf(l).recipe>> \notin history.torn,
             artifacts[l].file # artifacts[t].file
      PROVE  \E j \in artifacts[l].sources :
                j \in Ids /\ artifacts[j].file = <<"dataset", ContentOf(l).data>>
  <2>1. artifacts[l].file = <<"analysis", ContentOf(l).recipe>>
    BY <1>4, <1>5, TableFile
  <2>2. artifacts[l].file \notin history.torn
    BY <1>8, <2>1
  <2>3. l \notin execution.known
    BY <1>7, <1>8
  <2>4. ASSUME NEW k \in Ids, artifacts[k].kind = "kpi_table", artifacts[k].file = artifacts[l].file
        PROVE  k <= l
    <3>1. k \notin execution.known
      BY <1>2, <1>8, <2>4 DEF TableOK
    <3>2. QED
      BY <1>4, <2>3, <2>4, <3>1
  <2>5. PICK j \in artifacts[l].sources : artifacts[j].file = <<"dataset", files[artifacts[l].file].data>>
    BY <1>4, <2>2, <2>4 DEF TornOK, Ids
  <2>6. j \in Ids
    <3>1. /\ artifacts[l].sources \subseteq 1..(l - 1) /\ Ids = 1..Len(artifacts)
          /\ Len(artifacts) \in Nat
      BY <1>4 DEF StoreInv, RecordsOK, Ids
    <3>2. QED
      BY <1>4, <3>1
  <2>7. QED
    BY <1>5, <2>5, <2>6
<1>9. artifacts[l].file = artifacts[t].file => ContentOf(l).data = Dataset
  BY <1>3, <1>5
<1>10. QED
  BY <1>6, <1>8, <1>9

\* Whatever schema profile the report agent takes, it is the one file of schema profiles.
LEMMA CandidateProfile ==
    ASSUME StoreInv, execution.status = "running", execution.node = 4,
           SteadyOK(artifacts, files, execution.known, attached, Dataset)
    PROVE  ContentOf(LastCandidate("schema_profile")).data = Dataset
<1>1. /\ \E i \in execution.known : artifacts[i].kind = "schema_profile"
      /\ \E i \in Ids : artifacts[i].kind = "schema_profile"
      /\ execution.known \subseteq Ids /\ artifacts \in Seq(ArtifactRecord)
  <2>1. StageOf("schema_profile") < execution.node
    BY DEF StageOf
  <2>2. QED
    BY <2>1, Behind
<1>2. PICK t \in execution.known : artifacts[t].kind = "schema_profile" /\ t \in Ids
  BY <1>1
<1>3. PICK s \in Ids : s = LastCandidate("schema_profile") /\ artifacts[s].kind = "schema_profile"
  BY <1>1, CandidateIs
<1>4. \A i \in Ids : artifacts[i].kind = "schema_profile" => artifacts[i].file = Schema
  <2>1. ASSUME NEW i \in Ids, artifacts[i].kind = "schema_profile"
        PROVE  artifacts[i].file = Schema
    <3>1. RecordsOK(artifacts, files) /\ FilesOK(files)
      BY DEF StoreInv
    <3>2. artifacts[i].file \in FileNames /\ artifacts[i].file[1] \in Heads("schema_profile")
      BY <2>1, <3>1, ContentIs
    <3>3. QED
      BY <3>2, FilesAre DEF Heads
  <2>2. QED
    BY <2>1
<1>5. files[artifacts[t].file].data = Dataset
  BY <1>2 DEF SteadyOK
<1>6. QED
  BY <1>2, <1>3, <1>4, <1>5 DEF ContentOf

\* By way of the charts of its own execution, a report leads to the run's dataset.
LEMMA ReportLeadsToDataset ==
    ASSUME StoreInv, execution.status = "running", execution.node = 4,
           TableOK(artifacts, files, execution.known),
           SteadyOK(artifacts, files, execution.known, attached, Dataset)
    PROVE  attached \in ReportSources
<1>1. /\ \E i \in execution.known : artifacts[i].kind = "kpi_table"
      /\ execution.known \subseteq Ids
  <2>1. StageOf("kpi_table") < execution.node
    BY DEF StageOf
  <2>2. QED
    BY <2>1, Behind
<1>2. \E i \in execution.known : artifacts[i].kind = "chart"
  <2>1. StageOf("chart") < execution.node
    BY DEF StageOf
  <2>2. QED
    BY <2>1, Behind
<1>3. PICK t \in execution.known : artifacts[t].kind = "kpi_table" /\ t \in Ids
  BY <1>1
<1>4. PICK c \in execution.known : artifacts[c].kind = "chart" /\ c \in Ids
  BY <1>1, <1>2
<1>5. t \in artifacts[c].sources
  BY <1>3, <1>4 DEF TableOK
<1>6. attached \in artifacts[t].sources
  BY <1>3 DEF SteadyOK
<1>7. RecordsOK(artifacts, files)
  BY DEF StoreInv
<1>8. artifacts[t].sources \subseteq Upstream[t] /\ Upstream[t] \subseteq Upstream[c]
  BY <1>3, <1>4, <1>5, <1>7, UpstreamIs
<1>9. Upstream[c] \subseteq ReportSources
  BY <1>4, ReportSourcesAre
<1>10. QED
  BY <1>6, <1>8, <1>9

LEMMA AttachKeepsData ==
    ASSUME StoreInv, DataInv, NEW d \in Datasets, AttachDataset(d)
    PROVE  DataInv'
<1>1. /\ Len(artifacts) \in Nat /\ DOMAIN artifacts = 1..Len(artifacts)
      /\ DOMAIN artifacts' = 1..(Len(artifacts) + 1) /\ attached' = Len(artifacts) + 1
      /\ \A i \in 1..Len(artifacts) : artifacts'[i] = artifacts[i]
      /\ artifacts'[attached'].kind = "dataset"
  BY AttachIs
<1>2. /\ \A f \in FileNames : f # <<"dataset", d>> => files'[f] = files[f]
      /\ execution'.shifted = TRUE /\ execution'.known = execution.known
      /\ history' = history
  BY AttachIs
<1>3. ASSUME NEW i \in Ids, artifacts[i].kind # "dataset"
      PROVE  artifacts'[i] = artifacts[i] /\ files'[artifacts[i].file] = files[artifacts[i].file]
  <2>1. RecordsOK(artifacts, files) /\ FilesOK(files)
    BY DEF StoreInv
  <2>2. PICK f \in FileNames : /\ f = artifacts[i].file /\ artifacts[i].kind \in KindsOfRecords
                               /\ f[1] \in Heads(artifacts[i].kind)
    BY <2>1, ContentIs
  <2>3. "dataset" \in KindsOfRecords /\ Heads("dataset") = {"dataset"}
    BY DEF KindsOfRecords, Heads
  <2>4. f[1] # "dataset"
    BY <1>3, <2>2, <2>3, KindsApart
  <2>5. QED
    BY <1>1, <1>2, <2>2, <2>4 DEF Ids
<1>4. TableOK(artifacts', files', execution'.known)
  <2>1. \A i \in execution.known : artifacts'[i] = artifacts[i] /\ files'[artifacts[i].file] = files[artifacts[i].file]
    BY <1>3, KnownKinds
  <2>2. QED
    BY <1>2, <2>1 DEF DataInv, TableOK
<1>5. TornOK(artifacts', files', history'.torn)
  <2>1. SUFFICES ASSUME NEW i \in DOMAIN artifacts', artifacts'[i].kind = "kpi_table",
                        artifacts'[i].file \notin history'.torn,
                        \A k \in DOMAIN artifacts' :
                           artifacts'[k].kind = "kpi_table" /\ artifacts'[k].file = artifacts'[i].file
                           => k <= i
                 PROVE  \E j \in artifacts'[i].sources :
                           artifacts'[j].file = <<"dataset", files'[artifacts'[i].file].data>>
    BY DEF TornOK
  <2>2. i \in Ids
    BY <1>1, <2>1 DEF Ids
  <2>3. artifacts'[i] = artifacts[i] /\ files'[artifacts[i].file] = files[artifacts[i].file]
    <3>1. artifacts[i].kind = "kpi_table"
      BY <1>1, <2>1, <2>2 DEF Ids
    <3>2. QED
      BY <1>3, <2>2, <3>1
  <2>4. \A k \in DOMAIN artifacts :
           artifacts[k].kind = "kpi_table" /\ artifacts[k].file = artifacts[i].file => k <= i
    BY <1>1, <2>1, <2>3
  <2>5. PICK j \in artifacts[i].sources : artifacts[j].file = <<"dataset", files[artifacts[i].file].data>>
    BY <1>2, <2>1, <2>2, <2>3, <2>4 DEF DataInv, TornOK, Ids
  <2>6. j \in Ids
    <3>1. artifacts[i].sources \subseteq 1..(i - 1)
      BY <2>2 DEF StoreInv, RecordsOK, Ids
    <3>2. QED
      BY <1>1, <2>2, <3>1 DEF Ids
  <2>7. artifacts'[j] = artifacts[j]
    BY <1>1, <2>6 DEF Ids
  <2>8. QED
    BY <2>3, <2>5, <2>7
<1>6. QED
  BY <1>2, <1>4, <1>5 DEF DataInv

LEMMA DatasetIsFile == ASSUME StoreInv PROVE files[artifacts[attached].file].data = Dataset
BY DEF Dataset, ContentOf

\* An attempt keeps the rest, where it keeps the table, the torn files, and what is new is fit.
LEMMA AttemptKeepsData ==
    ASSUME StoreInv, DataInv, NEW outs, Attempted(outs),
           TableOK(artifacts', files', execution'.known),
           TornOK(artifacts', files', history'.torn),
           execution.shifted = FALSE => \A k \in DOMAIN outs :
              /\ outs[k].kind \in {"schema_profile", "kpi_table"} => outs[k].content.data = Dataset
              /\ outs[k].kind = "kpi_table" => attached \in outs[k].sources
              /\ outs[k].kind = "report" => outs[k].content.profile = Dataset
              /\ OneTable(artifacts) /\ outs[k].kind \in {"report", "evaluation"} =>
                    outs[k].content.data = Dataset
              /\ outs[k].kind = "report" /\ <<"analysis", outs[k].content.recipe>> \notin history.torn =>
                 /\ \E j \in outs[k].sources :
                       j \in Ids /\ artifacts[j].file = <<"dataset", outs[k].content.data>>
                 /\ \E j \in outs[k].sources :
                       j \in Ids /\ artifacts[j].file = <<"dataset", outs[k].content.profile>>
    PROVE  DataInv'
<1>1. /\ execution'.shifted = execution.shifted /\ attached' = attached /\ attached \in Ids
      /\ artifacts'[attached] = artifacts[attached]
      /\ files'[artifacts[attached].file].data = Dataset
  BY KnownAfter
<1>2. files'[artifacts'[attached'].file].data = Dataset
  BY <1>1
<1>3. ASSUME execution.shifted = FALSE
      PROVE  /\ SteadyOK(artifacts', files', execution'.known, attached', Dataset)
             /\ ReportOK(artifacts', files', execution'.known, history'.torn)
  <2>1. /\ SteadyOK(artifacts, files, execution.known, attached, Dataset)
        /\ ReportOK(artifacts, files, execution.known, history.torn)
    BY <1>3, DatasetIsFile DEF DataInv
  <2>2. SteadyOK(artifacts', files', execution'.known, attached', Dataset)
    BY <1>3, <2>1, SteadyKept
  <2>3. ReportOK(artifacts', files', execution'.known, history'.torn)
    BY <1>3, <2>1, ReportKept
  <2>4. QED
    BY <2>2, <2>3
<1>4. QED
  BY <1>1, <1>2, <1>3 DEF DataInv

LEMMA ProfileKeepsData ==
    ASSUME StoreInv, DataInv, Attempted(ProfileOutputs), execution.node = 1
    PROVE  DataInv'
<1>1. PICK out : out = Output("schema_profile", <<"schema_profile", "any">>, Of(Dataset, PlanForProfile), {attached})
  OBVIOUS
<1>2. PICK outs : outs = ProfileOutputs
  OBVIOUS
<1>3. outs = <<out>>
  BY <1>1, <1>2 DEF ProfileOutputs
<1>4. DOMAIN outs = {1} /\ outs[1] = out
  BY <1>3
<1>5. out.kind = "schema_profile" /\ out.content.data = Dataset
  BY <1>1 DEF Output, Of
<1>6. Attempted(outs)
  BY <1>2
<1>7. \A k \in DOMAIN outs : outs[k].kind = "schema_profile" /\ outs[k].content.data = Dataset
  BY <1>4, <1>5
<1>8. TableOK(artifacts', files', execution'.known)
  BY <1>6, <1>7, TableKept DEF DataInv
<1>9. TornOK(artifacts', files', history'.torn)
  BY <1>6, TornKept DEF DataInv
<1>10. QED
  BY <1>6, <1>7, <1>8, <1>9, AttemptKeepsData

LEMMA AnalyzeKeepsData ==
    ASSUME StoreInv, DataInv, Attempted(AnalysisOutputs), execution.node = 2, SchemaRecipe \in Recipes
    PROVE  DataInv'
<1>1. PICK out : out = Output("kpi_table", <<"analysis", SchemaRecipe>>, Of(Dataset, SchemaRecipe), {attached})
  OBVIOUS
<1>2. PICK outs : outs = AnalysisOutputs
  OBVIOUS
<1>3. outs = <<out>>
  BY <1>1, <1>2 DEF AnalysisOutputs
<1>4. DOMAIN outs = {1} /\ outs[1] = out
  BY <1>3
<1>5. out.kind = "kpi_table" /\ out.content.data = Dataset /\ attached \in out.sources
  BY <1>1 DEF Output, Of
<1>6. Attempted(outs)
  BY <1>2
<1>7. \A k \in DOMAIN outs : /\ outs[k].kind = "kpi_table" /\ outs[k].content.data = Dataset
                             /\ attached \in outs[k].sources
  BY <1>4, <1>5
<1>8. TableOK(artifacts', files', execution'.known)
  BY FirstTable
<1>9. TornOK(artifacts', files', history'.torn)
  BY TornAnalysis DEF DataInv
<1>10. QED
  BY <1>6, <1>7, <1>8, <1>9, AttemptKeepsData

LEMMA VisualizeKeepsData ==
    ASSUME StoreInv, DataInv, Visualize
    PROVE  DataInv'
<1>1. /\ KpiForCharts \in execution.known /\ artifacts[KpiForCharts].kind = "kpi_table"
      /\ execution.node = 3
  BY VisualizeActs
<1>2. PICK t \in execution.known : t = KpiForCharts /\ artifacts[t].kind = "kpi_table"
  BY <1>1
<1>3. PICK content : content = ContentOf(t) /\ content = files[artifacts[t].file]
  BY DEF ContentOf
<1>4. PICK outs : outs = ChartOutputs(t, content, Len(artifacts))
  OBVIOUS
<1>5. Attempted(outs)
  BY <1>2, <1>3, <1>4, AgentsAct
<1>6. PICK o1 : o1 = Output("chart", <<"first_chart", content.recipe>>, content, {t})
  OBVIOUS
<1>7. PICK o2 : o2 = Output("chart", <<"other_charts", content.recipe>>, content, {t})
  OBVIOUS
<1>8. PICK o3 : o3 = Output("dashboard", <<"dashboard", content.recipe>>, content,
                            {t, Len(artifacts) + 1, Len(artifacts) + 2})
  OBVIOUS
<1>9. outs = <<o1, o2, o3>>
  BY <1>4, <1>6, <1>7, <1>8 DEF ChartOutputs
<1>10. /\ o1.kind = "chart" /\ o1.content = content /\ t \in o1.sources
       /\ o2.kind = "chart" /\ o2.content = content /\ t \in o2.sources
       /\ o3.kind = "dashboard" /\ o3.content = content /\ t \in o3.sources
  BY <1>6, <1>7, <1>8 DEF Output
<1>11. DOMAIN outs = {1, 2, 3} /\ outs[1] = o1 /\ outs[2] = o2 /\ outs[3] = o3
  BY <1>9
<1>12. \A k \in DOMAIN outs : /\ outs[k].kind \in {"chart", "dashboard"}
                              /\ outs[k].content = content /\ t \in outs[k].sources
  BY <1>10, <1>11
<1>13. TableOK(artifacts, files, execution.known)
  BY DEF DataInv
<1>14. \A i \in execution.known : artifacts[i].kind = "kpi_table" => i = t
  BY <1>2, <1>13 DEF TableOK
<1>15. \A i \in execution.known : artifacts[i].kind = "kpi_table" =>
          \A k \in DOMAIN outs : outs[k].content = files[artifacts[i].file] /\ i \in outs[k].sources
  BY <1>3, <1>12, <1>14
<1>16. TableOK(artifacts', files', execution'.known)
  BY <1>5, <1>12, <1>13, <1>15, TableKept
<1>17. TornOK(artifacts', files', history'.torn)
  BY <1>1, <1>5, TornKept DEF DataInv
<1>18. QED
  BY <1>5, <1>12, <1>16, <1>17, AttemptKeepsData

LEMMA ReportKeepsData ==
    ASSUME StoreInv, DataInv, ComposeReport
    PROVE  DataInv'
<1>1. /\ execution.status = "running" /\ execution.node = 4
      /\ LastCandidate("kpi_table") \in Ids /\ LastCandidate("schema_profile") \in Ids
      /\ ReportContent.data = ContentOf(LastCandidate("kpi_table")).data
      /\ ReportContent.recipe = ContentOf(LastCandidate("kpi_table")).recipe
      /\ ReportContent.profile = ContentOf(LastCandidate("schema_profile")).data
  BY ReportActs
<1>2. PICK l \in Ids : l = LastCandidate("kpi_table")
  BY <1>1
<1>3. PICK content : content = ReportContent
  OBVIOUS
<1>4. /\ content.data = ContentOf(l).data /\ content.recipe = ContentOf(l).recipe
      /\ content.profile = ContentOf(LastCandidate("schema_profile")).data
  BY <1>1, <1>2, <1>3
<1>5. PICK out : out = Output("report", <<"report", ContentOf(l).recipe>>, content, ReportSources)
  OBVIOUS
<1>6. PICK outs : outs = ReportOutputs
  OBVIOUS
<1>7. outs = <<out>>
  BY <1>2, <1>3, <1>5, <1>6 DEF ReportOutputs
<1>8. DOMAIN outs = {1} /\ outs[1] = out
  BY <1>7
<1>9. out.kind = "report" /\ out.content = content /\ out.sources = ReportSources
  BY <1>5 DEF Output
<1>10. Attempted(outs)
  BY <1>6, AgentsAct
<1>11. \A k \in DOMAIN outs : /\ outs[k].kind = "report" /\ outs[k].content = content
                              /\ outs[k].sources = ReportSources
  BY <1>8, <1>9
<1>12. TableOK(artifacts, files, execution.known) /\ TornOK(artifacts, files, history.torn)
  BY DEF DataInv
<1>13. TableOK(artifacts', files', execution'.known)
  BY <1>10, <1>11, <1>12, TableKept
<1>14. TornOK(artifacts', files', history'.torn)
  BY <1>1, <1>10, <1>12, TornKept
<1>15. ASSUME execution.shifted = FALSE
       PROVE  /\ content.profile = Dataset
              /\ OneTable(artifacts) => content.data = Dataset
              /\ <<"analysis", content.recipe>> \notin history.torn =>
                 /\ \E j \in ReportSources : j \in Ids /\ artifacts[j].file = <<"dataset", content.data>>
                 /\ \E j \in ReportSources : j \in Ids /\ artifacts[j].file = <<"dataset", content.profile>>
  <2>1. SteadyOK(artifacts, files, execution.known, attached, Dataset)
    BY <1>15, DatasetIsFile DEF DataInv
  <2>2. content.profile = Dataset
    BY <1>1, <1>4, <2>1, CandidateProfile
  <2>3. /\ OneTable(artifacts) => content.data = Dataset
        /\ <<"analysis", content.recipe>> \notin history.torn =>
              \/ content.data = Dataset
              \/ \E j \in artifacts[l].sources :
                    j \in Ids /\ artifacts[j].file = <<"dataset", content.data>>
    <3>1. /\ OneTable(artifacts) => ContentOf(l).data = Dataset
          /\ <<"analysis", ContentOf(l).recipe>> \notin history.torn =>
                \/ ContentOf(l).data = Dataset
                \/ \E j \in artifacts[l].sources :
                      j \in Ids /\ artifacts[j].file = <<"dataset", ContentOf(l).data>>
      BY <1>1, <1>2, <1>12, <2>1, CandidateData
    <3>2. QED
      BY <1>4, <3>1
  <2>4. attached \in ReportSources
    BY <1>1, <1>12, <2>1, ReportLeadsToDataset
  <2>5. attached \in Ids /\ artifacts[attached].file = <<"dataset", Dataset>>
    BY <1>10, KnownAfter
  <2>6. artifacts[l].sources \subseteq ReportSources
    <3>1. RecordsOK(artifacts, files)
      BY DEF StoreInv
    <3>2. artifacts[l].sources \subseteq Upstream[l]
      BY <3>1, UpstreamIs
    <3>3. Upstream[LastCandidate("kpi_table")] \subseteq ReportSources
      BY <1>1, ReportSourcesAre
    <3>4. QED
      BY <1>2, <3>2, <3>3
  <2>7. QED
    BY <2>2, <2>3, <2>4, <2>5, <2>6
<1>16. execution.shifted = FALSE => \A k \in DOMAIN outs :
              /\ outs[k].kind \in {"schema_profile", "kpi_table"} => outs[k].content.data = Dataset
              /\ outs[k].kind = "kpi_table" => attached \in outs[k].sources
              /\ outs[k].kind = "report" => outs[k].content.profile = Dataset
              /\ OneTable(artifacts) /\ outs[k].kind \in {"report", "evaluation"} =>
                    outs[k].content.data = Dataset
              /\ outs[k].kind = "report" /\ <<"analysis", outs[k].content.recipe>> \notin history.torn =>
                 /\ \E j \in outs[k].sources :
                       j \in Ids /\ artifacts[j].file = <<"dataset", outs[k].content.data>>
                 /\ \E j \in outs[k].sources :
                       j \in Ids /\ artifacts[j].file = <<"dataset", outs[k].content.profile>>
  BY <1>11, <1>15
<1>17. QED
  BY <1>10, <1>13, <1>14, <1>16, AttemptKeepsData

LEMMA EvaluateKeepsData ==
    ASSUME StoreInv, DataInv, EvaluateRun
    PROVE  DataInv'
<1>1. execution.status = "running" /\ execution.node = 5 /\ LastCandidate("kpi_table") \in Ids
  BY EvaluateActs
<1>2. PICK l \in Ids : l = LastCandidate("kpi_table")
  BY <1>1
<1>3. PICK content : content = ContentOf(l)
  OBVIOUS
<1>4. PICK out : out = Output("evaluation", <<"evaluation_result", "any">>, content, Ids)
  OBVIOUS
<1>5. PICK outs : outs = EvaluationOutputs
  OBVIOUS
<1>6. outs = <<out>>
  BY <1>2, <1>3, <1>4, <1>5 DEF EvaluationOutputs
<1>7. DOMAIN outs = {1} /\ outs[1] = out
  BY <1>6
<1>8. out.kind = "evaluation" /\ out.content = content
  BY <1>4 DEF Output
<1>9. Attempted(outs)
  BY <1>5, AgentsAct
<1>10. \A k \in DOMAIN outs : outs[k].kind = "evaluation" /\ outs[k].content = content
  BY <1>7, <1>8
<1>11. TableOK(artifacts, files, execution.known) /\ TornOK(artifacts, files, history.torn)
  BY DEF DataInv
<1>12. TableOK(artifacts', files', execution'.known)
  BY <1>9, <1>10, <1>11, TableKept
<1>13. TornOK(artifacts', files', history'.torn)
  BY <1>1, <1>9, <1>11, TornKept
<1>14. ASSUME execution.shifted = FALSE, OneTable(artifacts)
       PROVE  content.data = Dataset
  <2>1. SteadyOK(artifacts, files, execution.known, attached, Dataset)
    BY <1>14, DatasetIsFile DEF DataInv
  <2>2. OneTable(artifacts) => ContentOf(l).data = Dataset
    BY <1>1, <1>2, <1>11, <2>1, CandidateData
  <2>3. QED
    BY <1>3, <1>14, <2>2
<1>15. QED
  BY <1>9, <1>10, <1>12, <1>13, <1>14, AttemptKeepsData

LEMMA DataNext ==
    ASSUME StoreInv, DataInv, [PipelineNext]_pipelineVars
    PROVE  DataInv'
<1>1. CASE UNCHANGED pipelineVars
  <2>1. UNCHANGED <<artifacts, files, attached, execution, history>>
    BY <1>1 DEF pipelineVars
  <2>2. QED
    BY <2>1 DEF DataInv
<1>2. ASSUME NEW d \in Datasets, AttachDataset(d)
      PROVE  DataInv'
  BY <1>2, AttachKeepsData
<1>3. CASE StartDynamic \/ StartProcurement
  <2>1. /\ UNCHANGED <<artifacts, files, attached>> /\ history'.torn = history.torn
        /\ execution' = Begun("dynamic") \/ execution' = Begun("procurement")
    BY <1>3, StartIs
  <2>2. execution'.known = {}
    BY <2>1, BegunIs
  <2>3. QED
    BY <2>1, <2>2 DEF DataInv, TableOK, SteadyOK, ReportOK
<1>4. CASE RetryFailedNode
  <2>1. /\ UNCHANGED <<artifacts, files, attached>> /\ history'.torn = history.torn
        /\ execution'.known = execution.known /\ execution'.shifted = execution.shifted
    BY <1>4, RetryIs
  <2>2. QED
    BY <2>1 DEF DataInv
<1>5. ASSUME Refused
      PROVE  DataInv'
  <2>1. /\ UNCHANGED <<artifacts, files, attached, history>>
        /\ execution'.known = execution.known /\ execution'.shifted = execution.shifted
    BY <1>5 DEF Refused
  <2>2. QED
    BY <2>1 DEF DataInv
<1>6. CASE ProfileDataset
  BY <1>5, <1>6, AgentsAct, ProfileKeepsData
<1>7. CASE Analyze
  BY <1>5, <1>7, AgentsAct, AnalyzeKeepsData
<1>8. CASE Visualize \/ ComposeReport \/ EvaluateRun
  BY <1>8, VisualizeKeepsData, ReportKeepsData, EvaluateKeepsData
<1>9. QED
  BY <1>1, <1>2, <1>3, <1>4, <1>6, <1>7, <1>8 DEF PipelineNext

LEMMA DataInit == PipelineInit => DataInv
<1>1. SUFFICES ASSUME PipelineInit PROVE DataInv
  OBVIOUS
<1>2. PICK x \in ExecutionRecord : x = Begun("dynamic") /\ x.known = {}
  BY BegunIs
<1>3. execution = [x EXCEPT !.status = "idle"] /\ artifacts = <<>>
  BY <1>1, <1>2 DEF PipelineInit
<1>4. execution.known = {} /\ DOMAIN artifacts = {}
  BY <1>2, <1>3 DEF ExecutionRecord
<1>5. QED
  BY <1>4 DEF DataInv, TableOK, TornOK, SteadyOK, ReportOK

LEMMA DataAlways == PipelineSpec => [](StoreInv /\ DataInv)
<1>1. PipelineInit => StoreInv /\ DataInv
  BY StoreInit, DataInit
<1>2. StoreInv /\ DataInv /\ [PipelineNext]_pipelineVars => (StoreInv /\ DataInv)'
  BY StoreNext, DataNext
<1>3. QED
  BY <1>1, <1>2, PTL DEF PipelineSpec

\* What a completed execution delivers can be traced: its charts and its dashboard show its own
\* table, and its report leads to the datasets its figures and its profile are of.
THEOREM DeliverablesAreTraced == PipelineSpec => []DeliverablesTraced
<1>1. StoreInv /\ DataInv => DeliverablesTraced
  <2>1. SUFFICES ASSUME StoreInv, DataInv PROVE DeliverablesTraced
    OBVIOUS
  <2>2. ChartsShowOwnAnalysis
    BY <2>1 DEF DataInv, TableOK, ChartsShowOwnAnalysis, Delivered, ContentOf
  <2>3. ReportTracesToDataset
    <3>1. SUFFICES ASSUME NEW i \in execution.known, execution.shifted = FALSE,
                          artifacts[i].kind = "report",
                          <<"analysis", files[artifacts[i].file].recipe>> \notin history.torn
                   PROVE  /\ \E j \in artifacts[i].sources :
                                artifacts[j].file = <<"dataset", files[artifacts[i].file].data>>
                          /\ \E j \in artifacts[i].sources :
                                artifacts[j].file = <<"dataset", files[artifacts[i].file].profile>>
      <4>1. execution.shifted \in BOOLEAN
        BY <2>1 DEF StoreInv, ExecutionRecord
      <4>2. QED
        BY <4>1 DEF ReportTracesToDataset, Delivered, ContentOf
    <3>2. QED
      BY <2>1, <3>1 DEF DataInv, ReportOK
  <2>4. QED
    BY <2>2, <2>3 DEF DeliverablesTraced
<1>2. QED
  BY <1>1, DataAlways, PTL

\* With one recipe and without other data, everything a completed execution delivers is of the
\* run's dataset, whatever records and files earlier executions and broken attempts have left.
THEOREM DeliveryIsSteady == PipelineSpec => []SteadyDelivery
<1>1. StoreInv /\ DataInv => SteadyDelivery
  <2>1. SUFFICES ASSUME StoreInv, DataInv, Completed, execution.shifted = FALSE,
                        Cardinality({artifacts[i].file : i \in Made("kpi_table")}) = 1,
                        NEW i \in execution.known
                 PROVE  /\ ContentOf(i).data = Dataset
                        /\ artifacts[i].kind = "report" => ContentOf(i).profile = Dataset
    <3>1. execution.shifted \in BOOLEAN \/ ~StoreInv
      BY DEF StoreInv, ExecutionRecord
    <3>2. QED
      BY <3>1 DEF SteadyDelivery, Delivered
  <2>2. OneTable(artifacts)
    <3>1. PICK n \in Nat : n = Len(artifacts) /\ Ids = 1..n
      BY <2>1 DEF StoreInv, RecordsOK, Ids
    <3>2. Made("kpi_table") \subseteq 1..n
      BY <3>1 DEF Made
    <3>3. IsFiniteSet(Made("kpi_table"))
      <4>1. IsFiniteSet(1..n)
        BY <3>1, FS_Interval
      <4>2. QED
        BY <3>2, <4>1, FS_Subset
    <3>4. PICK S : S = {artifacts[k].file : k \in Made("kpi_table")}
      OBVIOUS
    <3>5. IsFiniteSet(S)
      <4>1. PICK names : names = [k \in Made("kpi_table") |-> artifacts[k].file]
        OBVIOUS
      <4>2. names \in Surjection(Made("kpi_table"), S)
        BY <3>4, <4>1 DEF Surjection
      <4>3. QED
        BY <3>3, <4>2, FS_Surjection
    <3>6. \E f : S = {f}
      <4>1. Cardinality(S) = 1
        BY <2>1, <3>4
      <4>2. QED
        BY <3>5, <4>1, FS_Singleton
    <3>7. QED
      BY <3>4, <3>6 DEF OneTable, Made, Ids
  <2>3. /\ TableOK(artifacts, files, execution.known)
        /\ SteadyOK(artifacts, files, execution.known, attached, Dataset)
    BY <2>1, DatasetIsFile DEF DataInv
  <2>4. PICK t \in execution.known : artifacts[t].kind = "kpi_table"
    <3>1. execution.node = 5
      BY <2>1 DEF Completed, StoreInv, Passed
    <3>2. StageOf("kpi_table") < execution.node
      BY <3>1 DEF StageOf
    <3>3. QED
      BY <2>1, <3>2, Behind
  <2>5. ContentOf(i) = files[artifacts[i].file]
    BY DEF ContentOf
  <2>6. artifacts[i].kind \in KindsOfRecords /\ artifacts[i].kind # "dataset"
    BY <2>1, KnownKinds
  <2>7. artifacts[i].kind \in {"chart", "dashboard"} => ContentOf(i).data = Dataset
    BY <2>3, <2>4, <2>5 DEF TableOK, SteadyOK
  <2>8. artifacts[i].kind \notin {"chart", "dashboard"} => ContentOf(i).data = Dataset
    BY <2>2, <2>3, <2>5, <2>6 DEF SteadyOK, KindsOfRecords
  <2>9. artifacts[i].kind = "report" => ContentOf(i).profile = Dataset
    BY <2>3, <2>5 DEF SteadyOK
  <2>10. QED
    BY <2>7, <2>8, <2>9
<1>2. QED
  BY <1>1, DataAlways, PTL

-----------------------------------------------------------------------------
(***************************************************************************)
(* Run results.  Requests at work count against the allowance together     *)
(* with the answers that are saved.                                        *)
(***************************************************************************)
Busy(kind) == {a \in Askers : asks[a].pc # "idle" /\ asks[a].kind = kind}

AskRecord == [pc : {"idle", "gathering", "calling"}, kind : RequestKinds,
              question : Questions \cup {"none"},
              about : Datasets \cup {"none"}, of : Datasets \cup {"none"}]
AnswerRecord == [kind : RequestKinds, question : Questions, about : Datasets, of : Datasets]
StreamRecord == [pc : {"open", "half", "closed"}, done : BOOLEAN,
                 status : {"none", "idle", "running", "completed", "failed"},
                 execution : 0..MaxExecutions]

\* A request at work has found an analysis and a dataset, and has figures once it calls.
AsksOK ==
    /\ asks \in [Askers -> AskRecord]
    /\ \A a \in Askers : asks[a].pc # "idle" =>
          /\ asks[a].question \in Questions
          /\ Made("kpi_table") # {} /\ Made("dataset") # {}
    /\ \A a \in Askers : asks[a].pc = "calling" =>
          /\ asks[a].about \in Datasets /\ asks[a].of \in Datasets
          /\ asks[a].kind = "calculation" => asks[a].about = asks[a].of

AnswersOK ==
    /\ answers \in Seq(AnswerRecord)
    /\ \A i \in DOMAIN answers : answers[i].kind = "calculation" => answers[i].about = answers[i].of

AllowanceOK ==
    \A kind \in RequestKinds :
        Cardinality(SavedAnswers(kind)) + Cardinality(Busy(kind)) <= Allowance - 1 + Cardinality(Askers)

\* A snapshot of a completed run is of its nodes completed, or older than the last execution.
StreamOK ==
    /\ stream \in StreamRecord
    /\ history.executions \in 0..MaxExecutions /\ stream.execution <= history.executions
    /\ stream.pc = "half" /\ stream.status = "completed" =>
          NodesDone \/ history.executions > stream.execution
    /\ stream.pc = "closed" /\ stream.status = "completed" =>
          stream.done = TRUE \/ history.executions > stream.execution

ResultsInv == StoreInv /\ AsksOK /\ AnswersOK /\ AllowanceOK /\ StreamOK

LEMMA SavedFinite ==
    ASSUME AnswersOK, NEW kind
    PROVE  IsFiniteSet(SavedAnswers(kind)) /\ Cardinality(SavedAnswers(kind)) \in Nat
<1>1. PICK n \in Nat : n = Len(answers) /\ DOMAIN answers = 1..n
  BY DEF AnswersOK
<1>2. IsFiniteSet(1..n)
  BY <1>1, FS_Interval
<1>3. SavedAnswers(kind) \subseteq 1..n
  BY <1>1 DEF SavedAnswers
<1>4. IsFiniteSet(SavedAnswers(kind))
  BY <1>2, <1>3, FS_Subset
<1>5. QED
  BY <1>4, FS_CardinalityType

LEMMA BusyFinite ==
    ASSUME NEW T, T \subseteq Askers
    PROVE  /\ IsFiniteSet(T) /\ Cardinality(T) \in Nat /\ Cardinality(T) <= Cardinality(Askers)
           /\ Cardinality(Askers) \in Nat
<1>1. IsFiniteSet(Askers)
  BY ResultsAssumption
<1>2. IsFiniteSet(T) /\ Cardinality(T) <= Cardinality(Askers)
  BY <1>1, FS_Subset
<1>3. QED
  BY <1>1, <1>2, FS_CardinalityType

LEMMA SteadyIds ==
    ASSUME StoreInv, StoreInv', [PipelineNext]_pipelineVars
    PROVE  \A kind \in KindsOfRecords : Made(kind) # {} => Made(kind)' # {}
<1>1. \A i \in Ids : i \in DOMAIN artifacts' /\ artifacts'[i] = artifacts[i]
  <2>1. CASE UNCHANGED pipelineVars
    BY <2>1 DEF pipelineVars, Ids
  <2>2. ASSUME NEW d \in Datasets, AttachDataset(d)
        PROVE  \A i \in Ids : i \in DOMAIN artifacts' /\ artifacts'[i] = artifacts[i]
    <3>1. /\ Len(artifacts) \in Nat /\ DOMAIN artifacts = 1..Len(artifacts)
          /\ DOMAIN artifacts' = 1..(Len(artifacts) + 1)
          /\ \A i \in 1..Len(artifacts) : artifacts'[i] = artifacts[i]
      BY <2>2, AttachIs
    <3>2. QED
      BY <3>1 DEF Ids
  <2>3. CASE StartDynamic \/ StartProcurement
    <3>1. artifacts' = artifacts
      BY <2>3, StartIs
    <3>2. QED
      BY <3>1 DEF Ids
  <2>4. CASE RetryFailedNode
    <3>1. artifacts' = artifacts
      BY <2>4, RetryIs
    <3>2. QED
      BY <3>1 DEF Ids
  <2>5. CASE ProfileDataset \/ Analyze \/ Visualize \/ ComposeReport \/ EvaluateRun
    <3>1. CASE Refused
      BY <3>1 DEF Refused, Ids
    <3>2. ASSUME NEW outs, Attempted(outs)
          PROVE  \A i \in Ids : i \in DOMAIN artifacts' /\ artifacts'[i] = artifacts[i]
      BY <3>2, KnownAfter
    <3>3. QED
      BY <2>5, <3>1, <3>2, AgentsAct
  <2>6. QED
    BY <2>1, <2>2, <2>3, <2>4, <2>5 DEF PipelineNext
<1>2. QED
  BY <1>1 DEF Made, Ids

\* Status and count of the executions, step by step.
LEMMA ExecutionMoves ==
    ASSUME StoreInv, [PipelineNext]_pipelineVars, history.executions \in 0..MaxExecutions
    PROVE  /\ history'.executions \in 0..MaxExecutions /\ history.executions <= history'.executions
           /\ NodesDone => NodesDone' \/ history'.executions > history.executions
<1>1. MaxExecutions \in Nat
  BY PipelineAssumption
<1>2. CASE UNCHANGED pipelineVars
  <2>1. history' = history /\ execution' = execution
    BY <1>2 DEF pipelineVars
  <2>2. QED
    BY <1>1, <2>1 DEF NodesDone
<1>3. ASSUME NEW d \in Datasets, AttachDataset(d)
      PROVE  history' = history /\ execution'.status = execution.status
  BY <1>3, AttachIs
<1>4. CASE StartDynamic \/ StartProcurement
  <2>1. history.executions < MaxExecutions /\ history'.executions = history.executions + 1
    BY <1>4, StartIs
  <2>2. QED
    BY <1>1, <2>1
<1>5. CASE RetryFailedNode
  <2>1. execution.status = "failed" /\ history'.executions = history.executions
    BY <1>5, RetryIs
  <2>2. QED
    BY <1>1, <2>1 DEF NodesDone
<1>6. CASE ProfileDataset \/ Analyze \/ Visualize \/ ComposeReport \/ EvaluateRun
  <2>1. execution.status = "running" /\ history'.executions = history.executions
    <3>1. CASE Refused
      BY <3>1 DEF Refused
    <3>2. ASSUME NEW outs, Attempted(outs)
          PROVE  execution.status = "running" /\ history'.executions = history.executions
      BY <3>2 DEF Attempted
    <3>3. QED
      BY <1>6, <3>1, <3>2, AgentsAct
  <2>2. QED
    BY <1>1, <2>1 DEF NodesDone
<1>7. QED
  <2>1. ASSUME NEW d \in Datasets, AttachDataset(d)
        PROVE  /\ history'.executions \in 0..MaxExecutions /\ history.executions <= history'.executions
               /\ NodesDone => NodesDone' \/ history'.executions > history.executions
    BY <1>1, <1>3, <2>1 DEF NodesDone
  <2>2. QED
    BY <1>2, <1>4, <1>5, <1>6, <2>1 DEF PipelineNext

LEMMA PipelineKeepsResults ==
    ASSUME ResultsInv, [PipelineNext]_pipelineVars, UNCHANGED resultVars
    PROVE  ResultsInv'
<1>1. StoreInv'
  BY StoreNext DEF ResultsInv
<1>2. asks' = asks /\ answers' = answers /\ stream' = stream
  BY DEF resultVars
<1>3. AsksOK'
  <2>1. \A kind \in {"kpi_table", "dataset"} : Made(kind) # {} => Made(kind)' # {}
    BY <1>1, SteadyIds DEF ResultsInv, KindsOfRecords
  <2>2. QED
    BY <1>2, <2>1 DEF ResultsInv, AsksOK
<1>4. AnswersOK' /\ AllowanceOK'
  BY <1>2 DEF ResultsInv, AnswersOK, AllowanceOK, SavedAnswers, Busy
<1>5. StreamOK'
  <2>1. /\ history'.executions \in 0..MaxExecutions /\ history.executions <= history'.executions
        /\ NodesDone => NodesDone' \/ history'.executions > history.executions
    BY ExecutionMoves DEF ResultsInv, StreamOK
  <2>2. /\ stream.execution \in Int /\ history.executions \in Int /\ history'.executions \in Int
    BY <2>1 DEF ResultsInv, StreamOK, StreamRecord
  <2>3. QED
    BY <1>2, <2>1, <2>2 DEF ResultsInv, StreamOK
<1>6. QED
  BY <1>1, <1>3, <1>4, <1>5 DEF ResultsInv

\* The figures of an analysis and of a dataset that is there.
LEMMA FiguresAre ==
    ASSUME StoreInv, Made("kpi_table") # {}, Made("dataset") # {}
    PROVE  ContentOf(LastAnalysis).data \in Datasets /\ ContentOf(FirstDataset).data \in Datasets
<1>1. /\ RecordsOK(artifacts, files) /\ FilesOK(files) /\ artifacts \in Seq(ArtifactRecord)
      /\ Ids = 1..Len(artifacts) /\ Len(artifacts) \in Nat
  BY DEF StoreInv, RecordsOK, Ids
<1>2. LastAnalysis \in Ids
  <2>1. \E i \in Ids : artifacts[i].kind = "kpi_table"
    BY DEF Made
  <2>2. QED
    BY <1>1, <2>1, LastOfAll DEF LastAnalysis
<1>3. FirstDataset \in Ids
  <2>1. Made("dataset") \subseteq Nat
    BY <1>1 DEF Made
  <2>2. \E i \in Made("dataset") : \A k \in Made("dataset") : i <= k
    BY <2>1, LeastNumber
  <2>3. FirstDataset \in Made("dataset")
    BY <2>2 DEF FirstDataset
  <2>4. QED
    BY <2>3 DEF Made
<1>4. QED
  BY <1>1, <1>2, <1>3, ContentIs

\* A step of one request, told by what becomes of the others.
LEMMA OneAsks ==
    ASSUME ResultsInv, NEW a \in Askers, NEW r \in AskRecord, asks' = [asks EXCEPT ![a] = r]
    PROVE  /\ asks' \in [Askers -> AskRecord] /\ asks'[a] = r
           /\ \A b \in Askers : b # a => asks'[b] = asks[b]
BY DEF ResultsInv, AsksOK

LEMMA IdleIs == Idle \in AskRecord /\ Idle.pc = "idle"
BY DEF Idle, AskRecord, RequestKinds

\* A step in which no request is taken up and no answer is saved keeps the allowance.
LEMMA FewerBusy ==
    ASSUME ResultsInv, UNCHANGED answers, \A kind \in RequestKinds : Busy(kind)' \subseteq Busy(kind)
    PROVE  AllowanceOK'
<1>1. SUFFICES ASSUME NEW kind \in RequestKinds
               PROVE  Cardinality(SavedAnswers(kind)') + Cardinality(Busy(kind)')
                      <= Allowance - 1 + Cardinality(Askers)
  BY DEF AllowanceOK
<1>2. SavedAnswers(kind)' = SavedAnswers(kind)
  BY DEF SavedAnswers
<1>3. Cardinality(Busy(kind)') <= Cardinality(Busy(kind))
  <2>1. Busy(kind) \subseteq Askers
    BY DEF Busy
  <2>2. IsFiniteSet(Busy(kind))
    BY <2>1, BusyFinite
  <2>3. QED
    BY <2>2, FS_Subset
<1>4. /\ Cardinality(Busy(kind)) \in Nat /\ Cardinality(Busy(kind)') \in Nat
      /\ Cardinality(Askers) \in Nat
  <2>1. Busy(kind) \subseteq Askers /\ Busy(kind)' \subseteq Askers
    BY DEF Busy
  <2>2. QED
    BY <2>1, BusyFinite
<1>5. Cardinality(SavedAnswers(kind)) \in Nat
  BY SavedFinite DEF ResultsInv
<1>6. Cardinality(SavedAnswers(kind)) + Cardinality(Busy(kind)) <= Allowance - 1 + Cardinality(Askers)
  BY DEF ResultsInv, AllowanceOK
<1>7. Allowance \in Nat
  BY ResultsAssumption
<1>8. QED
  BY <1>2, <1>3, <1>4, <1>5, <1>6, <1>7

LEMMA RestStays ==
    ASSUME ResultsInv, UNCHANGED <<stream, pipelineVars>>
    PROVE  /\ StoreInv' /\ StreamOK'
           /\ Made("kpi_table")' = Made("kpi_table") /\ Made("dataset")' = Made("dataset")
<1>1. UNCHANGED <<intent, artifacts, files, attached, planned, execution, history>>
  BY DEF pipelineVars
<1>2. Made("kpi_table")' = Made("kpi_table") /\ Made("dataset")' = Made("dataset")
  BY <1>1 DEF Made, Ids
<1>3. StreamOK'
  BY <1>1 DEF ResultsInv, StreamOK, NodesDone
<1>4. StoreInv'
  BY StoreNext DEF ResultsInv
<1>5. QED
  BY <1>2, <1>3, <1>4

LEMMA AskKeeps ==
    ASSUME ResultsInv, NEW a \in Askers, NEW kind \in RequestKinds, NEW q \in Questions,
           AskAbout(a, kind, q)
    PROVE  ResultsInv'
<1>1. /\ asks[a].pc = "idle" /\ execution.status = "completed" /\ MayAsk(kind)
      /\ UNCHANGED <<answers, stream, pipelineVars>>
  BY DEF AskAbout
<1>2. PICK r : r = [Idle EXCEPT !.pc = "gathering", !.kind = kind, !.question = q]
  OBVIOUS
<1>3. r \in AskRecord /\ r.pc = "gathering" /\ r.kind = kind /\ r.question = q
  <2>1. PICK i \in AskRecord : i = Idle
    BY IdleIs
  <2>2. r = [i EXCEPT !.pc = "gathering", !.kind = kind, !.question = q]
    BY <1>2, <2>1
  <2>3. QED
    BY <2>2 DEF AskRecord
<1>4. asks' = [asks EXCEPT ![a] = r]
  BY <1>2 DEF AskAbout
<1>5. /\ asks' \in [Askers -> AskRecord] /\ asks'[a] = r
      /\ \A b \in Askers : b # a => asks'[b] = asks[b]
  BY <1>3, <1>4, OneAsks
<1>6. /\ StoreInv' /\ StreamOK'
      /\ Made("kpi_table")' = Made("kpi_table") /\ Made("dataset")' = Made("dataset")
  BY <1>1, RestStays
<1>7. Made("kpi_table") # {} /\ Made("dataset") # {}
  <2>1. StoreInv /\ execution.node = 5
    BY <1>1 DEF ResultsInv, StoreInv, Passed
  <2>2. StageOf("kpi_table") < execution.node
    BY <2>1 DEF StageOf
  <2>3. \E i \in Ids : artifacts[i].kind = "kpi_table"
    BY <2>1, <2>2, Behind
  <2>4. attached \in Made("dataset")
    BY <1>1, <2>1 DEF StoreInv
  <2>5. QED
    BY <2>3, <2>4 DEF Made
<1>8. AsksOK'
  BY <1>3, <1>5, <1>6, <1>7 DEF ResultsInv, AsksOK
<1>9. AnswersOK'
  BY <1>1 DEF ResultsInv, AnswersOK
<1>10. AllowanceOK'
  <2>1. SUFFICES ASSUME NEW k \in RequestKinds
                 PROVE  Cardinality(SavedAnswers(k)') + Cardinality(Busy(k)')
                        <= Allowance - 1 + Cardinality(Askers)
    BY DEF AllowanceOK
  <2>2. SavedAnswers(k)' = SavedAnswers(k)
    BY <1>1 DEF SavedAnswers
  <2>3. Cardinality(SavedAnswers(k)) \in Nat /\ Allowance \in Nat
    BY SavedFinite, ResultsAssumption DEF ResultsInv
  <2>4. Busy(k)' \subseteq Askers /\ Busy(k) \subseteq Askers
    BY DEF Busy
  <2>5. /\ Cardinality(Busy(k)') \in Nat /\ Cardinality(Busy(k)') <= Cardinality(Askers)
        /\ Cardinality(Askers) \in Nat
    BY <2>4, BusyFinite
  <2>6. CASE k = kind
    <3>1. Cardinality(SavedAnswers(k)) < Allowance
      BY <1>1, <2>6 DEF MayAsk
    <3>2. QED
      BY <2>2, <2>3, <2>5, <3>1
  <2>7. CASE k # kind
    <3>1. Busy(k)' = Busy(k)
      BY <1>1, <1>3, <1>5, <2>7 DEF Busy
    <3>2. Cardinality(SavedAnswers(k)) + Cardinality(Busy(k)) <= Allowance - 1 + Cardinality(Askers)
      BY DEF ResultsInv, AllowanceOK
    <3>3. QED
      BY <2>2, <3>1, <3>2
  <2>8. QED
    BY <2>6, <2>7
<1>11. QED
  BY <1>6, <1>8, <1>9, <1>10 DEF ResultsInv

\* A request is given up, or its model fails.
LEMMA DropKeeps ==
    ASSUME ResultsInv, NEW a \in Askers, asks' = [asks EXCEPT ![a] = Idle],
           UNCHANGED <<answers, stream, pipelineVars>>
    PROVE  ResultsInv'
<1>1. /\ asks' \in [Askers -> AskRecord] /\ asks'[a].pc = "idle"
      /\ \A b \in Askers : b # a => asks'[b] = asks[b]
  BY IdleIs, OneAsks
<1>2. /\ StoreInv' /\ StreamOK'
      /\ Made("kpi_table")' = Made("kpi_table") /\ Made("dataset")' = Made("dataset")
  BY RestStays
<1>3. AsksOK'
  BY <1>1, <1>2 DEF ResultsInv, AsksOK
<1>4. \A kind \in RequestKinds : Busy(kind)' \subseteq Busy(kind)
  BY <1>1 DEF Busy
<1>5. AllowanceOK'
  BY <1>4, FewerBusy
<1>6. AnswersOK'
  BY DEF ResultsInv, AnswersOK
<1>7. QED
  BY <1>2, <1>3, <1>5, <1>6 DEF ResultsInv

LEMMA GatherKeeps ==
    ASSUME ResultsInv, NEW a \in Askers, Gather(a)
    PROVE  ResultsInv'
<1>1. PICK ask \in AskRecord : ask = asks[a] /\ ask.pc = "gathering" /\ ask.question \in Questions
  BY DEF Gather, ResultsInv, AsksOK
<1>2. UNCHANGED <<answers, stream, pipelineVars>>
  BY DEF Gather
<1>3. StoreInv /\ Made("kpi_table") # {} /\ Made("dataset") # {}
  BY <1>1 DEF ResultsInv, AsksOK
<1>4. PICK analysis : analysis = ContentOf(LastAnalysis) /\ analysis.data \in Datasets
  BY <1>3, FiguresAre
<1>5. PICK data \in Datasets : data = ContentOf(FirstDataset).data
  BY <1>3, FiguresAre
<1>6. \/ /\ ask.kind = "question"
         /\ asks' = [asks EXCEPT ![a] = [ask EXCEPT !.pc = "calling", !.about = analysis.data,
                                                    !.of = analysis.data]]
      \/ /\ Reconciles(data, analysis)
         /\ asks' = [asks EXCEPT ![a] = [ask EXCEPT !.pc = "calling", !.about = data,
                                                    !.of = analysis.data]]
      \/ asks' = [asks EXCEPT ![a] = Idle]
  BY <1>1, <1>4, <1>5 DEF Gather
<1>7. ASSUME NEW about \in Datasets, NEW of \in Datasets,
             ask.kind = "calculation" => about = of,
             asks' = [asks EXCEPT ![a] = [ask EXCEPT !.pc = "calling", !.about = about, !.of = of]]
      PROVE  ResultsInv'
  <2>1. PICK r : r = [ask EXCEPT !.pc = "calling", !.about = about, !.of = of]
    OBVIOUS
  <2>2. /\ r \in AskRecord /\ r.pc = "calling" /\ r.about = about /\ r.of = of
        /\ r.kind = ask.kind /\ r.question = ask.question
    BY <2>1 DEF AskRecord
  <2>3. /\ asks' \in [Askers -> AskRecord] /\ asks'[a] = r
        /\ \A b \in Askers : b # a => asks'[b] = asks[b]
    BY <1>7, <2>1, <2>2, OneAsks
  <2>4. /\ StoreInv' /\ StreamOK'
        /\ Made("kpi_table")' = Made("kpi_table") /\ Made("dataset")' = Made("dataset")
    BY <1>2, RestStays
  <2>5. AsksOK'
    BY <1>1, <1>3, <1>7, <2>2, <2>3, <2>4 DEF ResultsInv, AsksOK
  <2>6. \A kind \in RequestKinds : Busy(kind)' \subseteq Busy(kind)
    BY <1>1, <2>2, <2>3 DEF Busy
  <2>7. AllowanceOK'
    BY <1>2, <2>6, FewerBusy
  <2>8. AnswersOK'
    BY <1>2 DEF ResultsInv, AnswersOK
  <2>9. QED
    BY <2>4, <2>5, <2>7, <2>8 DEF ResultsInv
<1>8. CASE /\ ask.kind = "question"
           /\ asks' = [asks EXCEPT ![a] = [ask EXCEPT !.pc = "calling", !.about = analysis.data,
                                                      !.of = analysis.data]]
  BY <1>4, <1>7, <1>8
<1>9. CASE /\ Reconciles(data, analysis)
           /\ asks' = [asks EXCEPT ![a] = [ask EXCEPT !.pc = "calling", !.about = data,
                                                      !.of = analysis.data]]
  <2>1. data = analysis.data
    BY <1>9 DEF Reconciles
  <2>2. QED
    BY <1>4, <1>7, <1>9, <2>1
<1>10. CASE asks' = [asks EXCEPT ![a] = Idle]
  BY <1>2, <1>10, DropKeeps
<1>11. QED
  BY <1>6, <1>8, <1>9, <1>10

LEMMA SaveKeeps ==
    ASSUME ResultsInv, NEW a \in Askers, SaveAnswer(a)
    PROVE  ResultsInv'
<1>1. PICK ask \in AskRecord : /\ ask = asks[a] /\ ask.pc = "calling" /\ ask.question \in Questions
                               /\ ask.about \in Datasets /\ ask.of \in Datasets
                               /\ ask.kind = "calculation" => ask.about = ask.of
  BY DEF SaveAnswer, ResultsInv, AsksOK
<1>2. PICK answer : answer = Answer(ask)
  OBVIOUS
<1>3. /\ answer \in AnswerRecord /\ answer.kind = ask.kind /\ answer.about = ask.about
      /\ answer.of = ask.of
  BY <1>1, <1>2 DEF Answer, AnswerRecord, AskRecord
<1>4. /\ answers' = Append(answers, answer) /\ asks' = [asks EXCEPT ![a] = Idle]
      /\ UNCHANGED <<stream, pipelineVars>>
  BY <1>1, <1>2 DEF SaveAnswer
<1>5. /\ asks' \in [Askers -> AskRecord] /\ asks'[a].pc = "idle"
      /\ \A b \in Askers : b # a => asks'[b] = asks[b]
  BY <1>4, IdleIs, OneAsks
<1>6. /\ StoreInv' /\ StreamOK'
      /\ Made("kpi_table")' = Made("kpi_table") /\ Made("dataset")' = Made("dataset")
  BY <1>4, RestStays
<1>7. AsksOK'
  BY <1>5, <1>6 DEF ResultsInv, AsksOK
<1>8. PICK n \in Nat : n = Len(answers) /\ DOMAIN answers = 1..n /\ answers \in Seq(AnswerRecord)
  BY DEF ResultsInv, AnswersOK
<1>9. /\ answers' \in Seq(AnswerRecord) /\ DOMAIN answers' = 1..(n + 1)
      /\ \A i \in 1..n : answers'[i] = answers[i]
      /\ answers'[n + 1] = answer
  <2>1. /\ answers' \in Seq(AnswerRecord) /\ Len(answers') = n + 1
        /\ \A i \in 1..n : answers'[i] = answers[i]
        /\ answers'[n + 1] = answer
    BY <1>3, <1>4, <1>8, AppendProperties
  <2>2. QED
    BY <2>1
<1>10. AnswersOK'
  <2>1. ASSUME NEW i \in DOMAIN answers', answers'[i].kind = "calculation"
        PROVE  answers'[i].about = answers'[i].of
    <3>1. CASE i = n + 1
      BY <1>1, <1>3, <1>9, <2>1, <3>1
    <3>2. CASE i # n + 1
      <4>1. i \in 1..n
        BY <1>9, <3>2
      <4>2. QED
        BY <1>8, <1>9, <2>1, <4>1 DEF ResultsInv, AnswersOK
    <3>3. QED
      BY <3>1, <3>2
  <2>2. QED
    BY <1>9, <2>1 DEF AnswersOK
<1>11. AllowanceOK'
  <2>1. SUFFICES ASSUME NEW k \in RequestKinds
                 PROVE  Cardinality(SavedAnswers(k)') + Cardinality(Busy(k)')
                        <= Allowance - 1 + Cardinality(Askers)
    BY DEF AllowanceOK
  <2>2. /\ IsFiniteSet(SavedAnswers(k)) /\ Cardinality(SavedAnswers(k)) \in Nat
    BY SavedFinite DEF ResultsInv
  <2>3. Busy(k)' \subseteq Askers /\ Busy(k) \subseteq Askers
    BY DEF Busy
  <2>4. /\ IsFiniteSet(Busy(k)) /\ Cardinality(Busy(k)) \in Nat
        /\ Cardinality(Busy(k)') \in Nat /\ Cardinality(Askers) \in Nat /\ Allowance \in Nat
    BY <2>3, BusyFinite, ResultsAssumption
  <2>5. Cardinality(SavedAnswers(k)) + Cardinality(Busy(k)) <= Allowance - 1 + Cardinality(Askers)
    BY DEF ResultsInv, AllowanceOK
  <2>6. CASE k = ask.kind
    <3>1. SavedAnswers(k)' = SavedAnswers(k) \cup {n + 1}
      BY <1>3, <1>8, <1>9, <2>6 DEF SavedAnswers
    <3>2. n + 1 \notin SavedAnswers(k)
      BY <1>8 DEF SavedAnswers
    <3>3. Cardinality(SavedAnswers(k)') = Cardinality(SavedAnswers(k)) + 1
      BY <2>2, <3>1, <3>2, FS_AddElement
    <3>4. a \in Busy(k)
      BY <1>1, <2>6 DEF Busy
    <3>5. Busy(k)' = Busy(k) \ {a}
      BY <1>5 DEF Busy
    <3>6. Cardinality(Busy(k)') = Cardinality(Busy(k)) - 1
      BY <2>4, <3>4, <3>5, FS_RemoveElement
    <3>7. QED
      BY <2>2, <2>4, <2>5, <3>3, <3>6
  <2>7. CASE k # ask.kind
    <3>1. SavedAnswers(k)' = SavedAnswers(k)
      BY <1>3, <1>8, <1>9, <2>7 DEF SavedAnswers
    <3>2. Busy(k)' = Busy(k)
      BY <1>1, <1>5, <2>7 DEF Busy
    <3>3. QED
      BY <2>5, <3>1, <3>2
  <2>8. QED
    BY <2>6, <2>7
<1>12. QED
  BY <1>6, <1>7, <1>10, <1>11 DEF ResultsInv

LEMMA SnapshotKeeps ==
    ASSUME ResultsInv, Snapshot
    PROVE  ResultsInv'
<1>1. UNCHANGED <<asks, answers, intent, artifacts, files, attached, planned, execution, history>>
  BY DEF Snapshot, pipelineVars
<1>2. Made("kpi_table")' = Made("kpi_table") /\ Made("dataset")' = Made("dataset")
  BY <1>1 DEF Made, Ids
<1>3. StoreInv'
  <2>1. [PipelineNext]_pipelineVars
    BY <1>1 DEF pipelineVars
  <2>2. QED
    BY <2>1, StoreNext DEF ResultsInv
<1>4. AsksOK' /\ AnswersOK' /\ AllowanceOK'
  <2>1. AsksOK'
    BY <1>1, <1>2 DEF ResultsInv, AsksOK
  <2>2. AnswersOK' /\ AllowanceOK'
    BY <1>1 DEF ResultsInv, AnswersOK, AllowanceOK, SavedAnswers, Busy
  <2>3. QED
    BY <2>1, <2>2
<1>5. PICK s \in StreamRecord : s = stream
  BY DEF ResultsInv, StreamOK
<1>6. /\ history.executions \in 0..MaxExecutions /\ execution.status \in {"idle", "running", "completed", "failed"}
      /\ stream.execution <= history.executions
  BY DEF ResultsInv, StreamOK, StoreInv, ExecutionRecord
<1>7. CASE stream.pc = "open" /\ stream' = [RunRead(stream) EXCEPT !.pc = "half"]
  <2>1. stream' = [s EXCEPT !.status = execution.status, !.execution = history.executions, !.pc = "half"]
    BY <1>5, <1>7 DEF RunRead, StreamRecord
  <2>2. /\ stream' \in StreamRecord /\ stream'.pc = "half" /\ stream'.status = execution.status
        /\ stream'.execution = history.executions
    BY <1>6, <2>1 DEF StreamRecord
  <2>3. StreamOK'
    BY <1>1, <1>6, <2>2 DEF StreamOK, NodesDone
  <2>4. QED
    BY <1>3, <1>4, <2>3 DEF ResultsInv
<1>8. CASE /\ stream.pc = "half"
           /\ stream' = [stream EXCEPT !.done = NodesDone, !.pc = After(stream.status)]
  <2>1. PICK pc \in {"open", "closed"} : pc = After(s.status)
    BY DEF After
  <2>2. PICK done \in BOOLEAN : done <=> NodesDone
    BY DEF NodesDone
  <2>3. stream' = [s EXCEPT !.done = done, !.pc = pc]
    <3>1. done = NodesDone
      BY <2>2 DEF NodesDone
    <3>2. QED
      BY <1>5, <1>8, <2>1, <3>1
  <2>4. /\ stream' \in StreamRecord /\ stream'.pc \in {"open", "closed"} /\ stream'.status = stream.status
        /\ stream'.execution = stream.execution /\ stream'.done = done
    BY <1>5, <2>3 DEF StreamRecord
  <2>5. stream.status = "completed" => NodesDone \/ history.executions > stream.execution
    BY <1>8 DEF ResultsInv, StreamOK
  <2>6. stream'.status = "completed" => stream'.done = TRUE \/ history.executions > stream'.execution
    BY <2>2, <2>4, <2>5
  <2>7. StreamOK'
    BY <1>1, <1>6, <2>4, <2>6 DEF StreamOK
  <2>8. QED
    BY <1>3, <1>4, <2>7 DEF ResultsInv
<1>9. QED
  BY <1>7, <1>8 DEF Snapshot

LEMMA ResultsInitOK == ResultsInit => ResultsInv
<1>1. SUFFICES ASSUME ResultsInit PROVE ResultsInv
  OBVIOUS
<1>2. StoreInv
  BY <1>1, StoreInit DEF ResultsInit
<1>3. asks = [a \in Askers |-> Idle] /\ answers = <<>> /\ stream = Unread
  BY <1>1 DEF ResultsInit
<1>4. asks \in [Askers -> AskRecord] /\ \A a \in Askers : asks[a].pc = "idle"
  BY <1>3, IdleIs
<1>5. AsksOK
  BY <1>4 DEF AsksOK
<1>6. answers \in Seq(AnswerRecord) /\ DOMAIN answers = {}
  BY <1>3
<1>7. AnswersOK
  BY <1>6 DEF AnswersOK
<1>8. AllowanceOK
  <2>1. SUFFICES ASSUME NEW kind \in RequestKinds
                 PROVE  Cardinality(SavedAnswers(kind)) + Cardinality(Busy(kind))
                        <= Allowance - 1 + Cardinality(Askers)
    BY DEF AllowanceOK
  <2>2. SavedAnswers(kind) = {} /\ Busy(kind) = {}
    BY <1>4, <1>6 DEF SavedAnswers, Busy
  <2>3. Cardinality(SavedAnswers(kind)) = 0 /\ Cardinality(Busy(kind)) = 0
    BY <2>2, FS_EmptySet
  <2>4. Cardinality(Askers) \in Nat
    BY BusyFinite
  <2>5. QED
    BY <2>3, <2>4, ResultsAssumption
<1>9. StreamOK
  <2>1. history.executions = 0
    BY <1>1 DEF ResultsInit, PipelineInit
  <2>2. stream \in StreamRecord /\ stream.pc = "open" /\ stream.execution = 0
    BY <1>3, PipelineAssumption DEF Unread, StreamRecord
  <2>3. QED
    BY <2>1, <2>2, PipelineAssumption DEF StreamOK
<1>10. QED
  BY <1>2, <1>5, <1>7, <1>8, <1>9 DEF ResultsInv

LEMMA ResultsNextOK ==
    ASSUME ResultsInv, [ResultsNext]_<<pipelineVars, resultVars>>
    PROVE  ResultsInv'
<1>1. CASE UNCHANGED <<pipelineVars, resultVars>>
  BY <1>1, PipelineKeepsResults
<1>2. CASE PipelineNext /\ UNCHANGED resultVars
  BY <1>2, PipelineKeepsResults
<1>3. ASSUME NEW a \in Askers, Request(a)
      PROVE  ResultsInv'
  <2>1. ASSUME NEW kind \in RequestKinds, NEW q \in Questions, AskAbout(a, kind, q)
        PROVE  ResultsInv'
    BY <2>1, AskKeeps
  <2>2. CASE Gather(a)
    BY <2>2, GatherKeeps
  <2>3. CASE ModelFails(a)
    <3>1. asks' = [asks EXCEPT ![a] = Idle] /\ UNCHANGED <<answers, stream, pipelineVars>>
      BY <2>3 DEF ModelFails
    <3>2. QED
      BY <3>1, DropKeeps
  <2>4. CASE SaveAnswer(a)
    BY <2>4, SaveKeeps
  <2>5. QED
    BY <1>3, <2>1, <2>2, <2>3, <2>4 DEF Request
<1>4. CASE Snapshot
  BY <1>4, SnapshotKeeps
<1>5. QED
  BY <1>1, <1>2, <1>3, <1>4 DEF ResultsNext

LEMMA ResultsAlways == ResultsSpec => []ResultsInv
BY ResultsInitOK, ResultsNextOK, PTL DEF ResultsSpec

\* Requests, answers and snapshots are what the API makes of them.
THEOREM ResultsTypes == ResultsSpec => []ResultsTypeOK
<1>1. ResultsInv => ResultsTypeOK
  BY DEF ResultsInv, AsksOK, AnswersOK, StreamOK, ResultsTypeOK, AskRecord, AnswerRecord, StreamRecord
<1>2. QED
  BY <1>1, ResultsAlways, PTL

\* What clients are told of a run holds for any number of requests at work and executions: the
\* allowance is overrun by no more than the others at work, a calculation is of the analysis it
\* cites, and the last snapshot is whole.
THEOREM ResultsAreReliable == ResultsSpec => []ResultsReliable
<1>1. ResultsInv => ResultsReliable
  <2>1. SUFFICES ASSUME ResultsInv PROVE ResultsReliable
    OBVIOUS
  <2>2. AllowanceOverrunBounded
    <3>1. SUFFICES ASSUME NEW kind \in RequestKinds
                   PROVE  Cardinality(SavedAnswers(kind)) <= Allowance + Cardinality(Askers) - 1
      BY DEF AllowanceOverrunBounded
    <3>2. Cardinality(SavedAnswers(kind)) \in Nat
      BY <2>1, SavedFinite DEF ResultsInv
    <3>3. Busy(kind) \subseteq Askers
      BY DEF Busy
    <3>4. Cardinality(Busy(kind)) \in Nat /\ Cardinality(Askers) \in Nat /\ Allowance \in Nat
      BY <3>3, BusyFinite, ResultsAssumption
    <3>5. Cardinality(SavedAnswers(kind)) + Cardinality(Busy(kind)) <= Allowance - 1 + Cardinality(Askers)
      BY <2>1 DEF ResultsInv, AllowanceOK
    <3>6. QED
      BY <3>2, <3>4, <3>5
  <2>3. CalculationsAreOfTheAnalysis
    BY <2>1 DEF ResultsInv, AnswersOK, CalculationsAreOfTheAnalysis
  <2>4. LastSnapshotComplete
    BY <2>1 DEF ResultsInv, StreamOK, LastSnapshotComplete
  <2>5. QED
    BY <2>2, <2>3, <2>4 DEF ResultsReliable
<1>2. QED
  BY <1>1, ResultsAlways, PTL

-----------------------------------------------------------------------------
(***************************************************************************)
(* The figures of a file.  First its numbers: a sum of whole amounts is    *)
(* whole, and a rank between 1 and the number of rows is the amount of one *)
(* of them, so that among whole hundredths all the quartiles are.          *)
(***************************************************************************)

\* g sums up the sets of up to n members of S, in the order in which they are chosen.
SumsUpTo(g, fun, S, n) ==
    g = [s \in {s \in SUBSET S : Cardinality(s) <= n} |->
            IF s = {} THEN 0
            ELSE fun[CHOOSE x \in s : TRUE] + g[s \ {CHOOSE x \in s : TRUE}]]

LEMMA SumsGrow ==
    ASSUME NEW fun, NEW S, IsFiniteSet(S), NEW n \in Nat, NEW g, SumsUpTo(g, fun, S, n)
    PROVE  \E h : SumsUpTo(h, fun, S, n + 1)
<1> DEFINE Sized(m) == {s \in SUBSET S : Cardinality(s) <= m}
           one(s) == CHOOSE x \in s : TRUE
<1>1. PICK h : h = [s \in Sized(n + 1) |->
                      IF s = {} THEN 0 ELSE fun[one(s)] + g[s \ {one(s)}]]
  OBVIOUS
<1>2. ASSUME NEW s \in Sized(n + 1), s # {}
      PROVE  s \ {one(s)} \in Sized(n) /\ s \ {one(s)} \in Sized(n + 1)
  <2>1. IsFiniteSet(s) /\ Cardinality(s) \in Nat
    BY FS_Subset, FS_CardinalityType
  <2>2. one(s) \in s
    BY <1>2
  <2>3. Cardinality(s \ {one(s)}) = Cardinality(s) - 1
    BY <2>1, <2>2, FS_RemoveElement
  <2>4. QED
    BY <2>1, <2>3
<1>3. ASSUME NEW s \in Sized(n)
      PROVE  h[s] = g[s]
  <2>1. s \in Sized(n + 1)
    <3>1. Cardinality(s) \in Nat
      BY FS_Subset, FS_CardinalityType
    <3>2. QED
      BY <3>1
  <2>2. h[s] = IF s = {} THEN 0 ELSE fun[one(s)] + g[s \ {one(s)}]
    BY <1>1, <2>1
  <2>3. g[s] = IF s = {} THEN 0 ELSE fun[one(s)] + g[s \ {one(s)}]
    BY DEF SumsUpTo
  <2>4. QED
    BY <2>2, <2>3
<1>4. ASSUME NEW s \in Sized(n + 1)
      PROVE  h[s] = IF s = {} THEN 0 ELSE fun[one(s)] + h[s \ {one(s)}]
  <2>1. CASE s = {}
    BY <1>1, <2>1
  <2>2. CASE s # {}
    <3>1. h[s \ {one(s)}] = g[s \ {one(s)}]
      BY <1>2, <1>3, <2>2
    <3>2. QED
      BY <1>1, <2>2, <3>1
  <2>3. QED
    BY <2>1, <2>2
<1>5. h = [s \in Sized(n + 1) |-> IF s = {} THEN 0 ELSE fun[one(s)] + h[s \ {one(s)}]]
  <2>1. h = [s \in Sized(n + 1) |-> h[s]]
    BY <1>1
  <2>2. QED
    BY <1>4, <2>1
<1>6. SumsUpTo(h, fun, S, n + 1)
  BY <1>5, Zenon DEF SumsUpTo
<1>7. QED
  BY <1>6

LEMMA SumUnfolds ==
    ASSUME NEW fun, NEW S
    PROVE  SumFunctionOnSet(fun, S) =
             (CHOOSE g : g = [s \in SUBSET S |->
                IF s = {} THEN 0
                ELSE fun[CHOOSE x \in s : TRUE] + g[s \ {CHOOSE x \in s : TRUE}]])[S]
  BY DEF SumFunctionOnSet, FoldFunctionOnSet, MapThenFoldSet

\* The sum of whole amounts is whole, that of whole amounts of zero or more is one of them.
LEMMA SumIsWhole ==
    ASSUME NEW fun, NEW S, IsFiniteSet(S), NEW T \in {Int, Nat}, \A i \in S : fun[i] \in T
    PROVE  SumFunctionOnSet(fun, S) \in T
<1> DEFINE N == Cardinality(S)
           E == {n \in 0..N : \E g : SumsUpTo(g, fun, S, n)}
           one(s) == CHOOSE x \in s : TRUE
<1>1. N \in Nat
  BY FS_CardinalityType
<1>2. 0 \in E
  <2>1. {s \in SUBSET S : Cardinality(s) <= 0} = {{}}
    <3>1. ASSUME NEW s \in SUBSET S
          PROVE  Cardinality(s) <= 0 <=> s = {}
      <4>1. IsFiniteSet(s) /\ Cardinality(s) \in Nat
        BY FS_Subset, FS_CardinalityType
      <4>2. Cardinality(s) = 0 <=> s = {}
        BY <4>1, FS_EmptySet
      <4>3. QED
        BY <4>1, <4>2
    <3>2. QED
      BY <3>1
  <2>2. PICK g : g = [s \in {{}} |-> 0]
    OBVIOUS
  <2>3. g = [s \in {{}} |-> IF s = {} THEN 0 ELSE fun[one(s)] + g[s \ {one(s)}]]
    BY <2>2
  <2>4. SumsUpTo(g, fun, S, 0)
    BY <2>1, <2>3 DEF SumsUpTo
  <2>5. QED
    BY <1>1, <2>4
<1>3. ASSUME NEW n \in 0..N, n \in E, n < N
      PROVE  n + 1 \in E
  <2>1. PICK g : SumsUpTo(g, fun, S, n)
    BY <1>3
  <2>2. \E h : SumsUpTo(h, fun, S, n + 1)
    BY <1>1, <2>1, SumsGrow
  <2>3. QED
    BY <1>1, <1>3, <2>2
<1>4. N \in E
  <2> HIDE DEF E
  <2>1. \A n \in 0..N : n \in E /\ n < N => n + 1 \in E
    BY <1>3
  <2> HIDE DEF N
  <2>2. QED
    BY <1>1, <1>2, <2>1, Counting
<1>5. PICK g0 : SumsUpTo(g0, fun, S, N)
  BY <1>4
<1>6. {s \in SUBSET S : Cardinality(s) <= N} = SUBSET S
  BY FS_Subset
<1>7. g0 = [s \in SUBSET S |-> IF s = {} THEN 0 ELSE fun[one(s)] + g0[s \ {one(s)}]]
  BY <1>5, <1>6 DEF SumsUpTo
<1> DEFINE g == CHOOSE g : g = [s \in SUBSET S |->
                   IF s = {} THEN 0 ELSE fun[one(s)] + g[s \ {one(s)}]]
<1>8. g = [s \in SUBSET S |-> IF s = {} THEN 0 ELSE fun[one(s)] + g[s \ {one(s)}]]
  BY <1>7
<1>9. SumFunctionOnSet(fun, S) = g[S]
  BY SumUnfolds
<1> HIDE DEF g
<1> DEFINE W == {n \in 0..N : \A s \in SUBSET S : Cardinality(s) = n => g[s] \in T}
<1>10. 0 \in W
  <2>1. ASSUME NEW s \in SUBSET S, Cardinality(s) = 0
        PROVE  g[s] \in T
    <3>1. s = {}
      BY <2>1, FS_Subset, FS_EmptySet
    <3>2. QED
      BY <1>8, <3>1
  <2>2. QED
    BY <1>1, <2>1
<1>11. ASSUME NEW n \in 0..N, n \in W, n < N
       PROVE  n + 1 \in W
  <2>1. ASSUME NEW s \in SUBSET S, Cardinality(s) = n + 1
        PROVE  g[s] \in T
    <3>1. IsFiniteSet(s) /\ s # {}
      BY <1>1, <2>1, FS_Subset, FS_EmptySet
    <3>2. one(s) \in s /\ one(s) \in S
      BY <3>1
    <3>3. Cardinality(s \ {one(s)}) = n
      <4>1. Cardinality(s \ {one(s)}) = Cardinality(s) - 1
        BY <3>1, <3>2, FS_RemoveElement
      <4>2. n \in Nat
        BY <1>1
      <4>3. QED
        BY <2>1, <4>1, <4>2
    <3>4. g[s \ {one(s)}] \in T
      BY <1>11, <3>3
    <3>5. fun[one(s)] \in T
      BY <3>2
    <3>6. g[s] = fun[one(s)] + g[s \ {one(s)}]
      BY <1>8, <3>1
    <3> HIDE DEF one
    <3>7. QED
      BY <3>4, <3>5, <3>6
  <2>2. QED
    BY <1>1, <1>11, <2>1
<1>12. N \in W
  <2>1. \A n \in 0..N : n \in W /\ n < N => n + 1 \in W
    BY <1>11
  <2> HIDE DEF W, N
  <2>2. QED
    BY <1>1, <1>10, <2>1, Counting
<1>13. QED
  BY <1>9, <1>12

\* What there is to know of a file and some of its rows.
LEMMA RowsAre ==
    ASSUME NEW rows \in Seq(RowType), NEW S, S \subseteq DOMAIN rows
    PROVE  /\ DOMAIN rows = 1..Len(rows) /\ Len(rows) \in Nat
           /\ IsFiniteSet(S) /\ Cardinality(S) \in Nat
           /\ \A i \in DOMAIN rows : rows[i] \in RowType /\ Worth(rows[i]) \in Int
<1>1. DOMAIN rows = 1..Len(rows) /\ Len(rows) \in Nat
  OBVIOUS
<1>2. IsFiniteSet(DOMAIN rows)
  BY <1>1, FS_Interval
<1>3. IsFiniteSet(S) /\ Cardinality(S) \in Nat
  BY <1>2, FS_Subset, FS_CardinalityType
<1>4. \A i \in DOMAIN rows : rows[i] \in RowType
  BY <1>1
<1>5. \A r \in RowType : Worth(r) \in Int
  BY DEF RowType, Worth
<1>6. QED
  BY <1>1, <1>3, <1>4, <1>5

LEMMA SumIs ==
    ASSUME NEW rows \in Seq(RowType), NEW S, S \subseteq DecimalRows(rows)
    PROVE  /\ Sum(rows, S).n \in Int
           /\ (\A i \in S : Worth(rows[i]) >= 0) => Sum(rows, S).n >= 0
<1> DEFINE worth == [i \in DOMAIN rows |-> Worth(rows[i])]
<1>1. S \subseteq DOMAIN rows /\ \A i \in S : rows[i].amount.is = "number"
  BY DEF DecimalRows
<1>2. \A i \in S : worth[i] = Worth(rows[i]) /\ worth[i] \in Int
  BY <1>1, RowsAre
<1>3. IsFiniteSet(S)
  BY <1>1, RowsAre
<1>4. Sum(rows, S) = Money(SumFunctionOnSet(worth, S))
  BY <1>1 DEF Sum
<1> HIDE DEF worth
<1>5. SumFunctionOnSet(worth, S) \in Int
  BY <1>2, <1>3, SumIsWhole
<1>6. ASSUME \A i \in S : Worth(rows[i]) >= 0
      PROVE  SumFunctionOnSet(worth, S) \in Nat
  <2>1. \A i \in S : worth[i] \in Nat
    BY <1>2, <1>6
  <2>2. QED
    BY <1>3, <2>1, SumIsWhole
<1>7. QED
  BY <1>4, <1>5, <1>6 DEF Money

\* The largest amount of some rows.
LEMMA LargestRow ==
    ASSUME NEW rows \in Seq(RowType), NEW S, S \subseteq DOMAIN rows, S # {}
    PROVE  \E m \in S : \A j \in S : Worth(rows[j]) <= Worth(rows[m])
<1> DEFINE upto(i) == {j \in S : Worth(rows[j]) <= Worth(rows[i])}
           left == {Cardinality(S) - Cardinality(upto(i)) : i \in S}
<1>1. IsFiniteSet(S) /\ Cardinality(S) \in Nat /\ \A i \in S : Worth(rows[i]) \in Int
  BY RowsAre
<1>2. \A i \in S : /\ IsFiniteSet(upto(i)) /\ Cardinality(upto(i)) \in Nat
                   /\ Cardinality(upto(i)) <= Cardinality(S)
  BY <1>1, FS_Subset, FS_CardinalityType
<1>3. left \subseteq Nat /\ left # {}
  <2> HIDE DEF upto
  <2>1. QED
    BY <1>1, <1>2
<1>4. PICK m \in S : \A i \in S : Cardinality(upto(i)) <= Cardinality(upto(m))
  <2>1. PICK n \in left : \A k \in left : n <= k
    BY <1>3, LeastNumber
  <2>2. PICK m \in S : n = Cardinality(S) - Cardinality(upto(m))
    OBVIOUS
  <2>3. ASSUME NEW i \in S
        PROVE  Cardinality(upto(i)) <= Cardinality(upto(m))
    <3>1. n <= Cardinality(S) - Cardinality(upto(i))
      BY <2>1
    <3> HIDE DEF upto
    <3>2. QED
      BY <1>1, <1>2, <2>2, <3>1
  <2>4. QED
    BY <2>3
<1>5. ASSUME NEW j \in S, ~(Worth(rows[j]) <= Worth(rows[m]))
      PROVE  FALSE
  <2>1. upto(m) \subseteq upto(j)
    BY <1>1, <1>5
  <2>2. j \in upto(j) /\ j \notin upto(m)
    BY <1>1, <1>5
  <2> HIDE DEF upto
  <2>3. Cardinality(upto(m)) <= Cardinality(upto(j)) /\ Cardinality(upto(j)) # Cardinality(upto(m))
    BY <1>2, <2>1, <2>2, FS_Subset
  <2>4. Cardinality(upto(j)) <= Cardinality(upto(m))
    BY <1>4
  <2>5. QED
    BY <1>2, <2>3, <2>4
<1>6. QED
  BY <1>5

\* A rank is the amount of a row.
LEMMA RankedIs ==
    ASSUME NEW rows \in Seq(RowType), NEW S, S \subseteq DOMAIN rows,
           NEW r \in Nat, 1 <= r, r <= Cardinality(S)
    PROVE  \E i \in S : Ranked(rows, S, r) = Worth(rows[i])
<1> DEFINE upto(i) == {j \in S : Worth(rows[j]) <= Worth(rows[i])}
           below(i) == {j \in S : Worth(rows[j]) < Worth(rows[i])}
           reach == {i \in S : Cardinality(upto(i)) >= r}
<1>1. IsFiniteSet(S) /\ Cardinality(S) \in Nat /\ \A i \in S : Worth(rows[i]) \in Int
  BY RowsAre
<1>2. \A i \in S : /\ IsFiniteSet(upto(i)) /\ Cardinality(upto(i)) \in Nat
                   /\ IsFiniteSet(below(i)) /\ Cardinality(below(i)) \in Nat
  BY <1>1, FS_Subset, FS_CardinalityType
<1>3. S # {}
  BY <1>1, FS_EmptySet
<1>4. reach # {}
  <2>1. PICK m \in S : \A j \in S : Worth(rows[j]) <= Worth(rows[m])
    BY <1>3, LargestRow
  <2>2. upto(m) = S
    BY <2>1
  <2>3. QED
    BY <2>2
<1>5. PICK i \in reach : \A k \in reach : Cardinality(upto(i)) <= Cardinality(upto(k))
  <2> DEFINE counts == {Cardinality(upto(k)) : k \in reach}
  <2>1. counts \subseteq Nat /\ counts # {}
    BY <1>2, <1>4
  <2>2. PICK n \in counts : \A k \in counts : n <= k
    BY <2>1, LeastNumber
  <2>3. QED
    BY <2>2
<1>6. Cardinality(below(i)) < r
  <2>0. i \in S /\ Cardinality(upto(i)) \in Nat
    BY <1>2
  <2>1. SUFFICES ASSUME Cardinality(below(i)) >= r PROVE FALSE
    <3>1. Cardinality(below(i)) \in Nat
      BY <1>2
    <3> HIDE DEF below
    <3>2. QED
      BY <3>1
  <2>2. below(i) # {} /\ below(i) \subseteq DOMAIN rows
    <3>1. below(i) \subseteq DOMAIN rows
      OBVIOUS
    <3> HIDE DEF below
    <3>2. below(i) # {}
      <4>1. ASSUME below(i) = {} PROVE FALSE
        <5>1. Cardinality(below(i)) = 0
          BY <4>1, FS_EmptySet
        <5>2. QED
          BY <2>1, <5>1
      <4>2. QED
        BY <4>1
    <3>3. QED
      BY <3>1, <3>2
  <2>3. PICK k \in below(i) : \A j \in below(i) : Worth(rows[j]) <= Worth(rows[k])
    <3> HIDE DEF below
    <3>1. QED
      BY <2>2, LargestRow
  <2>4. k \in S /\ Worth(rows[k]) < Worth(rows[i])
    OBVIOUS
  <2>5. upto(k) = below(i)
    BY <1>1, <2>3, <2>4
  <2>6. k \in reach
    BY <2>1, <2>4, <2>5
  <2>7. upto(k) \subseteq upto(i) /\ i \in upto(i) /\ i \notin upto(k)
    BY <1>1, <2>4
  <2>8. Cardinality(upto(i)) <= Cardinality(upto(k))
    BY <1>5, <2>6
  <2> HIDE DEF upto
  <2>9. Cardinality(upto(k)) <= Cardinality(upto(i)) /\ Cardinality(upto(k)) # Cardinality(upto(i))
    BY <1>2, <2>7, FS_Subset
  <2>10. Cardinality(upto(k)) \in Nat
    BY <1>2, <2>4
  <2>11. QED
    BY <2>0, <2>8, <2>9, <2>10
<1>7. \E i2 \in S : /\ Cardinality({j \in S : Worth(rows[j]) < Worth(rows[i2])}) < r
                    /\ Cardinality({j \in S : Worth(rows[j]) <= Worth(rows[i2])}) >= r
  BY <1>5, <1>6
<1>8. QED
  BY <1>7 DEF Ranked

\* Among whole hundredths a quartile is a whole number of them.
LEMMA QuartileIs ==
    ASSUME NEW rows \in Seq(RowType), Hundredths(rows), NEW S, S \subseteq DOMAIN rows, S # {},
           NEW k \in {1, 3}
    PROVE  Quartile(rows, S, k) \in Int /\ Quartile(rows, S, k) % 100 = 0
<1> DEFINE N == Cardinality(S)
           steps == (N - 1) * k
           low == steps \div 4 + 1
           Whole(x) == x \in Int /\ x % 100 = 0
<1>1. N \in Nat /\ N >= 1
  BY RowsAre, FS_EmptySet
<1>2. \A i \in S : Whole(Worth(rows[i]))
  BY RowsAre DEF Hundredths
<1>3. steps \in Nat /\ low \in Nat /\ 1 <= low /\ low <= N /\ steps % 4 \in 0..3
  <2> HIDE DEF N
  <2>1. CASE k = 1
    BY <1>1, <2>1
  <2>2. CASE k = 3
    BY <1>1, <2>2
  <2>3. QED
    BY <2>1, <2>2
<1>4. steps % 4 # 0 => low + 1 <= N
  <2> HIDE DEF N
  <2>1. CASE k = 1
    BY <1>1, <2>1
  <2>2. CASE k = 3
    BY <1>1, <2>2
  <2>3. QED
    BY <2>1, <2>2
<1> HIDE DEF N, low, steps
<1>5. Whole(Ranked(rows, S, low))
  <2>1. \E i \in S : Ranked(rows, S, low) = Worth(rows[i])
    BY <1>3, RankedIs DEF N
  <2>2. QED
    BY <1>2, <2>1
<1>6. steps % 4 # 0 => Whole(Ranked(rows, S, low + 1))
  <2>1. SUFFICES ASSUME steps % 4 # 0 PROVE Whole(Ranked(rows, S, low + 1))
    OBVIOUS
  <2>2. \E i \in S : Ranked(rows, S, low + 1) = Worth(rows[i])
    BY <1>3, <1>4, <2>1, RankedIs DEF N
  <2>3. QED
    BY <1>2, <2>2
<1>7. Quartile(rows, S, k) =
        IF steps % 4 = 0 THEN 4 * Ranked(rows, S, low)
        ELSE Ranked(rows, S, low) * (4 - (steps % 4)) + Ranked(rows, S, low + 1) * (steps % 4)
  BY DEF Quartile, N, steps, low
<1>8. ASSUME NEW x, Whole(x), NEW y, Whole(y)
      PROVE  /\ Whole(4 * x) /\ Whole(x * (4 - 1) + y * 1)
             /\ Whole(x * (4 - 2) + y * 2) /\ Whole(x * (4 - 3) + y * 3)
  BY <1>8
<1>9. CASE steps % 4 = 0
  BY <1>5, <1>7, <1>8, <1>9
<1>10. CASE steps % 4 = 1
  BY <1>5, <1>6, <1>7, <1>8, <1>10
<1>11. CASE steps % 4 = 2
  BY <1>5, <1>6, <1>7, <1>8, <1>11
<1>12. CASE steps % 4 = 3
  BY <1>5, <1>6, <1>7, <1>8, <1>12
<1>13. QED
  BY <1>3, <1>9, <1>10, <1>11, <1>12

-----------------------------------------------------------------------------
(***************************************************************************)
(* The screening against the analysis.  With whole hundredths nothing is   *)
(* rounded, and where names and dates are written in one way the two group *)
(* the same rows.                                                          *)
(***************************************************************************)
LEMMA RoundedIs ==
    ASSUME NEW q \in Int, q % 100 = 0
    PROVE  Rounded(q) \in Int /\ 4 * Rounded(q) = q /\ Rounded(q) % 25 = 0
<1>1. PICK m \in Int : q = 100 * m
  BY Z3
<1>2. q \div 4 = 25 * m /\ q % 4 = 0
  BY <1>1
<1>3. Rounded(q) = 25 * m
  BY <1>2 DEF Rounded
<1>4. QED
  BY <1>1, <1>3

\* More than half of a number that is no neighbour of twice the amount.
LEMMA HalvedIs ==
    ASSUME NEW w \in Int, w % 100 = 0, NEW p \in Int, p % 25 = 0, NEW q \in Int, q % 25 = 0
    PROVE  w > Halved(2 * q + 3 * (q - p)) <=> 2 * w > 2 * q + 3 * (q - p)
<1>1. PICK a \in Int, b \in Int, c \in Int : w = 100 * a /\ p = 25 * b /\ q = 25 * c
  <2>1. PICK a \in Int : w = 100 * a
    BY Z3
  <2>2. PICK b \in Int : p = 25 * b
    BY Z3
  <2>3. PICK c \in Int : q = 25 * c
    BY Z3
  <2>4. QED
    BY <2>1, <2>2, <2>3
<1> DEFINE n == 2 * q + 3 * (q - p)
<1>2. n \in Int /\ n = 25 * (5 * c - 3 * b)
  BY <1>1
<1> HIDE DEF n
<1>3. CASE n >= 0
  <2>1. Halved(n) = n \div 2
    BY <1>3 DEF Halved
  <2>2. w > n \div 2 <=> 2 * w > n
    BY <1>2, <1>3
  <2>3. QED
    BY <2>1, <2>2 DEF n
<1>4. CASE n < 0
  <2>1. Halved(n) = -((-n) \div 2)
    BY <1>2, <1>4 DEF Halved
  <2>2. w > -((-n) \div 2) <=> 2 * w > n
    <3> DEFINE d == (-n) \div 2
    <3>1. d \in Int /\ (-n = 2 * d \/ -n = 2 * d + 1)
      BY <1>2
    <3> HIDE DEF d
    <3>2. 2 * w # n + 1
      BY <1>1, <1>2
    <3>3. w > -d <=> 2 * w > n
      BY <1>2, <3>1, <3>2
    <3>4. QED
      BY <3>3 DEF d
  <2>3. QED
    BY <2>1, <2>2 DEF n
<1>5. QED
  BY <1>2, <1>3, <1>4

LEMMA FiniteIs ==
    ASSUME NEW rows \in Seq(RowType), Finite(rows)
    PROVE  /\ FloatRows(rows) = DecimalRows(rows)
           /\ DecimalRows(rows) \subseteq DOMAIN rows
  BY DEF Finite, DecimalRows

LEMMA HighAgrees ==
    ASSUME NEW rows \in Seq(RowType), Finite(rows), Hundredths(rows)
    PROVE  ScreenedHigh(rows) = AmountOutliers(rows)
<1> DEFINE S == DecimalRows(rows)
           q1 == Quartile(rows, S, 1)
           q3 == Quartile(rows, S, 3)
<1>1. FloatRows(rows) = S /\ S \subseteq DOMAIN rows
  BY FiniteIs
<1>2. CASE Cardinality(S) < 4
  BY <1>1, <1>2 DEF ScreenedHigh, AmountOutliers
<1>3. CASE ~(Cardinality(S) < 4)
  <2>1. S # {}
    BY <1>3, FS_EmptySet
  <2>2. q1 \in Int /\ q1 % 100 = 0 /\ q3 \in Int /\ q3 % 100 = 0
    BY <1>1, <2>1, QuartileIs
  <2> DEFINE r1 == Rounded(q1)
             r3 == Rounded(q3)
  <2>3. /\ r1 \in Int /\ 4 * r1 = q1 /\ r1 % 25 = 0
        /\ r3 \in Int /\ 4 * r3 = q3 /\ r3 % 25 = 0
    <3> HIDE DEF q1, q3
    <3>1. QED
      BY <2>2, RoundedIs
  <2>4. AmountOutliers(rows) = {i \in S : 8 * Worth(rows[i]) > 2 * q3 + 3 * (q3 - q1)}
    BY <1>1, <1>3 DEF AmountOutliers
  <2>5. ScreenedHigh(rows) = {i \in S : Worth(rows[i]) > Halved(2 * r3 + 3 * (r3 - r1))}
    BY <1>3 DEF ScreenedHigh
  <2>6. ASSUME NEW i \in S
        PROVE  8 * Worth(rows[i]) > 2 * q3 + 3 * (q3 - q1)
                 <=> Worth(rows[i]) > Halved(2 * r3 + 3 * (r3 - r1))
    <3>1. i \in DOMAIN rows
      BY <1>1
    <3>2. Worth(rows[i]) \in Int /\ Worth(rows[i]) % 100 = 0
      BY <3>1, RowsAre DEF Hundredths
    <3> DEFINE w == Worth(rows[i])
    <3> HIDE DEF w, r1, r3, q1, q3
    <3>3. w > Halved(2 * r3 + 3 * (r3 - r1)) <=> 2 * w > 2 * r3 + 3 * (r3 - r1)
      BY <2>3, <3>2, HalvedIs DEF w
    <3>4. 8 * w > 2 * q3 + 3 * (q3 - q1) <=> 2 * w > 2 * r3 + 3 * (r3 - r1)
      BY <2>3, <3>2 DEF w
    <3>5. QED
      BY <3>3, <3>4 DEF w
  <2>7. QED
    <3> HIDE DEF r1, r3, q1, q3, S
    <3>1. QED
      BY <2>4, <2>5, <2>6
<1>4. QED
  BY <1>2, <1>3

LEMMA InvoicesAgree ==
    ASSUME NEW rows \in Seq(RowType), Finite(rows)
    PROVE  ScreenedInvoices(rows) = DuplicateInvoices(rows)
  BY FiniteIs DEF ScreenedInvoices, DuplicateInvoices

\* Two rows with one key have one name, and where capitals are not used two with one name
\* have one key.
LEMMA KeysAre ==
    ASSUME NEW rows \in Seq(RowType), NoneMissing(rows), NEW i \in DOMAIN rows, NEW j \in DOMAIN rows
    PROVE  /\ Lower(Key(rows[i])) = Lower(Key(rows[j])) => Lower(rows[i].supplier) = Lower(rows[j].supplier)
           /\ Key(rows[i]) = Key(rows[j]) => rows[i].supplier = rows[j].supplier
           /\ (Uniform(rows) /\ Lower(rows[i].supplier) = Lower(rows[j].supplier)) =>
                 rows[i].supplier = rows[j].supplier /\ Key(rows[i]) = Key(rows[j])
<1>1. rows[i].supplier \in NameType /\ rows[j].supplier \in NameType
  BY RowsAre DEF RowType
<1>2. /\ Lower(rows[i].supplier) # Lower(MissingKey)
      /\ Lower(rows[j].supplier) # Lower(MissingKey)
  BY DEF NoneMissing
<1>3. Uniform(rows) => ~rows[i].supplier.capital /\ ~rows[j].supplier.capital
  BY DEF Uniform
<1>4. (Uniform(rows) /\ Lower(rows[i].supplier) = Lower(rows[j].supplier)) =>
        rows[i].supplier = rows[j].supplier
  BY <1>1, <1>3 DEF NameType, Lower
<1>5. QED
  BY <1>2, <1>4 DEF Key

LEMMA RepeatsAgree ==
    ASSUME NEW rows \in Seq(RowType), Finite(rows), NoneMissing(rows)
    PROVE  /\ RepeatedTransactions(rows) \subseteq ScreenedRepeats(rows)
           /\ Uniform(rows) => ScreenedRepeats(rows) = RepeatedTransactions(rows)
<1> DEFINE S == DecimalRows(rows)
           print == [i \in S |-> <<Lower(Key(rows[i])), rows[i].date.day, rows[i].date.clock,
                                   Worth(rows[i])>>]
<1>1. FloatRows(rows) = S /\ S \subseteq DOMAIN rows
  BY FiniteIs
<1>2. RepeatedTransactions(rows) =
        {i \in S : rows[i].date.day # NoDay /\ \E j \in S \ {i} : print[j] = print[i]}
  BY <1>1 DEF RepeatedTransactions
<1>3. ASSUME NEW i \in RepeatedTransactions(rows)
      PROVE  i \in ScreenedRepeats(rows)
  <2>1. PICK j \in S \ {i} : print[j] = print[i]
    BY <1>2
  <2>2. i \in S /\ rows[i].date.day # NoDay
    BY <1>2
  <2>3. /\ Lower(Key(rows[j])) = Lower(Key(rows[i])) /\ rows[j].date.day = rows[i].date.day
        /\ Worth(rows[j]) = Worth(rows[i])
    BY <2>1, <2>2
  <2>4. Lower(rows[i].supplier) = Lower(rows[j].supplier)
    BY <1>1, <2>2, <2>3, KeysAre
  <2>5. QED
    BY <2>2, <2>3, <2>4 DEF ScreenedRepeats, SameDay
<1>4. ASSUME Uniform(rows), NEW i \in ScreenedRepeats(rows)
      PROVE  i \in RepeatedTransactions(rows)
  <2>1. i \in S /\ rows[i].date.day # NoDay
    BY DEF ScreenedRepeats
  <2>2. PICK j \in S \ {i} : SameDay(rows, i, j) /\ Worth(rows[i]) = Worth(rows[j])
    BY DEF ScreenedRepeats
  <2>3. Key(rows[i]) = Key(rows[j])
    BY <1>1, <1>4, <2>1, <2>2, KeysAre DEF SameDay
  <2>4. rows[i].date.clock = FALSE /\ rows[j].date.clock = FALSE
    <3>1. rows[i].date.clock \in BOOLEAN /\ rows[j].date.clock \in BOOLEAN
      BY <1>1, <2>1, <2>2, RowsAre DEF RowType
    <3>2. QED
      BY <1>1, <1>4, <2>1, <2>2, <3>1 DEF Uniform
  <2>5. print[j] = print[i]
    BY <2>1, <2>2, <2>3, <2>4 DEF SameDay
  <2>6. QED
    BY <1>2, <2>1, <2>5
<1>5. QED
  BY <1>3, <1>4

LEMMA SplitsAgree ==
    ASSUME NEW rows \in Seq(RowType), Finite(rows), NoneMissing(rows), Uniform(rows), Hundredths(rows)
    PROVE  Positive(rows, SplitPurchases(rows)) \subseteq ScreenedSplits(rows)
<1> DEFINE S == DecimalRows(rows)
           dated == {i \in Positive(rows, S) : rows[i].date.day # NoDay}
           analysed(i) == {j \in S : /\ Key(rows[j]) = Key(rows[i])
                                     /\ rows[j].date.day = rows[i].date.day
                                     /\ rows[j].date.clock = rows[i].date.clock}
           screened(i) == {j \in dated : SameDay(rows, i, j)}
           bound == IF Cardinality(S) < 4 THEN 0 ELSE Rounded(Quartile(rows, S, 3))
<1>1. FloatRows(rows) = S /\ S \subseteq DOMAIN rows
  BY FiniteIs
<1>2. ASSUME NEW i \in Positive(rows, SplitPurchases(rows))
      PROVE  i \in ScreenedSplits(rows)
  <2> DEFINE P == Positive(rows, analysed(i))
             sum == Sum(rows, P).n
  <2>1. /\ i \in S /\ rows[i].date.day # NoDay /\ Worth(rows[i]) > 0
        /\ Cardinality(P) >= 3 /\ Similar(rows, P) /\ 2 * sum >= Quartile(rows, S, 3)
    BY <1>1 DEF Positive, SplitPurchases
  <2>2. i \in dated
    BY <2>1 DEF Positive
  <2>3. screened(i) = P
    <3>1. ASSUME NEW j \in S
          PROVE  /\ Key(rows[j]) = Key(rows[i]) <=> Lower(rows[i].supplier) = Lower(rows[j].supplier)
                 /\ rows[j].date.clock = rows[i].date.clock
      <4>1. rows[i].date.clock \in BOOLEAN /\ rows[j].date.clock \in BOOLEAN
        BY <1>1, <2>1, RowsAre DEF RowType
      <4>2. rows[j].date.clock = rows[i].date.clock
        BY <1>1, <2>1, <4>1 DEF Uniform
      <4>3. QED
        BY <1>1, <2>1, <4>2, KeysAre
    <3>2. QED
      BY <2>1, <3>1 DEF SameDay, Positive
  <2>4. S # {} /\ P \subseteq S
    BY <2>1 DEF Positive
  <2>5. sum \in Int
    BY <2>4, SumIs
  <2>6. Quartile(rows, S, 3) \in Int /\ Quartile(rows, S, 3) % 100 = 0
    BY <1>1, <2>4, QuartileIs
  <2>7. sum >= 2 * bound
    <3>1. CASE Cardinality(S) < 4
      <4>1. sum >= 0
        <5>1. \A j \in P : Worth(rows[j]) >= 0
          <6>1. \A j \in P : j \in DOMAIN rows /\ Worth(rows[j]) > 0
            BY <1>1, <2>4 DEF Positive
          <6>2. \A j \in DOMAIN rows : Worth(rows[j]) \in Int
            BY RowsAre
          <6> HIDE DEF P
          <6>3. QED
            BY <6>1, <6>2
        <5>2. QED
          BY <2>4, <5>1, SumIs
      <4>2. QED
        BY <2>5, <3>1, <4>1
    <3>2. CASE ~(Cardinality(S) < 4)
      <4>1. /\ Rounded(Quartile(rows, S, 3)) \in Int
            /\ 4 * Rounded(Quartile(rows, S, 3)) = Quartile(rows, S, 3)
        BY <2>6, RoundedIs
      <4> HIDE DEF sum
      <4>2. QED
        BY <2>1, <2>5, <3>2, <4>1
    <3>3. QED
      BY <3>1, <3>2
  <2>8. QED
    BY <2>1, <2>2, <2>3, <2>7 DEF ScreenedSplits
<1>3. QED
  BY <1>2

-----------------------------------------------------------------------------
(***************************************************************************)
(* The stored figures and what reads the file after them.  FiguresInv says *)
(* of which rows each record tells: the file is the same as long as its    *)
(* stamp is.                                                               *)
(***************************************************************************)
\* An analysis that was stored before the file f with the stamp s, or of it.
SoundAnalysis(a, f, s) ==
    \/ a = NotRun
    \/ /\ a = [status |-> "saved", figures |-> AnalysedFigures(a.rows), rows |-> a.rows,
               stamp |-> a.stamp]
       /\ a.rows \in Seq(RowType) /\ a.stamp \in Nat /\ a.stamp <= s
       /\ a.stamp = s => a.rows = f

SoundScan ==
    \/ scan = NotScanning
    \/ /\ scan = [of |-> scan.of, seen |-> scan.seen, rows |-> scan.rows, against |-> scan.against]
       /\ scan.of \in {"audit", "overview"} /\ scan.seen \in Nat /\ scan.seen <= stamp
       /\ scan.rows \in Seq(RowType) /\ SoundAnalysis(scan.against, file, stamp)
       /\ scan.of = "audit" => scan.against # NotRun
       /\ scan.seen = stamp =>
            Len(scan.rows) <= Len(file) /\ \A i \in 1..Len(scan.rows) : scan.rows[i] = file[i]

\* Two records of the same stamp tell of the same rows.
SoundReport(of) ==
    LET r == report[of]
    IN  \/ r = NotRun
        \/ /\ r = [status |-> r.status, stamp |-> r.stamp, rows |-> r.rows, against |-> r.against]
           /\ r.status \in {"failed", "completed", "verified", "mismatch", "skipped"}
           /\ r.stamp \in Nat /\ r.stamp <= stamp /\ SoundAnalysis(r.against, file, stamp)
           /\ of = "audit" => r.status # "completed"
           /\ of = "overview" => r.status \in {"failed", "completed"}
           /\ r.status \in {"completed", "verified", "mismatch"} =>
                /\ r.rows \in Seq(RowType)
                /\ r.stamp = stamp => r.rows = file
                /\ (saved # NotRun /\ r.stamp = saved.stamp) => r.rows = saved.rows
           /\ r.status = "verified" =>
                r.against # NotRun /\ Fits(StreamedFigures(r.rows), r.against.figures)
           /\ r.status = "mismatch" =>
                r.against # NotRun /\ ~Fits(StreamedFigures(r.rows), r.against.figures)

SoundPoints ==
    \/ points = [tool |-> "none"]
    \/ \E rows \in Seq(RowType) :
         /\ points = [tool |-> points.tool, groups |-> ToolGroups(rows, points.tool),
                      stamp |-> points.stamp]
         /\ points.tool \in {"suppliers", "months"}
         /\ saved # NotRun /\ points.stamp \in Nat /\ points.stamp <= stamp
         /\ points.stamp = stamp => rows = file
         /\ points.stamp = saved.stamp => rows = saved.rows

FiguresInv ==
    /\ file \in Seq(RowType) /\ stamp \in Nat
    /\ SoundAnalysis(saved, file, stamp) /\ SoundScan
    /\ report = [of \in {"audit", "overview"} |-> report[of]]
    /\ \A of \in {"audit", "overview"} : SoundReport(of)
    /\ SoundPoints

LEMMA FiguresStart == FiguresInit => FiguresInv
<1> SUFFICES ASSUME FiguresInit PROVE FiguresInv
  OBVIOUS
<1>1. file \in Seq(RowType) /\ stamp \in Nat /\ saved = NotRun /\ scan = NotScanning
  BY FiguresAssumption DEF FiguresInit
<1>2. report = [of \in {"audit", "overview"} |-> NotRun] /\ points = [tool |-> "none"]
  BY DEF FiguresInit
<1>3. QED
  BY <1>1, <1>2 DEF FiguresInv, SoundAnalysis, SoundScan, SoundReport, SoundPoints

LEMMA AnalyseKeeps == ASSUME FiguresInv, Analyse PROVE FiguresInv'
<1>1. /\ saved' = [status |-> "saved", figures |-> AnalysedFigures(file), rows |-> file, stamp |-> stamp]
      /\ UNCHANGED <<file, stamp, scan, report, points>>
  BY DEF Analyse
<1>2. saved' # NotRun /\ saved'.stamp = stamp /\ saved'.rows = file
  BY <1>1 DEF NotRun
<1>3. SoundAnalysis(saved', file', stamp')
  BY <1>1, <1>2 DEF FiguresInv, SoundAnalysis
<1>4. SoundScan'
  BY <1>1 DEF FiguresInv, SoundScan
<1>5. ASSUME NEW of \in {"audit", "overview"}
      PROVE  SoundReport(of)'
  <2>1. SoundReport(of)
    BY DEF FiguresInv
  <2>2. QED
    BY <1>1, <1>2, <2>1 DEF SoundReport
<1>6. SoundPoints'
  <2>1. CASE points = [tool |-> "none"]
    BY <1>1, <2>1 DEF SoundPoints
  <2>2. CASE points # [tool |-> "none"]
    <3>1. PICK rows \in Seq(RowType) :
             /\ points = [tool |-> points.tool, groups |-> ToolGroups(rows, points.tool),
                          stamp |-> points.stamp]
             /\ points.tool \in {"suppliers", "months"}
             /\ saved # NotRun /\ points.stamp \in Nat /\ points.stamp <= stamp
             /\ points.stamp = stamp => rows = file
             /\ points.stamp = saved.stamp => rows = saved.rows
      BY <2>2 DEF FiguresInv, SoundPoints
    <3>2. QED
      BY <1>1, <1>2, <3>1 DEF SoundPoints
  <2>3. QED
    BY <2>1, <2>2
<1>7. QED
  BY <1>1, <1>3, <1>4, <1>5, <1>6 DEF FiguresInv

LEMMA EditKeeps == ASSUME FiguresInv, Edit PROVE FiguresInv'
<1>1. stamp \in Nat /\ stamp' = stamp + 1 /\ UNCHANGED <<saved, scan, report, points>>
  BY DEF Edit, FiguresInv
<1>2. file' \in Seq(RowType)
  <2>1. file \in Seq(RowType) /\ Entries \subseteq RowType
    BY FiguresAssumption DEF FiguresInv
  <2>2. CASE \E i \in DOMAIN file, e \in Entries : file' = [file EXCEPT ![i] = e]
    <3>1. PICK i \in DOMAIN file, e \in Entries : file' = [file EXCEPT ![i] = e]
      BY <2>2
    <3>2. e \in RowType /\ i \in 1..Len(file)
      BY <2>1, <3>1
    <3>3. QED
      BY <2>1, <3>1, <3>2, ExceptSeq
  <2>3. CASE \E e \in Entries : file' = Append(file, e)
    BY <2>1, <2>3
  <2>4. CASE file' = SubSeq(file, 1, Len(file) - 1)
    BY <2>1, <2>4
  <2>5. QED
    BY <2>2, <2>3, <2>4 DEF Edit
<1>3. ASSUME NEW a, SoundAnalysis(a, file, stamp)
      PROVE  SoundAnalysis(a, file', stamp')
  BY <1>1, <1>3 DEF SoundAnalysis
<1>4. SoundAnalysis(saved', file', stamp')
  BY <1>1, <1>3 DEF FiguresInv
<1>5. SoundScan'
  <2>1. CASE scan = NotScanning
    BY <1>1, <2>1 DEF SoundScan
  <2>2. CASE scan # NotScanning
    <3>1. /\ scan = [of |-> scan.of, seen |-> scan.seen, rows |-> scan.rows, against |-> scan.against]
          /\ scan.of \in {"audit", "overview"} /\ scan.seen \in Nat /\ scan.seen <= stamp
          /\ scan.rows \in Seq(RowType) /\ SoundAnalysis(scan.against, file, stamp)
          /\ scan.of = "audit" => scan.against # NotRun
      BY <2>2 DEF FiguresInv, SoundScan
    <3>2. SoundAnalysis(scan.against, file', stamp')
      BY <1>3, <3>1
    <3>3. scan.seen <= stamp' /\ scan.seen # stamp'
      BY <1>1, <3>1
    <3>4. QED
      BY <1>1, <3>1, <3>2, <3>3 DEF SoundScan
  <2>3. QED
    BY <2>1, <2>2
<1>6. ASSUME NEW of \in {"audit", "overview"}
      PROVE  SoundReport(of)'
  <2>1. SoundReport(of)
    BY DEF FiguresInv
  <2>2. CASE report[of] = NotRun
    BY <1>1, <2>2 DEF SoundReport
  <2>3. CASE report[of] # NotRun
    <3>1. report[of].stamp \in Nat /\ report[of].stamp <= stamp /\ SoundAnalysis(report[of].against, file, stamp)
      BY <2>1, <2>3 DEF SoundReport
    <3>2. SoundAnalysis(report[of].against, file', stamp')
      BY <1>3, <3>1
    <3>3. report[of].stamp <= stamp' /\ report[of].stamp # stamp'
      BY <1>1, <3>1
    <3>4. QED
      BY <1>1, <2>1, <2>3, <3>2, <3>3 DEF SoundReport
  <2>4. QED
    BY <2>2, <2>3
<1>7. SoundPoints'
  <2>1. CASE points = [tool |-> "none"]
    BY <1>1, <2>1 DEF SoundPoints
  <2>2. CASE points # [tool |-> "none"]
    <3>1. PICK rows \in Seq(RowType) :
             /\ points = [tool |-> points.tool, groups |-> ToolGroups(rows, points.tool),
                          stamp |-> points.stamp]
             /\ points.tool \in {"suppliers", "months"}
             /\ saved # NotRun /\ points.stamp \in Nat /\ points.stamp <= stamp
             /\ points.stamp = stamp => rows = file
             /\ points.stamp = saved.stamp => rows = saved.rows
      BY <2>2 DEF FiguresInv, SoundPoints
    <3>2. points.stamp <= stamp' /\ points.stamp # stamp'
      BY <1>1, <3>1
    <3>3. QED
      BY <1>1, <3>1, <3>2 DEF SoundPoints
  <2>3. QED
    BY <2>1, <2>2
<1>8. stamp' \in Nat /\ report' = [of \in {"audit", "overview"} |-> report'[of]]
  BY <1>1 DEF FiguresInv
<1>9. QED
  BY <1>2, <1>4, <1>5, <1>6, <1>7, <1>8 DEF FiguresInv

\* What touches only a scan keeps the rest.
LEMMA OthersKept ==
    ASSUME FiguresInv, UNCHANGED <<file, stamp, saved, report, points>>, SoundScan'
    PROVE  FiguresInv'
<1>1. SoundAnalysis(saved, file, stamp)'
  BY DEF FiguresInv, SoundAnalysis
<1>2. \A of \in {"audit", "overview"} : SoundReport(of)'
  BY DEF FiguresInv, SoundReport, SoundAnalysis
<1>3. SoundPoints'
  BY DEF FiguresInv, SoundPoints
<1>4. QED
  BY <1>1, <1>2, <1>3 DEF FiguresInv

LEMMA BeginScanKeeps ==
    ASSUME FiguresInv, NEW of \in {"audit", "overview"}, BeginScan(of)
    PROVE  FiguresInv'
<1>1. /\ scan' = [of |-> of, seen |-> stamp, rows |-> <<>>, against |-> saved]
      /\ UNCHANGED <<file, stamp, saved, report, points>> /\ (of = "audit" => saved # NotRun)
  BY DEF BeginScan
<1>2. SoundScan'
  <2>1. file \in Seq(RowType) /\ stamp \in Nat /\ SoundAnalysis(saved, file, stamp)
    BY DEF FiguresInv
  <2>2. Len(<<>>) = 0 /\ <<>> \in Seq(RowType) /\ Len(file) \in Nat
    BY <2>1
  <2>3. /\ scan'.of = of /\ scan'.seen = stamp /\ scan'.rows = <<>> /\ scan'.against = saved
        /\ scan' = [of |-> scan'.of, seen |-> scan'.seen, rows |-> scan'.rows, against |-> scan'.against]
    BY <1>1
  <2>4. SoundAnalysis(scan'.against, file', stamp')
    BY <1>1, <2>1, <2>3
  <2>5. Len(scan'.rows) <= Len(file) /\ \A i \in 1..Len(scan'.rows) : scan'.rows[i] = file[i]
    BY <2>2, <2>3
  <2>6. QED
    BY <1>1, <2>1, <2>2, <2>3, <2>4, <2>5 DEF SoundScan
<1>3. QED
  BY <1>1, <1>2, OthersKept

LEMMA ReadEntryKeeps == ASSUME FiguresInv, ReadEntry PROVE FiguresInv'
<1>1. /\ scan # NotScanning /\ Len(scan.rows) < Len(file)
      /\ scan' = [scan EXCEPT !.rows = Append(@, file[Len(@) + 1])]
      /\ UNCHANGED <<file, stamp, saved, report, points>>
  BY DEF ReadEntry
<1>2. SoundScan'
  <2>1. /\ scan = [of |-> scan.of, seen |-> scan.seen, rows |-> scan.rows, against |-> scan.against]
        /\ scan.of \in {"audit", "overview"} /\ scan.seen \in Nat /\ scan.seen <= stamp
        /\ scan.rows \in Seq(RowType) /\ SoundAnalysis(scan.against, file, stamp)
        /\ scan.of = "audit" => scan.against # NotRun
        /\ scan.seen = stamp =>
             Len(scan.rows) <= Len(file) /\ \A i \in 1..Len(scan.rows) : scan.rows[i] = file[i]
    BY <1>1 DEF FiguresInv, SoundScan
  <2> DEFINE new == Append(scan.rows, file[Len(scan.rows) + 1])
  <2>2. file \in Seq(RowType)
    BY DEF FiguresInv
  <2>3. file[Len(scan.rows) + 1] \in RowType /\ Len(scan.rows) \in Nat
    BY <1>1, <2>1, <2>2
  <2>4. /\ new \in Seq(RowType) /\ Len(new) = Len(scan.rows) + 1
        /\ \A i \in 1..Len(scan.rows) : new[i] = scan.rows[i]
        /\ new[Len(scan.rows) + 1] = file[Len(scan.rows) + 1]
    BY <2>1, <2>3
  <2> HIDE DEF new
  <2>5. scan' = [of |-> scan.of, seen |-> scan.seen, rows |-> new, against |-> scan.against]
    BY <1>1, <2>1 DEF new
  <2>6. scan.seen = stamp => Len(new) <= Len(file) /\ \A i \in 1..Len(new) : new[i] = file[i]
    <3>1. SUFFICES ASSUME scan.seen = stamp
                   PROVE  Len(new) <= Len(file) /\ \A i \in 1..Len(new) : new[i] = file[i]
      OBVIOUS
    <3>2. Len(new) <= Len(file)
      BY <1>1, <2>2, <2>3, <2>4
    <3>3. \A i \in 1..Len(new) : i \in 1..Len(scan.rows) \/ i = Len(scan.rows) + 1
      BY <2>3, <2>4
    <3>4. QED
      BY <2>1, <2>4, <3>1, <3>2, <3>3
  <2>7. SoundAnalysis(scan.against, file', stamp')
    BY <1>1, <2>1
  <2>8. /\ scan'.of = scan.of /\ scan'.seen = scan.seen /\ scan'.rows = new
        /\ scan'.against = scan.against
        /\ scan' = [of |-> scan'.of, seen |-> scan'.seen, rows |-> scan'.rows, against |-> scan'.against]
    BY <2>5
  <2>9. scan'.seen = stamp' =>
          Len(scan'.rows) <= Len(file') /\ \A i \in 1..Len(scan'.rows) : scan'.rows[i] = file'[i]
    BY <1>1, <2>6, <2>8
  <2>10. scan'.rows \in Seq(RowType) /\ scan'.seen <= stamp'
    BY <1>1, <2>1, <2>4, <2>8
  <2>11. QED
    BY <2>1, <2>7, <2>8, <2>9, <2>10 DEF SoundScan
<1>3. QED
  BY <1>1, <1>2, OthersKept

\* A report that is sound and the end of its scan.
LEMMA ReportsKeep ==
    ASSUME FiguresInv, scan # NotScanning,
           NEW status \in {"failed", "completed", "verified", "mismatch", "skipped"},
           Reports(status),
           scan.of = "audit" => status # "completed",
           scan.of = "overview" => status \in {"failed", "completed"},
           status \in {"completed", "verified", "mismatch"} =>
              scan.rows \in Seq(RowType) /\ scan.rows = file,
           status \in {"verified", "mismatch"} =>
              (status = "verified" <=> Fits(StreamedFigures(scan.rows), scan.against.figures))
    PROVE  FiguresInv'
<1>1. /\ report' = [report EXCEPT ![scan.of] =
                      [status |-> status, stamp |-> stamp, rows |-> scan.rows, against |-> scan.against]]
      /\ scan' = NotScanning /\ UNCHANGED <<file, stamp, saved, points>>
  BY DEF Reports
<1>2. /\ scan.of \in {"audit", "overview"} /\ SoundAnalysis(scan.against, file, stamp)
      /\ scan.of = "audit" => scan.against # NotRun
  BY DEF FiguresInv, SoundScan
<1>3. /\ file \in Seq(RowType) /\ stamp \in Nat /\ SoundAnalysis(saved, file, stamp)
      /\ report = [of \in {"audit", "overview"} |-> report[of]]
  BY DEF FiguresInv
<1>4. /\ report' = [of \in {"audit", "overview"} |-> report'[of]]
      /\ \A of \in {"audit", "overview"} :
           report'[of] = IF of = scan.of
                         THEN [status |-> status, stamp |-> stamp, rows |-> scan.rows, against |-> scan.against]
                         ELSE report[of]
  BY <1>1, <1>3
<1>5. ASSUME NEW of \in {"audit", "overview"}
      PROVE  SoundReport(of)'
  <2>1. CASE of # scan.of
    <3>1. SoundReport(of) /\ report'[of] = report[of]
      BY <1>4, <2>1 DEF FiguresInv
    <3>2. QED
      BY <1>1, <3>1 DEF SoundReport, SoundAnalysis
  <2>2. CASE of = scan.of
    <3> DEFINE r == report'[of]
    <3>1. r = [status |-> status, stamp |-> stamp, rows |-> scan.rows, against |-> scan.against]
      BY <1>4, <2>2
    <3> HIDE DEF r
    <3>2. /\ r = [status |-> r.status, stamp |-> r.stamp, rows |-> r.rows, against |-> r.against]
          /\ r.status = status /\ r.stamp = stamp /\ r.rows = scan.rows /\ r.against = scan.against
      BY <3>1
    <3>3. r.status \in {"completed", "verified", "mismatch"} =>
            /\ r.rows \in Seq(RowType) /\ r.rows = file
            /\ (saved # NotRun /\ r.stamp = saved.stamp) => r.rows = saved.rows
      BY <1>3, <3>2 DEF SoundAnalysis
    <3>4. r.status \in {"verified", "mismatch"} =>
            /\ r.against # NotRun
            /\ r.status = "verified" <=> Fits(StreamedFigures(r.rows), r.against.figures)
      BY <1>2, <2>2, <3>2
    <3>5. SoundAnalysis(r.against, file', stamp') /\ r.stamp \in Nat /\ r.stamp <= stamp'
      BY <1>1, <1>2, <1>3, <3>2
    <3>6. QED
      BY <1>1, <1>2, <2>2, <3>2, <3>3, <3>4, <3>5 DEF SoundReport, r
  <2>3. QED
    BY <2>1, <2>2
<1>6. SoundScan' /\ SoundPoints'
  BY <1>1 DEF FiguresInv, SoundScan, SoundPoints
<1>7. SoundAnalysis(saved, file, stamp)'
  BY <1>1, <1>3 DEF SoundAnalysis
<1>8. QED
  BY <1>1, <1>3, <1>4, <1>5, <1>6, <1>7 DEF FiguresInv

LEMMA EndScanKeeps == ASSUME FiguresInv, EndScan PROVE FiguresInv'
<1>1. /\ scan # NotScanning /\ Len(scan.rows) >= Len(file)
      /\ scan.of \in {"audit", "overview"} /\ scan.rows \in Seq(RowType) /\ file \in Seq(RowType)
      /\ scan.seen = stamp =>
           Len(scan.rows) <= Len(file) /\ \A i \in 1..Len(scan.rows) : scan.rows[i] = file[i]
  BY DEF EndScan, FiguresInv, SoundScan
<1>2. scan.seen = stamp => scan.rows = file
  <2>1. SUFFICES ASSUME scan.seen = stamp PROVE scan.rows = file
    OBVIOUS
  <2>2. Len(scan.rows) = Len(file)
    BY <1>1, <2>1
  <2>3. QED
    BY <1>1, <2>1, <2>2, SeqEqual
<1>3. CASE ~Unchanged(scan.seen)
  <2>1. Reports("failed")
    BY <1>3 DEF EndScan
  <2>2. QED
    BY <1>1, <2>1, ReportsKeep
<1>4. CASE Unchanged(scan.seen) /\ scan.of = "overview"
  <2>1. Reports("completed") /\ scan.rows = file
    BY <1>2, <1>4 DEF EndScan, Unchanged
  <2>2. QED
    BY <1>1, <1>4, <2>1, ReportsKeep
<1>5. CASE Unchanged(scan.seen) /\ scan.of = "audit"
  <2>1. scan.rows = file
    BY <1>2, <1>5 DEF Unchanged
  <2>2. CASE Fits(StreamedFigures(scan.rows), scan.against.figures)
    <3>1. Reports("verified")
      BY <1>5, <2>2 DEF EndScan
    <3>2. QED
      BY <1>1, <1>5, <2>1, <2>2, <3>1, ReportsKeep
  <2>3. CASE ~Fits(StreamedFigures(scan.rows), scan.against.figures)
    <3>1. Reports("mismatch")
      BY <1>5, <2>3 DEF EndScan
    <3>2. QED
      BY <1>1, <1>5, <2>1, <2>3, <3>1, ReportsKeep
  <2>4. QED
    BY <2>2, <2>3
<1>6. QED
  BY <1>1, <1>3, <1>4, <1>5

LEMMA LimitReachedKeeps == ASSUME FiguresInv, LimitReached PROVE FiguresInv'
<1>1. scan.of = "audit" /\ Reports("skipped")
  BY DEF LimitReached
<1>2. scan # NotScanning
  BY <1>1 DEF NotScanning
<1>3. QED
  BY <1>1, <1>2, ReportsKeep

LEMMA CalculateKeeps ==
    ASSUME FiguresInv, NEW tool \in {"suppliers", "months"}, Calculate(tool)
    PROVE  FiguresInv'
<1>1. /\ saved # NotRun /\ points' = [tool |-> tool, groups |-> ToolGroups(file, tool), stamp |-> stamp]
      /\ UNCHANGED <<file, stamp, saved, scan, report>>
  BY DEF Calculate
<1>2. SoundAnalysis(saved, file, stamp)' /\ SoundScan' /\ \A of \in {"audit", "overview"} : SoundReport(of)'
  BY <1>1 DEF FiguresInv, SoundAnalysis, SoundScan, SoundReport
<1>3. SoundPoints'
  <2>1. file \in Seq(RowType) /\ stamp \in Nat /\ SoundAnalysis(saved, file, stamp)
    BY DEF FiguresInv
  <2>2. /\ points'.tool = tool /\ points'.groups = ToolGroups(file, tool) /\ points'.stamp = stamp
        /\ points' = [tool |-> points'.tool, groups |-> ToolGroups(file, points'.tool), stamp |-> points'.stamp]
    BY <1>1
  <2>3. saved.stamp = stamp => saved.rows = file
    BY <1>1, <2>1 DEF SoundAnalysis
  <2>4. QED
    BY <1>1, <2>1, <2>2, <2>3 DEF SoundPoints
<1>4. QED
  BY <1>1, <1>2, <1>3 DEF FiguresInv

LEMMA FiguresNextKeeps == ASSUME FiguresInv, [FiguresNext]_figureVars PROVE FiguresInv'
<1>1. CASE UNCHANGED figureVars
  BY <1>1 DEF figureVars, FiguresInv, SoundAnalysis, SoundScan, SoundReport, SoundPoints
<1>2. CASE FiguresNext
  BY <1>2, AnalyseKeeps, EditKeeps, BeginScanKeeps, ReadEntryKeeps, EndScanKeeps,
     LimitReachedKeeps, CalculateKeeps DEF FiguresNext
<1>3. QED
  BY <1>1, <1>2

-----------------------------------------------------------------------------
(***************************************************************************)
(* What is reported of one set of rows agrees.                             *)
(***************************************************************************)

\* With finite amounts the audit adds up what the analysis adds up.
LEMMA FiguresFit ==
    ASSUME NEW rows \in Seq(RowType), Finite(rows)
    PROVE  /\ Fits(StreamedFigures(rows), AnalysedFigures(rows))
           /\ Unpadded(rows) => StreamedFigures(rows).months = AnalysedFigures(rows).months
<1>1. FloatRows(rows) = DecimalRows(rows)
  BY DEF Finite
<1>2. Fits(StreamedFigures(rows), AnalysedFigures(rows))
  BY <1>1 DEF Fits, StreamedFigures, AnalysedFigures
<1>3. Unpadded(rows) => Unstripped(rows) = Stripped(rows)
  BY DEF Unpadded, Unstripped, Stripped
<1>4. QED
  BY <1>1, <1>2, <1>3 DEF StreamedFigures, AnalysedFigures

\* A group that a calculation shows is one of the analysis.
LEMMA GroupsAgree ==
    ASSUME NEW rows \in Seq(RowType), Finite(rows)
    PROVE  /\ \A k \in DOMAIN ToolGroups(rows, "suppliers") :
                NoneMissing(rows) =>
                   ToolGroups(rows, "suppliers")[k] = AnalysedFigures(rows).suppliers[k]
           /\ \A k \in DOMAIN ToolGroups(rows, "months") :
                Unpadded(rows) =>
                   ToolGroups(rows, "months")[k] = AnalysedFigures(rows).months[k.day]
<1> DEFINE S == DecimalRows(rows)
           label(tool) == [i \in DOMAIN rows |-> IF tool = "suppliers" THEN rows[i].supplier
                                                 ELSE On(Unstripped(rows)[i], FALSE, FALSE)]
           shown(tool) == {i \in S : label(tool)[i] \notin {BlankName, On(NoDay, FALSE, FALSE)}}
<1>1. FloatRows(rows) = S /\ S \subseteq DOMAIN rows
  BY FiniteIs
<1>2. ASSUME NEW tool \in {"suppliers", "months"}, NEW k \in DOMAIN ToolGroups(rows, tool)
      PROVE  /\ k \in {label(tool)[i] : i \in shown(tool)}
             /\ ToolGroups(rows, tool)[k] = Sum(rows, {i \in shown(tool) : label(tool)[i] = k})
  <2> DEFINE lab == label(tool)
             visible == shown(tool)
             large == {c \in {lab[i] : i \in visible} : Cardinality({i \in visible : lab[i] = c}) >= 2}
  <2>1. ToolGroups(rows, tool) = Restrict(By(rows, visible, lab), large)
    BY DEF ToolGroups
  <2> HIDE DEF lab, visible
  <2>2. ToolGroups(rows, tool) = [c \in large |-> By(rows, visible, lab)[c]]
    BY <2>1 DEF Restrict, By
  <2>3. k \in large
    BY <1>2, <2>2
  <2>4. By(rows, visible, lab)[k] = Sum(rows, {i \in visible : lab[i] = k})
    BY <2>3 DEF By
  <2>5. QED
    BY <2>2, <2>3, <2>4 DEF lab, visible
<1>3. ASSUME NEW k \in DOMAIN ToolGroups(rows, "suppliers"), NoneMissing(rows)
      PROVE  ToolGroups(rows, "suppliers")[k] = AnalysedFigures(rows).suppliers[k]
  <2>1. /\ k \in {label("suppliers")[i] : i \in shown("suppliers")}
        /\ ToolGroups(rows, "suppliers")[k]
             = Sum(rows, {i \in shown("suppliers") : label("suppliers")[i] = k})
    BY <1>2
  <2>2. k # BlankName
    BY <2>1
  <2>3. \A i \in S : label("suppliers")[i] = rows[i].supplier
    BY <1>1
  <2>4. k # MissingKey
    BY <1>1, <1>3, <2>1, <2>3 DEF NoneMissing
  <2>5. \A i \in S : Keys(rows)[i] = k <=> rows[i].supplier = k
    BY <1>1, <2>2, <2>4 DEF Keys, Key
  <2>6. {i \in shown("suppliers") : label("suppliers")[i] = k} = {i \in S : Keys(rows)[i] = k}
    <3>1. k # On(NoDay, FALSE, FALSE)
      BY <2>1
    <3>2. QED
      BY <2>2, <2>3, <2>5, <3>1
  <2>7. k \in {Keys(rows)[i] : i \in S}
    BY <2>1, <2>3, <2>5
  <2>8. AnalysedFigures(rows).suppliers[k] = Sum(rows, {i \in S : Keys(rows)[i] = k})
    BY <1>1, <2>7 DEF AnalysedFigures, By
  <2>9. QED
    BY <2>1, <2>6, <2>8
<1>4. ASSUME NEW k \in DOMAIN ToolGroups(rows, "months"), Unpadded(rows)
      PROVE  ToolGroups(rows, "months")[k] = AnalysedFigures(rows).months[k.day]
  <2> DEFINE month == Stripped(rows)
  <2>1. /\ k \in {label("months")[i] : i \in shown("months")}
        /\ ToolGroups(rows, "months")[k]
             = Sum(rows, {i \in shown("months") : label("months")[i] = k})
    BY <1>2
  <2>2. Unstripped(rows) = month
    BY <1>4 DEF Unpadded, Unstripped, Stripped
  <2> HIDE DEF month
  <2>3. \A i \in S : label("months")[i] = On(month[i], FALSE, FALSE)
    BY <1>1, <2>2
  <2>4. PICK d \in {month[i] : i \in S} : k = On(d, FALSE, FALSE)
    BY <2>1, <2>3
  <2>5. k.day = d /\ d # NoDay
    BY <2>1, <2>4 DEF On
  <2>6. \A i \in S : label("months")[i] = k <=> month[i] = d
    <3>1. \A x : On(x, FALSE, FALSE).day = x
      BY DEF On
    <3>2. \A x : On(x, FALSE, FALSE) = On(d, FALSE, FALSE) <=> x = d
      BY <3>1
    <3>3. QED
      BY <2>3, <2>4, <3>2
  <2>7. {i \in shown("months") : label("months")[i] = k} = {i \in Dated(S, month) : month[i] = d}
    <3>1. k # BlankName /\ k # On(NoDay, FALSE, FALSE)
      BY <2>1
    <3>2. QED
      BY <2>5, <2>6, <3>1 DEF Dated
  <2>8. d \in {month[i] : i \in Dated(S, month)}
    BY <2>4, <2>5 DEF Dated
  <2>9. AnalysedFigures(rows).months[d] = Sum(rows, {i \in Dated(S, month) : month[i] = d})
    BY <1>1, <2>8 DEF AnalysedFigures, By, month
  <2>10. QED
    BY <2>1, <2>5, <2>7, <2>9
<1>5. QED
  BY <1>3, <1>4

LEMMA InvVerified == ASSUME FiguresInv PROVE VerifiedIsTrue
<1> DEFINE audit == report["audit"]
<1>1. SUFFICES ASSUME audit.status = "verified", audit.stamp = stamp, Finite(file)
               PROVE  Fits(AnalysedFigures(file), audit.against.figures)
  BY DEF VerifiedIsTrue
<1>2. SoundReport("audit") /\ file \in Seq(RowType)
  BY DEF FiguresInv
<1>3. audit # NotRun
  BY <1>1 DEF NotRun
<1>4. audit.rows = file /\ Fits(StreamedFigures(audit.rows), audit.against.figures)
  BY <1>1, <1>2, <1>3 DEF SoundReport
<1>5. Fits(StreamedFigures(file), AnalysedFigures(file))
  BY <1>1, <1>2, FiguresFit
<1>6. QED
  BY <1>4, <1>5 DEF Fits

LEMMA InvAgree == ASSUME FiguresInv PROVE FiguresAgree
<1> DEFINE figures == saved.figures
           Current(r) == r # NotRun /\ saved # NotRun /\ r.stamp = saved.stamp /\ Finite(saved.rows)
           audit == report["audit"]
           overview == report["overview"]
           streamed == StreamedFigures(overview.rows)
<1>1. SoundAnalysis(saved, file, stamp) /\ SoundReport("audit") /\ SoundReport("overview")
  BY DEF FiguresInv
<1>2. saved # NotRun => saved.rows \in Seq(RowType) /\ figures = AnalysedFigures(saved.rows)
  BY <1>1 DEF SoundAnalysis
<1>3. ASSUME Current(audit), audit.against = saved
      PROVE  audit.status # "mismatch"
  <2>1. SUFFICES ASSUME audit.status = "mismatch" PROVE FALSE
    OBVIOUS
  <2>2. audit.rows = saved.rows /\ ~Fits(StreamedFigures(audit.rows), audit.against.figures)
    BY <1>1, <1>3, <2>1 DEF SoundReport
  <2>3. Fits(StreamedFigures(saved.rows), figures)
    BY <1>2, <1>3, FiguresFit
  <2>4. QED
    BY <1>3, <2>2, <2>3
<1>4. ASSUME Current(overview), overview.status = "completed"
      PROVE  /\ Fits(streamed, figures)
             /\ Unpadded(saved.rows) => streamed.months = figures.months
  <2>1. overview.rows = saved.rows
    BY <1>1, <1>4 DEF SoundReport
  <2>2. QED
    BY <1>2, <1>4, <2>1, FiguresFit
<1>5. ASSUME points.tool # "none", points.stamp = saved.stamp, Finite(saved.rows),
             NEW k \in DOMAIN points.groups
      PROVE  IF points.tool = "suppliers"
             THEN NoneMissing(saved.rows) => points.groups[k] = figures.suppliers[k]
             ELSE Unpadded(saved.rows) => points.groups[k] = figures.months[k.day]
  <2>1. points # [tool |-> "none"]
    BY <1>5
  <2>2. PICK rows \in Seq(RowType) :
           /\ points = [tool |-> points.tool, groups |-> ToolGroups(rows, points.tool),
                        stamp |-> points.stamp]
           /\ points.tool \in {"suppliers", "months"}
           /\ saved # NotRun
           /\ points.stamp = saved.stamp => rows = saved.rows
    BY <2>1 DEF FiguresInv, SoundPoints
  <2>3. rows = saved.rows /\ points.groups = ToolGroups(saved.rows, points.tool) /\ saved # NotRun
    BY <1>5, <2>2
  <2>4. figures = AnalysedFigures(saved.rows) /\ saved.rows \in Seq(RowType)
    BY <1>2, <2>3
  <2>5. CASE points.tool = "suppliers"
    BY <1>5, <2>3, <2>4, <2>5, GroupsAgree
  <2>6. CASE points.tool = "months"
    BY <1>5, <2>3, <2>4, <2>6, GroupsAgree
  <2>7. QED
    BY <2>2, <2>5, <2>6
<1>6. QED
  BY <1>3, <1>4, <1>5 DEF FiguresAgree

LEMMA InvScreens == ASSUME FiguresInv PROVE ScreeningAgrees
<1>1. file \in Seq(RowType)
  BY DEF FiguresInv
<1>2. QED
  BY <1>1, HighAgrees, InvoicesAgree, RepeatsAgree, SplitsAgree DEF ScreeningAgrees

\* What the platform says of a file in one place is so, and is what it says in the others,
\* for any file, any edits of it and any number of rows: an audit that says "verified" after
\* the file was written while it read would be wrong (quality/reconcile.py:103).
THEOREM FiguresAreReliable == FiguresSpec => []FiguresReliable
<1>1. FiguresInv => FiguresReliable
  BY InvVerified, InvAgree, InvScreens DEF FiguresReliable
<1>2. QED
  BY FiguresStart, FiguresNextKeeps, <1>1, PTL DEF FiguresSpec
=============================================================================
