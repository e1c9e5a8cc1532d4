--------------------------- MODULE AnalysisPipeline ---------------------------
(***************************************************************************)
(* What the planner and the five agents of an analysis read and write:     *)
(* the records of a run's artifacts, and the files behind them             *)
(* (src/src/aeai_os/workflows/dynamic.py and procurement.py, agents/,      *)
(* data/intelligence.py, artifacts/lineage.py, evaluation/).  An execution *)
(* passes its nodes in order (a graph with approvals and overlapping calls *)
(* is module Orchestrator's), an attempt may break off after any write,    *)
(* and a dataset may be attached at any moment.  A file belongs to a run,  *)
(* a node and a name, so that an execution overwrites the files of the one *)
(* before, while the records of both remain and name the same file.        *)
(*                                                                         *)
(* Of a file's content only two things matter here: the dataset it was     *)
(* computed from, and the recipe.  The quality report is written with the  *)
(* schema profile and stands for the same; so do the code artifact with    *)
(* the KPI table and the HTML editions with the Markdown report.  The      *)
(* charts are two: the first one, which carries the total that is          *)
(* compared, and the others.                                               *)
(***************************************************************************)
EXTENDS Integers, Sequences, FiniteSets

CONSTANTS
    Datasets,      \* contents a user may attach
    Ready,         \* those with a supplier, a category and an amount column
    MaxAttached, MaxExecutions, MaxInterruptions,    \* bounds on what happens
    MaxAttempts    \* RetryPolicy.max_attempts

ASSUME PipelineAssumption ==
    /\ Ready \subseteq Datasets
    /\ "none" \notin Datasets
    /\ MaxAttached \in Nat /\ MaxExecutions \in Nat /\ MaxInterruptions \in Nat
    /\ MaxAttempts \in Nat \ {0}

VARIABLES
    intent,        \* whether the task speaks of procurement
    artifacts,     \* the run's artifact records, oldest first; an id is a position
    files,         \* what the store holds under each file name
    attached,      \* id of the run's dataset, or 0
    planned,       \* recipe of the last planner event, or "none"
    execution,     \* the execution at work, or the last one
    history        \* what has happened, for the properties to speak of

pipelineVars == <<intent, artifacts, files, attached, planned, execution, history>>

Recipes == {"generic", "procurement"}
Stages == <<"data_profile", "analytics", "visualization", "report", "evaluation">>

\* A file: what it is, and the recipe or the dataset in its name.
FileNames ==
    ({"dataset"} \X Datasets)
    \cup ({"analysis", "first_chart", "other_charts", "dashboard", "report"} \X Recipes)
    \cup {<<"schema_profile", "any">>, <<"evaluation_result", "any">>}

\* data: where the figures come from; profile: where a report's profile comes from.
Content == [data : Datasets \cup {"none"}, recipe : Recipes, profile : Datasets \cup {"none"}]
Empty == [data |-> "none", recipe |-> "generic", profile |-> "none"]
Of(d, r) == [data |-> d, recipe |-> r, profile |-> "none"]

Ids == DOMAIN artifacts
Record(kind, file, sources) == [kind |-> kind, file |-> file, sources |-> sources]
ContentOf(id) == files[artifacts[id].file]
Dataset == ContentOf(attached).data

(* Which records an agent looks at *)

Made(kind) == {i \in Ids : artifacts[i].kind = kind}
Newest(ids) == CHOOSE i \in ids : \A k \in ids : k <= i
LastIn(ids, kind) == IF Made(kind) \cap ids = {} THEN 0 ELSE Newest(Made(kind) \cap ids)

\* The records of this execution come first, and all the others after them.
LastCandidate(kind) ==
    LET other == LastIn(Ids \ execution.known, kind)
    IN  IF other # 0 THEN other ELSE LastIn(execution.known, kind)

\* The visualization agent looks among this execution's records first.
KpiForCharts ==
    LET own == LastIn(execution.known, "kpi_table")
    IN  IF own # 0 THEN own ELSE LastIn(Ids, "kpi_table")

\* Everything a record was made from, directly or not.
Upstream ==
    LET up[i \in Ids] == artifacts[i].sources \cup UNION {up[j] : j \in artifacts[i].sources}
    IN  up

Expanded(ids) == ids \cup UNION {Upstream[i] : i \in ids}

(* Users: attaching data, starting an execution, retrying a failed node *)

Attached == Cardinality(Made("dataset"))
FirstDataset == CHOOSE i \in Made("dataset") : \A k \in Made("dataset") : i <= k

\* attach_dataset_reference and upload_dataset look at no status.
AttachDataset(d) ==
    /\ Attached < MaxAttached
    /\ artifacts' = Append(artifacts, Record("dataset", <<"dataset", d>>, {}))
    /\ files' = [files EXCEPT ![<<"dataset", d>>] = Of(d, "generic")]
    /\ attached' = Len(artifacts) + 1
    /\ execution' = [execution EXCEPT !.shifted = TRUE]
    /\ UNCHANGED <<intent, planned, history>>

\* shifted: a dataset was attached in the middle; refused: an agent refused the recipe.
Begun(origin) == [status |-> "running", origin |-> origin, node |-> 1, tries |-> 0,
                  known |-> {}, shifted |-> FALSE, refused |-> FALSE]

Starts(origin) ==
    /\ execution.status # "running" /\ attached # 0
    /\ history.executions < MaxExecutions
    /\ history' = [history EXCEPT !.executions = @ + 1]
    /\ execution' = Begun(origin)
    /\ UNCHANGED <<intent, artifacts, files, attached>>

(* The planner: columns and task decide, and a model may advise *)

Advices == {"none", "invalid"} \cup Recipes
Deterministic == IF Dataset \in Ready /\ intent THEN "procurement" ELSE "generic"

\* Only a procurement plan maps columns to roles.
Mapped == Deterministic = "procurement"

\* Fault: what the model advises is done, whether or not the columns are there.
Advised_AnyRecipe(advice) == IF advice \in Recipes THEN advice ELSE Deterministic

\* A model that is off, fails, or answers out of bounds changes nothing.
Advised(advice) ==
    IF advice = "generic" \/ (advice = "procurement" /\ Mapped) THEN advice ELSE Deterministic

StartDynamic ==
    /\ Starts("dynamic")
    /\ \E advice \in Advices : planned' = Advised(advice)

\* The procurement plan is fixed, and no planner event tells of it.
StartProcurement == intent /\ Starts("procurement") /\ UNCHANGED planned

RetryFailedNode ==
    /\ execution.status = "failed"
    /\ history.retries < MaxExecutions
    /\ history' = [history EXCEPT !.retries = @ + 1]
    /\ execution' = [execution EXCEPT !.status = "running", !.tries = 0]
    /\ UNCHANGED <<intent, artifacts, files, attached, planned>>

(* One attempt of a node *)

Succeed(n) ==
    LET new == (Len(artifacts) + 1)..(Len(artifacts) + n)
        last == execution.node = Len(Stages)
    IN  execution' = [execution EXCEPT !.known = @ \cup new, !.tries = 0,
                          !.node = IF last THEN @ ELSE @ + 1,
                          !.status = IF last THEN "completed" ELSE "running"]

Failed ==
    LET tries == execution.tries + 1
    IN  [execution EXCEPT !.tries = tries,
                          !.status = IF tries < MaxAttempts THEN "running" ELSE "failed"]

FailAttempt == execution' = Failed

\* The first n files and records of an attempt, and perhaps one more file, are written.
Writes(outputs, n, half) ==
    /\ artifacts' = artifacts \o [i \in 1..n |->
                        Record(outputs[i].kind, outputs[i].file, outputs[i].sources)]
    /\ files' = [f \in DOMAIN files |->
                    LET writing == {i \in 1..(IF half THEN n + 1 ELSE n) : outputs[i].file = f}
                    IN  IF writing = {} THEN files[f]
                        ELSE outputs[CHOOSE i \in writing : TRUE].content]

\* The files that were written last by an attempt that did not come to the record.
TornFiles(outputs, n, half) ==
    (history.torn \ {outputs[i].file : i \in 1..n})
    \cup (IF half THEN {outputs[n + 1].file} ELSE {})

\* An attempt runs to its end, with a verdict, or breaks off on the way.
Attempt(outputs, verdict) ==
    \/ /\ Writes(outputs, Len(outputs), FALSE)
       /\ IF verdict THEN Succeed(Len(outputs)) ELSE FailAttempt
       /\ history' = [history EXCEPT !.torn = TornFiles(outputs, Len(outputs), FALSE)]
    \/ /\ history.breaks < MaxInterruptions
       /\ \E n \in 0..Len(outputs), half \in BOOLEAN :
              /\ half => n < Len(outputs)
              /\ Writes(outputs, n, half)
              /\ history' = [history EXCEPT !.breaks = @ + 1, !.torn = TornFiles(outputs, n, half)]
       /\ FailAttempt

Refuse ==
    /\ execution' = [Failed EXCEPT !.refused = TRUE]
    /\ UNCHANGED <<artifacts, files, history>>

Output(kind, file, content, sources) ==
    [kind |-> kind, file |-> file, content |-> content, sources |-> sources]

At(agent) ==
    /\ execution.status = "running" /\ Stages[execution.node] = agent
    /\ UNCHANGED <<intent, attached, planned>>

\* The recipe of the planner event, of whichever execution, or else procurement.
PlanForProfile == IF planned # "none" THEN planned ELSE "procurement"

ProfileDataset ==
    /\ At("data_profile")
    /\ IF planned = "none" /\ Dataset \notin Ready THEN Refuse
       ELSE Attempt(<<Output("schema_profile", <<"schema_profile", "any">>,
                             Of(Dataset, PlanForProfile), {attached})>>, TRUE)

\* Fault: the first dataset of the run is analysed, not the attached one.
Analyze_FirstDataset ==
    /\ At("analytics")
    /\ LET data == ContentOf(FirstDataset).data
           recipe == ContentOf(LastIn(Ids, "schema_profile")).recipe
       IN  IF recipe = "procurement" /\ data \notin Ready THEN Refuse
           ELSE Attempt(<<Output("kpi_table", <<"analysis", recipe>>,
                                 Of(data, recipe), {FirstDataset})>>, TRUE)

\* The plan is that of the last schema profile; the data, what is attached by now.
Analyze ==
    /\ At("analytics")
    /\ LET recipe == ContentOf(LastIn(Ids, "schema_profile")).recipe
       IN  IF recipe = "procurement" /\ Dataset \notin Ready THEN Refuse
           ELSE Attempt(<<Output("kpi_table", <<"analysis", recipe>>,
                                 Of(Dataset, recipe), {attached})>>, TRUE)

Visualize ==
    /\ At("visualization")
    /\ LET kpi == KpiForCharts
           content == ContentOf(kpi)
           r == content.recipe
           new == Len(artifacts)
       IN  Attempt(<<Output("chart", <<"first_chart", r>>, content, {kpi}),
                     Output("chart", <<"other_charts", r>>, content, {kpi}),
                     Output("dashboard", <<"dashboard", r>>, content,
                            {kpi, new + 1, new + 2})>>, TRUE)

\* Fault: the sources are not expanded.
ReportSources_Direct ==
    {LastCandidate(k) : k \in {"kpi_table", "schema_profile", "dashboard"}}
    \cup {i \in Ids : artifacts[i].kind = "chart"}

\* The sources of the report: the last of each kind among the candidates, and every chart.
ReportSources ==
    Expanded({LastCandidate(k) : k \in {"kpi_table", "schema_profile", "dashboard"}}
             \cup {i \in Ids : artifacts[i].kind = "chart"})

ComposeReport ==
    /\ At("report")
    /\ LET analysis == ContentOf(LastCandidate("kpi_table"))
           profile == ContentOf(LastCandidate("schema_profile")).data
       IN  Attempt(<<Output("report", <<"report", analysis.recipe>>,
                            [analysis EXCEPT !.profile = profile], ReportSources)>>, TRUE)

(* The quality gates *)

\* Every record of a first chart of a recipe names the same file.
SomeChartAgrees(analysis) ==
    \E i \in Ids : /\ artifacts[i].file = <<"first_chart", analysis.recipe>>
                  /\ ContentOf(i).data = analysis.data

\* Some chart counts the rows of the analysis; of the report only headings are read.
GenericPasses(analysis, report) == report.recipe = "generic" /\ SomeChartAgrees(analysis)

\* The report and the first chart found with a total agree with the analysis.
ProcurementPasses(analysis, report) ==
    /\ report.recipe = "procurement" /\ report.data = analysis.data
    /\ SomeChartAgrees(analysis)

EvaluateRun ==
    /\ At("evaluation")
    /\ LET analysis == ContentOf(LastCandidate("kpi_table"))
           report == ContentOf(LastCandidate("report"))
           passes == IF analysis.recipe = "generic" THEN GenericPasses(analysis, report)
                     ELSE ProcurementPasses(analysis, report)
       IN  Attempt(<<Output("evaluation", <<"evaluation_result", "any">>, analysis, Ids)>>, passes)

PipelineInit ==
    /\ intent \in BOOLEAN
    /\ artifacts = <<>>
    /\ files = [f \in FileNames |-> Empty]
    /\ attached = 0
    /\ planned = "none"
    /\ execution = [Begun("dynamic") EXCEPT !.status = "idle"]
    /\ history = [executions |-> 0, retries |-> 0, breaks |-> 0, torn |-> {}]

PipelineNext ==
    \/ \E d \in Datasets : AttachDataset(d)
    \/ StartDynamic \/ StartProcurement \/ RetryFailedNode
    \/ ProfileDataset \/ Analyze \/ Visualize \/ ComposeReport \/ EvaluateRun

PipelineSpec == PipelineInit /\ [][PipelineNext]_pipelineVars

(***************************************************************************)
(* Properties                                                              *)
(***************************************************************************)

Delivered == execution.known
Completed == execution.status = "completed"

\* The records and files fit together: a record names an earlier one as its source,
\* and what an execution knows of are records of the run.
PipelineTypeOK ==
    /\ artifacts \in Seq([kind : {"dataset", "schema_profile", "kpi_table", "chart", "dashboard",
                                  "report", "evaluation"},
                          file : FileNames, sources : SUBSET Ids])
    /\ \A i \in Ids : \A j \in artifacts[i].sources : j < i
    /\ files \in [FileNames -> Content]
    /\ attached \in {0} \cup Ids /\ planned \in Recipes \cup {"none"}
    /\ Delivered \subseteq Ids

\* As long as a run has known only one recipe, and no dataset is attached while an
\* execution is at work, everything a completed execution delivers is computed from
\* the dataset of the run, whatever earlier executions and broken attempts left behind:
\* the agents find their inputs by kind and age among records of every age
\* (_resolve_latest_artifact, _resolve_kpi_artifact, _latest_artifact).
SteadyDelivery ==
    Completed /\ ~execution.shifted /\ Cardinality({artifacts[i].file : i \in Made("kpi_table")}) = 1
    => \A i \in Delivered : /\ ContentOf(i).data = Dataset
                            /\ artifacts[i].kind = "report" => ContentOf(i).profile = Dataset

\* The dashboard and the charts of a completed execution show the KPI table of the same
\* execution, also when the recipe has changed or data was attached in the middle: the
\* visualization agent takes its own execution's table first.
ChartsShowOwnAnalysis ==
    Completed => \A i, k \in Delivered :
                     artifacts[i].kind \in {"chart", "dashboard"} /\ artifacts[k].kind = "kpi_table"
                     => ContentOf(i) = ContentOf(k)

\* An agent refuses its data for want of columns only where the procurement endpoint was
\* used on other data, or data was attached in the middle: the planner, whatever a model
\* advises, plans no recipe that the inspected dataset does not carry
\* (_apply_model_recommendation), and a stale planner event misleads no dynamic execution.
PlansFitData ==
    execution.refused /\ ~execution.shifted => execution.origin = "procurement"

\* The lineage of a report (expand_source_artifact_ids) leads back to the datasets its
\* figures and its profile were computed from, whatever record the report agent took for
\* the latest one, and also where the recipe has changed and the two datasets differ;
\* except where an attempt has overwritten the analysis and died before it recorded that, so
\* that an older record with older sources names the file.
ReportTracesToDataset ==
    \A i \in Delivered :
        /\ Completed /\ ~execution.shifted /\ artifacts[i].kind = "report"
        /\ <<"analysis", ContentOf(i).recipe>> \notin history.torn
        => \A d \in {ContentOf(i).data, ContentOf(i).profile} :
               \E j \in artifacts[i].sources : artifacts[j].file = <<"dataset", d>>

\* What a completed execution delivers can be traced: charts to its table, its report to the
\* datasets.
DeliverablesTraced == ChartsShowOwnAnalysis /\ ReportTracesToDataset
=============================================================================
