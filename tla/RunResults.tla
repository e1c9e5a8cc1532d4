------------------------------ MODULE RunResults ------------------------------
(***************************************************************************)
(* What the API tells of a run while its executions come and go            *)
(* (src/src/aeai_os/api/runs.py): saved questions (ask_about_run),         *)
(* calculations over the run's data (calculate_analyst_followup), and the  *)
(* stream of snapshots (stream_run_progress).                              *)
(*                                                                         *)
(* A question or a calculation is checked, gathers its evidence, calls a   *)
(* model, and is saved as an event, without a lock around any two of these *)
(* steps.  A snapshot reads the run before its nodes.  The visualization   *)
(* cube is what a calculation reads, without a model and an event.         *)
(***************************************************************************)
EXTENDS AnalysisPipeline

CONSTANTS
    Askers,        \* requests at work at once
    Questions,     \* texts, up to case and spaces
    Allowance      \* saved answers a run may have, per kind of request

ASSUME ResultsAssumption ==
    Allowance \in Nat \ {0} /\ IsFiniteSet(Askers) /\ "none" \notin Questions

VARIABLES
    asks,          \* where each request is
    answers,       \* saved answers, oldest first
    stream         \* where the stream is, and what its snapshot holds

resultVars == <<asks, answers, stream>>

RequestKinds == {"question", "calculation"}
Idle == [pc |-> "idle", kind |-> "question", question |-> "none", about |-> "none", of |-> "none"]

\* about: the data whose figures are told; of: the data the cited analysis is of.
Answer(ask) == [kind |-> ask.kind, question |-> ask.question, about |-> ask.about, of |-> ask.of]
SavedAnswers(kind) == {i \in DOMAIN answers : answers[i].kind = kind}

MayAsk(kind) == Cardinality(SavedAnswers(kind)) < Allowance

\* A question that was answered before gets its old answer, which changes nothing.
Known(kind, q) == kind = "question" /\ \E i \in DOMAIN answers :
                      answers[i].kind = "question" /\ answers[i].question = q

AskAbout(a, kind, q) ==
    /\ asks[a].pc = "idle" /\ execution.status = "completed"
    /\ ~Known(kind, q) /\ MayAsk(kind)
    /\ asks' = [asks EXCEPT ![a] = [Idle EXCEPT !.pc = "gathering", !.kind = kind, !.question = q]]
    /\ UNCHANGED <<answers, stream, pipelineVars>>

LastAnalysis == LastIn(Ids, "kpi_table")

\* load_run_aggregates wants the columns the analysis has resolved, its row count and its
\* total: of the contents of Datasets no two have the same.
Reconciles(data, analysis) == analysis.recipe = "procurement" /\ data = analysis.data

\* A question cites the last analysis; a calculation also reads the run's first dataset.
Gather(a) ==
    /\ asks[a].pc = "gathering"
    /\ LET analysis == ContentOf(LastAnalysis)
           data == ContentOf(FirstDataset).data
       IN  asks' = [asks EXCEPT ![a] =
                       IF asks[a].kind = "question"
                       THEN [@ EXCEPT !.pc = "calling", !.about = analysis.data, !.of = analysis.data]
                       ELSE IF Reconciles(data, analysis)
                       THEN [@ EXCEPT !.pc = "calling", !.about = data, !.of = analysis.data]
                       ELSE Idle]
    /\ UNCHANGED <<answers, stream, pipelineVars>>

\* The model fails, or answers something unverified: nothing is saved.
ModelFails(a) ==
    /\ asks[a].pc = "calling"
    /\ asks' = [asks EXCEPT ![a] = Idle]
    /\ UNCHANGED <<answers, stream, pipelineVars>>

SaveAnswer(a) ==
    /\ asks[a].pc = "calling"
    /\ answers' = Append(answers, Answer(asks[a]))
    /\ asks' = [asks EXCEPT ![a] = Idle]
    /\ UNCHANGED <<stream, pipelineVars>>

Request(a) ==
    \/ \E kind \in RequestKinds, q \in Questions : AskAbout(a, kind, q)
    \/ Gather(a) \/ ModelFails(a) \/ SaveAnswer(a)

(* The stream: the run is read first, then its nodes *)

NodesDone == execution.status = "completed"
Finished == {"completed", "failed"}
Unread == [pc |-> "open", status |-> "none", done |-> FALSE, execution |-> 0]

After(status) == IF status \in Finished THEN "closed" ELSE "open"
RunRead(snapshot) ==
    [snapshot EXCEPT !.status = execution.status, !.execution = history.executions]

\* Fault: the nodes are read before the run.
Snapshot_NodesFirst ==
    /\ UNCHANGED <<asks, answers, pipelineVars>>
    /\ \/ /\ stream.pc = "open"
          /\ stream' = [stream EXCEPT !.pc = "half", !.done = NodesDone]
       \/ /\ stream.pc = "half"
          /\ stream' = [RunRead(stream) EXCEPT !.pc = After(execution.status)]

\* A snapshot of a run that has ended is the last one.
Snapshot ==
    /\ UNCHANGED <<asks, answers, pipelineVars>>
    /\ \/ /\ stream.pc = "open"
          /\ stream' = [RunRead(stream) EXCEPT !.pc = "half"]
       \/ /\ stream.pc = "half"
          /\ stream' = [stream EXCEPT !.done = NodesDone, !.pc = After(stream.status)]

ResultsInit ==
    /\ PipelineInit
    /\ asks = [a \in Askers |-> Idle]
    /\ answers = <<>>
    /\ stream = Unread

ResultsNext ==
    \/ PipelineNext /\ UNCHANGED resultVars
    \/ \E a \in Askers : Request(a)
    \/ Snapshot

ResultsSpec == ResultsInit /\ [][ResultsNext]_<<pipelineVars, resultVars>>

(***************************************************************************)
(* Properties                                                              *)
(***************************************************************************)

ResultsTypeOK ==
    /\ asks \in [Askers -> [pc : {"idle", "gathering", "calling"}, kind : RequestKinds,
                           question : Questions \cup {"none"},
                           about : Datasets \cup {"none"}, of : Datasets \cup {"none"}]]
    /\ answers \in Seq([kind : RequestKinds, question : Questions,
                        about : Datasets, of : Datasets])
    /\ stream \in [pc : {"open", "half", "closed"}, done : BOOLEAN,
                   status : {"none", "idle", "running", "completed", "failed"},
                   execution : 0..MaxExecutions]

\* Requests that pass the allowance together all save their answer, but each exceeds it by
\* one at most: a run never gets more saved answers than its allowance and one for each
\* other request at work (the check at api/runs.py:346, the event at :414).
AllowanceOverrunBounded ==
    \A kind \in RequestKinds : Cardinality(SavedAnswers(kind)) <= Allowance + Cardinality(Askers) - 1

\* A calculation tells figures of the data the analysis it cites was made of, although
\* the dataset is the first of the run and the analysis the last (runs.py:509, :518), and
\* executions may overwrite the one while the other is read.
CalculationsAreOfTheAnalysis ==
    \A i \in DOMAIN answers : answers[i].kind = "calculation" => answers[i].about = answers[i].of

\* A stream that ends with the news that the run is completed has shown its nodes completed,
\* unless a new execution began between the two reads (stream_run_progress).
LastSnapshotComplete ==
    stream.pc = "closed" /\ stream.status = "completed"
    => stream.done \/ history.executions > stream.execution

\* What clients are told of a run: answers within what requests at work can overrun, figures
\* of the analysis they cite, and a last snapshot that is whole.
ResultsReliable == AllowanceOverrunBounded /\ CalculationsAreOfTheAnalysis /\ LastSnapshotComplete
=============================================================================
