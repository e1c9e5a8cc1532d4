------------------------------ MODULE RunRecords ------------------------------
(***************************************************************************)
(* The records of one run while it is executed, given a dataset, exported  *)
(* and imported: src/src/aeai_os/runs/archive.py over either of the run    *)
(* repositories.  The SQLAlchemy one reads the row of the run in a session *)
(* of the call, and commits the columns the call has changed later.  The   *)
(* in-memory one holds a lock for the length of a call: its histories are  *)
(* those in which the two steps of each call follow each other at once.    *)
(* Only calls that write the row of the run need a step of their own for   *)
(* reading it; all others insert rows, or write rows only the driver       *)
(* writes.                                                                 *)
(*                                                                         *)
(* One driver at a time executes the nodes, each behind the one before it; *)
(* what drivers that overlap do to each other is looked at in module       *)
(* Orchestrator, workflow jobs in SqlJobs.  Events appear as far as the    *)
(* repository itself writes them, which is with evaluations.               *)
(***************************************************************************)
EXTENDS Naturals, FiniteSets, Sequences

CONSTANTS
    Work,                \* the nodes of the graph, in the order of their dependencies
    Attachers,           \* callers that give the run a dataset
    MaxRecords,          \* bounds: artifacts and evaluations,
    MaxRounds,           \* executions,
    MaxLosses,           \* of which break off,
    MaxExports,          \* exports
    MaxImports           \* and imports

\* The graph of a run has an evaluation agent behind the node whose artifact it evaluates, and
\* names its nodes apart.
ASSUME RecordsAssumption ==
    /\ Work \in Seq({Work[i] : i \in DOMAIN Work})
    /\ Len(Work) >= 2
    /\ \A i, j \in DOMAIN Work : Work[i] = Work[j] => i = j
    /\ MaxRecords \in Nat

VARIABLES
    records,     \* what the repository holds of the run
    fresh,       \* the next id
    driver,      \* the execution
    session,     \* of update_status, while it is open: the row of the run as it was read
    export,      \* the export being made
    archive,     \* the last one that was finished
    told         \* auxiliary: what the calls that returned last wrote in the row of the run;
                 \* whether an execution has begun that is not yet called running, and whether
                 \* an import has mixed two histories of the run; the evaluations the last
                 \* import has brought; how much has happened

recordVars == <<records, fresh, driver, session, export, archive, told>>

WorkNodes == {Work[i] : i \in DOMAIN Work}
Unlinked == 0

\* A checkpoint names the artifacts of the nodes that have completed (nothing reads its version).
NoOutputs == [n \in WorkNodes |-> {}]

RecordStatuses == {"pending", "running", "completed", "failed"}
Row == [status : RecordStatuses, dataset : 0 .. MaxRecords]

\* The tables: artifacts by id and producer, evaluations by id and target, the ids of the
\* evaluations that an event reports.
Created ==
    [row |-> [status |-> "pending", dataset |-> Unlinked],
     artifacts |-> {}, nodes |-> [n \in WorkNodes |-> "absent"],
     evaluations |-> {}, logged |-> {}, checkpoint |-> NoOutputs]

Ids(set) == {x.id : x \in set}

-----------------------------------------------------------------------------
(* What the calls make of the records.                                     *)

WithDataset(r, id) ==
    [r EXCEPT !.artifacts = @ \cup {[id |-> id, producer |-> "user"]}, !.row.dataset = id]

WithArtifact(r, id, node) == [r EXCEPT !.artifacts = @ \cup {[id |-> id, producer |-> node]}]

WithNode(r, node, status) == [r EXCEPT !.nodes[node] = status]

WithEvaluation(r, id, target) ==
    [r EXCEPT !.evaluations = @ \cup {[id |-> id, target |-> target]}, !.logged = @ \cup {id}]

WithCheckpoint(r, outputs) == [r EXCEPT !.checkpoint = outputs]

\* Fault: the row is written whole, as it was read.
StatusWritten_Row(r, seen, status) == [r EXCEPT !.row = [seen EXCEPT !.status = status]]

\* A column that already had the value when it was read is not written.
StatusWritten(r, seen, status) == IF seen.status = status THEN r ELSE [r EXCEPT !.row.status = status]

-----------------------------------------------------------------------------
(* Calls on the row of the run.                                            *)

Shut == [open |-> FALSE]

\* add_artifact with a dataset makes it the one of the run, whatever its row was before.
Attach(a) ==
    /\ fresh <= MaxRecords
    /\ records' = WithDataset(records, fresh)
    /\ told' = [told EXCEPT !.row.dataset = fresh]
    /\ fresh' = fresh + 1
    /\ UNCHANGED <<driver, session, export, archive>>

-----------------------------------------------------------------------------
(* An execution: what execute_run, resume_run and the agents write, call   *)
(* by call.                                                                *)

Idle == [pc |-> "idle"]
NoExport == [at |-> 0]
NoArchive == [at |-> 0]
Node == Work[driver.at]
Goes(pc) == driver' = [driver EXCEPT !.pc = pc]

BeginExecution ==
    /\ driver = Idle /\ told.rounds < MaxRounds
    /\ driver' = [pc |-> "reset", at |-> 1, outputs |-> NoOutputs, status |-> "running"]
    /\ export' = IF export = NoExport THEN NoExport ELSE [export EXCEPT !.steady = FALSE]
    /\ told' = [told EXCEPT !.rounds = @ + 1, !.restarting = TRUE]
    /\ UNCHANGED <<records, fresh, session, archive>>

Resets ==
    /\ driver.pc = "reset"
    /\ records' = WithNode(records, Node, "pending")
    /\ driver' = IF driver.at < Len(Work) THEN [driver EXCEPT !.at = @ + 1]
                 ELSE [driver EXCEPT !.pc = "first save"]
    /\ UNCHANGED <<fresh, session>>

\* What a checkpoint is called for, and what comes after it.
AfterSave == [x \in {"first save", "begun", "ended", "closed"} |->
    CASE x = "first save" -> "status" [] x = "begun" -> "agent" [] x = "ended" -> "look"
      [] x = "closed" -> "idle"]

SavesCheckpoint ==
    /\ driver.pc \in DOMAIN AfterSave
    /\ records' = WithCheckpoint(records, driver.outputs)
    /\ driver' = IF driver.pc = "closed" THEN Idle ELSE [driver EXCEPT !.pc = AfterSave[@]]
    /\ UNCHANGED <<fresh, session>>

ReadsRow ==
    /\ driver.pc = "status" /\ session = Shut
    /\ session' = [open |-> TRUE, seen |-> records.row]
    /\ UNCHANGED <<driver, records, fresh>>

WritesStatus ==
    /\ driver.pc = "status" /\ session # Shut
    /\ records' = StatusWritten(records, session.seen, driver.status)
    /\ session' = Shut
    /\ Goes(IF driver.status = "running" THEN "look" ELSE "closed")
    /\ UNCHANGED fresh

\* The state is loaded anew, and the nodes with it; the next node is the first that has not
\* completed, and it must be waiting.
Looks ==
    LET left == {i \in DOMAIN Work : records.nodes[Work[i]] # "completed"}
        next == CHOOSE i \in left : \A j \in left : i <= j
        loaded == [driver EXCEPT !.outputs = records.checkpoint]
    IN  /\ driver.pc = "look"
        /\ driver' =
             IF left = {} THEN [loaded EXCEPT !.pc = "status", !.status = "completed"]
             ELSE IF records.nodes[Work[next]] = "pending"
             THEN [loaded EXCEPT !.pc = "begin", !.at = next]
             ELSE [loaded EXCEPT !.pc = "status", !.status = "failed"]
        /\ UNCHANGED <<records, fresh, session>>

BeginsNode ==
    /\ driver.pc = "begin"
    /\ records' = WithNode(records, Node, "running")
    /\ Goes("begun")
    /\ UNCHANGED <<fresh, session>>

\* The agent stores its artifact, and the evaluation agent, the last one, its evaluation of
\* the artifact before it.
Produces ==
    /\ driver.pc = "agent" /\ fresh <= MaxRecords
    /\ records' = WithArtifact(records, fresh, Node)
    /\ fresh' = fresh + 1
    /\ driver' = [driver EXCEPT !.outputs[Node] = {fresh},
                                !.pc = IF driver.at = Len(Work) THEN "evaluation" ELSE "complete"]
    /\ UNCHANGED session

Evaluates ==
    /\ driver.pc = "evaluation" /\ fresh <= MaxRecords
    /\ \E target \in records.artifacts :
          /\ target.producer = Work[driver.at - 1]
          /\ \A a \in records.artifacts : a.producer = target.producer => a.id <= target.id
          /\ records' = WithEvaluation(records, fresh, target.id)
    /\ fresh' = fresh + 1
    /\ Goes("complete")
    /\ UNCHANGED session

CompletesNode ==
    /\ driver.pc = "complete"
    /\ records' = WithNode(records, Node, "completed")
    /\ Goes("ended")
    /\ UNCHANGED <<fresh, session>>

\* The agent fails for the last time, and what it has stored is not among the outputs.
FailsNode ==
    /\ driver.pc \in {"agent", "evaluation", "complete"}
    /\ records' = WithNode(records, Node, "failed")
    /\ driver' = [driver EXCEPT !.pc = "ended", !.outputs[Node] = {}]
    /\ UNCHANGED <<fresh, session>>

\* A process dies, with its open session.
BreaksOff ==
    /\ driver # Idle /\ told.losses < MaxLosses
    /\ driver' = Idle
    /\ session' = Shut
    /\ told' = [told EXCEPT !.losses = @ + 1]
    /\ UNCHANGED <<records, fresh, export, archive>>

WrittenNow == session # Shut /\ session' = Shut

Execution ==
    /\ driver # Idle
    /\ \/ Resets \/ SavesCheckpoint \/ ReadsRow \/ WritesStatus \/ Looks
       \/ BeginsNode \/ Produces \/ Evaluates \/ CompletesNode \/ FailsNode
    /\ told' = [told EXCEPT !.row.status = IF WrittenNow THEN driver.status ELSE @,
                            !.restarting = @ /\ ~(WrittenNow /\ driver.status = "running")]
    /\ UNCHANGED <<export, archive>>

-----------------------------------------------------------------------------
(* Archives.                                                               *)

\* Fault: the run and its checkpoint are read after the lists.
ExportOrder_ListsFirst == <<"artifacts", "nodes", "logged", "evaluations", "row", "checkpoint">>

\* What export_run_archive reads one after the other.
ExportOrder == <<"row", "checkpoint", "artifacts", "nodes", "logged", "evaluations">>

\* It begins with the run; sound and steady, auxiliary, are that no import has mixed two
\* histories of the run, and that no execution is new, while it is made.
BeginExport ==
    /\ export = NoExport /\ told.exports < MaxExports
    /\ export' = [at |-> 2, sound |-> TRUE, steady |-> ~told.restarting, brought |-> told.brought,
                  parts |-> [Created EXCEPT ![ExportOrder[1]] = records[ExportOrder[1]]]]
    /\ told' = [told EXCEPT !.exports = @ + 1]
    /\ UNCHANGED <<records, fresh, driver, session, archive>>

ReadPart ==
    LET part == ExportOrder[export.at]
        read == [export EXCEPT !.parts[part] = records[part], !.at = @ + 1]
    IN  /\ export # NoExport
        /\ IF export.at < Len(ExportOrder) THEN export' = read /\ UNCHANGED archive
           ELSE export' = NoExport /\ archive' = read
        /\ UNCHANGED <<records, fresh, driver, session, told>>

\* restore_run replaces all the records in one transaction, whoever is at work on them.
Restored == archive.parts

\* import_run_archive over the run there is.
Import ==
    /\ archive # NoArchive /\ told.imports < MaxImports
    /\ records' = Restored
    /\ export' = IF export = NoExport THEN NoExport ELSE [export EXCEPT !.sound = FALSE]
    /\ told' = [told EXCEPT !.row = archive.parts.row, !.imports = @ + 1,
                            !.brought = archive.parts.evaluations,
                            !.mixed = driver # Idle \/ ~archive.sound \/ ~archive.steady]
    /\ UNCHANGED <<fresh, driver, session, archive>>

-----------------------------------------------------------------------------
RecordsInit ==
    /\ records = Created
    /\ fresh = 1
    /\ driver = Idle
    /\ session = Shut
    /\ export = NoExport /\ archive = NoArchive
    /\ told = [row |-> Created.row, mixed |-> FALSE, restarting |-> FALSE, brought |-> {},
               rounds |-> 0, losses |-> 0, exports |-> 0, imports |-> 0]

\* A run whose records an import has mixed is not followed any further.
RecordsNext ==
    /\ ~told.mixed
    /\ \/ \E a \in Attachers : Attach(a)
       \/ BeginExecution \/ Execution \/ BreaksOff
       \/ BeginExport \/ ReadPart \/ Import

RecordsSpec == RecordsInit /\ [][RecordsNext]_recordVars

(***************************************************************************)
(* Properties                                                              *)
(***************************************************************************)

\* The dataset that was attached last stays the dataset of the run, and the status written
\* last its status, however the calls of update_status and add_artifact overlap, unless
\* an import has replaced the run under them.
RowKeepsBoth == records.row = told.row

\* An archive made while the run is executed and given datasets can be read by itself: the
\* dataset of the run and the outputs its checkpoint names are among the artifacts, and the
\* evaluations that events report among the evaluations.
LinksResolve ==
    LET parts == archive.parts
        ids == Ids(parts.artifacts)
    IN  (archive # NoArchive /\ archive.sound) =>
          /\ parts.row.dataset \in ids \cup {Unlinked}
          /\ \A n \in WorkNodes : parts.checkpoint[n] \subseteq ids
          /\ parts.logged \subseteq Ids(parts.evaluations)
          /\ archive.steady =>
               \A n \in WorkNodes : parts.checkpoint[n] # {} => parts.nodes[n] = "completed"

\* An archive that calls the run completed has all of it, unless a new execution began
\* meanwhile: every node, the artifact of every node, an evaluation with its target, and no
\* evaluation without, unless an import has brought it.  (An archive made before the run was
\* completed may have evaluations and completed nodes whose artifacts it has not, and
\* restore_run takes it as it is; they stay when the run is executed again.)
CompletedIsWhole ==
    LET parts == archive.parts
    IN  (archive # NoArchive /\ archive.sound /\ archive.steady /\ parts.row.status = "completed") =>
          /\ \A n \in WorkNodes :
                /\ parts.nodes[n] = "completed"
                /\ \E a \in parts.artifacts : a.producer = n
                /\ parts.checkpoint[n] # {}
          /\ \E e \in parts.evaluations : e.target \in Ids(parts.artifacts)
          /\ \A e \in parts.evaluations \ archive.brought : e.target \in Ids(parts.artifacts)

\* What export_run_archive puts together from separate reads, of a run that is at work, can be
\* read by itself and means what its status says.
ArchivesHoldTogether == LinksResolve /\ CompletedIsWhole
=============================================================================
