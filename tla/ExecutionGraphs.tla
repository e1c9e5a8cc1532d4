---------------------------- MODULE ExecutionGraphs ----------------------------
(***************************************************************************)
(* The validation of an execution graph                                    *)
(* (src/src/aeai_os/orchestration/graph.py), and what becomes of an        *)
(* accepted graph in the loop of resume_run, where a node is ready as soon *)
(* as its dependencies are completed.  The loop knows nothing of cycles: a *)
(* run whose graph has one simply stops with nodes left over.              *)
(*                                                                         *)
(* Blank names, unknown agents, risks and artifact types are one defect of *)
(* a node; a dependency may name a node that the graph does not have.      *)
(***************************************************************************)
EXTENDS Naturals, Sequences, FiniteSets

CONSTANTS
    NodeIds,
    MaxNodes       \* bound: nodes of a graph

VARIABLES
    graph,         \* the nodes in their order
    verdict,       \* of validate: none, searching, accepted, refused or cyclic
    visiting,      \* the nodes whose visit has begun, the innermost last
    visited,       \* those whose visit has ended
    done           \* ids of the completed nodes

graphVars == <<graph, verdict, visiting, visited, done>>

GraphNodes == [id : NodeIds, depends_on : SUBSET NodeIds, defect : BOOLEAN]
Names == {graph[i].id : i \in DOMAIN graph}
NodeOf(id) == graph[CHOOSE i \in DOMAIN graph : graph[i].id = id]

WellFormed ==
    /\ graph # <<>>
    /\ Cardinality(Names) = Len(graph)
    /\ \A i \in DOMAIN graph : ~graph[i].defect /\ graph[i].depends_on \subseteq Names

ValidateGraph ==
    /\ verdict = "none"
    /\ verdict' = IF WellFormed THEN "searching" ELSE "refused"
    /\ UNCHANGED <<graph, visiting, visited, done>>

DependsOn(id) == NodeOf(id).depends_on

\* What the loop goes through that is at work: that of the innermost visit, or of _assert_acyclic.
LoopsOver == IF visiting = <<>> THEN Names ELSE DependsOn(visiting[Len(visiting)])

\* Fault: a node counts as visited as soon as its visit begins.
WasVisited_Begun(id) == id \in visited \/ \E i \in DOMAIN visiting : visiting[i] = id

\* A visit that returns at once.
WasVisited(id) == id \in visited

BeginVisit(id) ==
    /\ verdict = "searching"
    /\ ~WasVisited(id)
    /\ IF \E i \in DOMAIN visiting : visiting[i] = id
       THEN verdict' = "cyclic" /\ UNCHANGED visiting
       ELSE visiting' = Append(visiting, id) /\ UNCHANGED verdict
    /\ UNCHANGED <<graph, visited, done>>

\* The loop has ended.
EndVisit ==
    /\ verdict = "searching"
    /\ \A id \in LoopsOver : WasVisited(id)
    /\ IF visiting = <<>>
       THEN verdict' = "accepted" /\ UNCHANGED <<visiting, visited>>
       ELSE /\ visited' = visited \cup {visiting[Len(visiting)]}
            /\ visiting' = SubSeq(visiting, 1, Len(visiting) - 1)
            /\ UNCHANGED verdict
    /\ UNCHANGED <<graph, done>>

CanRun(id) == id \notin done /\ DependsOn(id) \subseteq done

\* One round of the loop for one node, which completes.
RunNode(id) ==
    /\ verdict = "accepted"
    /\ CanRun(id)
    /\ done' = done \cup {id}
    /\ UNCHANGED <<graph, verdict, visiting, visited>>

GraphInit ==
    /\ \E n \in 0..MaxNodes : graph \in [1..n -> GraphNodes]
    /\ Cardinality({i \in DOMAIN graph : graph[i].defect}) < 2
    /\ verdict = "none" /\ visiting = <<>> /\ visited = {} /\ done = {}

GraphNext ==
    \/ ValidateGraph \/ EndVisit
    \/ \E id \in LoopsOver : BeginVisit(id)
    \/ \E id \in Names : RunNode(id)

GraphSpec == GraphInit /\ [][GraphNext]_graphVars

(***************************************************************************)
(* Properties                                                              *)
(***************************************************************************)

\* Some order of the nodes puts each behind its dependencies.
Orderable ==
    \E place \in [Names -> 1..Len(graph)] :
        \A a \in Names : \A b \in DependsOn(a) : place[b] < place[a]

\* The depth-first search decides exactly what the loop of resume_run needs: an accepted
\* graph never gets stuck before all its nodes are completed, whichever ready node is taken,
\* and a graph refused for a cycle has no order in which its nodes could be executed.
ValidationDecidesCycles ==
    /\ verdict = "accepted" /\ (\A id \in Names : ~CanRun(id)) => done = Names
    /\ verdict = "cyclic" => ~Orderable
=============================================================================
