--------------------------- MODULE MCOrchestrator ---------------------------
(* Orchestrator on a small graph.                                          *)
EXTENDS Orchestrator, TLC

CONSTANTS extract, load, report

\* Two independent nodes, one of them behind the policy's gate, and one that
\* needs both.
MCPlan == <<extract, load, report>>
MCDeps == [n \in Nodes |-> IF n = report THEN {extract, load} ELSE {}]

\* Only the node behind the gate.
MCSingle == <<load>>

Interchangeable == Permutations(Drivers)
=============================================================================
