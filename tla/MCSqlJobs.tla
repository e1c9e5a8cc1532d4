----------------------------- MODULE MCSqlJobs ------------------------------
(* SqlJobs on small instances.                                             *)
EXTENDS SqlJobs, TLC

CONSTANTS procurement

MCSubmissions == {[wf |-> procurement, max |-> 2]}

SqlSymmetry == Permutations(Jobs) \cup Permutations(Workers) \cup Permutations(Operators)
=============================================================================
