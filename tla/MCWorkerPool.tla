---------------------------- MODULE MCWorkerPool ----------------------------
(* WorkerPool on small instances.                                          *)
EXTENDS WorkerPool, TLC

CONSTANTS procurement, dynamic

MCRotation == <<procurement, dynamic>>

\* What clients and operators submit; there are no archives in the pool.
MCSubmissions ==
    {[wf |-> dynamic, max |-> 1]} \cup [wf : {procurement}, max : Budgets]

PoolSymmetry == Permutations(Jobs) \cup Permutations(Workers) \cup Permutations(Clients)
=============================================================================
