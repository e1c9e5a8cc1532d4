----------------------------- MODULE MCJobStore -----------------------------
(* JobStore on small instances.                                            *)
EXTENDS JobStore, TLC

CONSTANTS procurement, dynamic

\* The three callers of enqueue_workflow_job; procurement's budget of three
\* is cut to two, which still gives a retried and a final attempt.
MCSubmissions ==
    {[wf |-> procurement, max |-> 2], [wf |-> dynamic, max |-> 1],
     [wf |-> Approval, max |-> 1]}

Archived(r, w) ==
    [Absent EXCEPT !.run = r, !.wf = procurement, !.max = 2, !.granted = 2,
                   !.rank = 1, !.status = "running", !.worker = w,
                   !.attempts = 2, !.failures = <<1>>]

\* A run exported while a worker held the second attempt of its job, at a
\* heartbeat that may already be out of date, and a run exported without jobs.
MCArchives ==
    {[run |-> r, status |-> "running", ids |-> {j},
      jobs |-> [i \in {j} |-> [Archived(r, w) EXCEPT !.stale = old]]] :
        r \in Runs, j \in Jobs, w \in Workers, old \in BOOLEAN}
    \cup {[run |-> r, status |-> "failed", ids |-> {}, jobs |-> <<>>] : r \in Runs}

Symmetry == Permutations(Jobs) \cup Permutations(Workers) \cup Permutations(Runs)
=============================================================================
