---------------------------- MODULE RunLifecycle ----------------------------
(***************************************************************************)
(* What the orchestrator promises about one run as long as no two calls    *)
(* for it overlap.  Nodes begin one at a time, each behind what it depends *)
(* on and with attempts left; a failed attempt is counted.  A pause ends   *)
(* by a decision and a failure by a retry, while no node is at work.  What *)
(* is completed stays completed until the run is renewed as a whole.  And  *)
(* the status of the run is never written against what its nodes say.      *)
(*                                                                         *)
(* A process may die anywhere.  It can leave a node at work, from where    *)
(* only a renewal leads on, or abandon a renewal before all nodes are new. *)
(***************************************************************************)
EXTENDS Integers

CONSTANTS Nodes, Deps, MaxAttempts

VARIABLES stage,       \* the status of every node, and its failed attempts
          status,      \* of the run
          unrenewed,   \* the nodes that a renewal still has before it
          loose        \* calls have overlapped: nothing is promised

lifecycleVars == <<stage, status, unrenewed, loose>>

New == [status |-> "pending", retries |-> 0]

Some(s) == \E n \in Nodes : stage[n].status = s
All(S) == \A n \in Nodes : stage[n].status \in S

\* An attempt ends, a pause being no failure.
Conclusions(record) ==
    {[record EXCEPT !.status = s] : s \in {"completed", "waiting_for_approval"}}
    \cup {[status |-> IF record.retries + 1 < MaxAttempts THEN "pending" ELSE "failed",
           retries |-> record.retries + 1]}

\* Nobody interferes with the nodes while one is at work or a renewal is.
Resting == ~Some("running") /\ unrenewed = {}

Begin(n) ==
    /\ Resting
    /\ stage[n].status = "pending" /\ stage[n].retries < MaxAttempts
    /\ \A m \in Deps[n] : stage[m].status = "completed"
    /\ stage' = [stage EXCEPT ![n].status = "running"]

Conclude(n) ==
    /\ stage[n].status = "running" /\ unrenewed = {}
    /\ \E record \in Conclusions(stage[n]) : stage' = [stage EXCEPT ![n] = record]

Decide(n) ==
    /\ Resting /\ stage[n].status = "waiting_for_approval"
    /\ \E s \in {"pending", "failed"} : stage' = [stage EXCEPT ![n].status = s]

Retry(n) ==
    /\ Resting /\ stage[n].status = "failed"
    /\ stage' = [stage EXCEPT ![n] = New]

Write(new) ==
    /\ unrenewed = {}
    /\ new = "running" => All({"pending", "completed"})
    /\ new = "completed" => All({"completed"})
    /\ new \in {"failed", "waiting_for_approval"} => Some(new)
    /\ status' = new

BeginRenewal == unrenewed = {} /\ unrenewed' = Nodes

Renew(n) ==
    /\ n \in unrenewed
    /\ stage' = [stage EXCEPT ![n] = New]
    /\ unrenewed' = unrenewed \ {n}

Abandon == unrenewed' = {}

Init ==
    /\ stage = [n \in Nodes |-> [status |-> "absent", retries |-> 0]]
    /\ status = "pending" /\ unrenewed = {} /\ loose = FALSE

Orderly ==
    \/ \E n \in Nodes : /\ Begin(n) \/ Conclude(n) \/ Decide(n) \/ Retry(n)
                        /\ UNCHANGED <<status, unrenewed>>
    \/ /\ \E new \in {"running", "completed", "failed", "waiting_for_approval"} : Write(new)
       /\ UNCHANGED <<stage, unrenewed>>
    \/ (BeginRenewal \/ Abandon) /\ UNCHANGED <<stage, status>>
    \/ \E n \in Nodes : Renew(n) /\ UNCHANGED status

Next == loose' = TRUE \/ (loose = FALSE /\ loose' = FALSE /\ Orderly)

Spec == Init /\ [][Next]_lifecycleVars
=============================================================================
