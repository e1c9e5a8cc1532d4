---------------------------- MODULE JobLifecycle ----------------------------
(***************************************************************************)
(* What the workflow-job repository promises about each job, whichever     *)
(* store keeps it: a ledger of leases.  A job is offered, leased to one    *)
(* worker at a time within a budget of tries, and then settled by its      *)
(* holder or buried; a buried job is reinstated or discarded by an         *)
(* operator.  Settled and discarded are final.  An import may replace a    *)
(* job, but only by a younger incarnation, and an overwritten run may take *)
(* its jobs with it; nothing else ends a life.                             *)
(*                                                                         *)
(* Several jobs may move in one step: one repository call recovers every   *)
(* overdue job of a workflow and leases one of them.                       *)
(***************************************************************************)
EXTENDS Integers

CONSTANTS Jobs, Workers, None

VARIABLE ledger   \* [phase, holder, tries, budget, born] of every job

Phases == {"none", "deciding", "decided", "open", "leased", "settled",
           "buried", "discarded"}

Entry == [phase: Phases, holder: Workers \cup {None},
          tries: Nat, budget: Nat, born: Nat]

Sound(e) ==
    /\ e.tries <= e.budget
    /\ e.phase = "open" => e.tries < e.budget /\ e.holder = None
    /\ e.phase = "leased" => e.holder \in Workers

\* The entry of the same life as e, with these fields.
Become(e, phase, holder, tries, budget) ==
    [phase |-> phase, holder |-> holder, tries |-> tries, budget |-> budget,
     born |-> e.born]

\* A worker becomes the holder, of an open job or of one whose lease lapsed.
Lease(e, f) ==
    /\ e.phase \in {"open", "leased"}
    /\ e.tries < e.budget
    /\ \E w \in Workers : f = Become(e, "leased", w, e.tries + 1, e.budget)

Reopen(e, f) ==
    /\ e.phase = "leased"
    /\ e.tries < e.budget
    /\ f = Become(e, "open", None, e.tries, e.budget)

Settle(e, f) ==
    e.phase = "leased" /\ f = Become(e, "settled", e.holder, e.tries, e.budget)

Bury(e, f) ==
    e.phase = "leased" /\ f = Become(e, "buried", e.holder, e.tries, e.budget)

Reinstate(e, f) ==
    /\ e.phase = "buried"
    /\ \E b \in {e.budget, e.budget + 1} :
          e.tries < b /\ f = Become(e, "open", None, e.tries, b)

Discard(e, f) ==
    e.phase = "buried" /\ f = Become(e, "discarded", None, e.tries, e.budget)

Decide(e, f) ==
    /\ e.phase \in {"deciding", "decided"}
    /\ f = Become(e, "decided", e.holder, e.tries, e.budget)

\* Enqueued, or restored from an archive: a new life, with a later birth.
Begin(e, f) == f.born > e.born /\ f.phase # "none" /\ Sound(f)

Forget(e, f) == f.phase = "none"

Move(e, f) ==
    \/ f = e
    \/ Lease(e, f) \/ Reopen(e, f) \/ Settle(e, f) \/ Bury(e, f)
    \/ Reinstate(e, f) \/ Discard(e, f) \/ Decide(e, f)
    \/ Begin(e, f) \/ Forget(e, f)

Init == ledger \in [Jobs -> {e \in Entry : e.phase = "none" /\ e.tries = 0
                                          /\ e.budget = 0 /\ e.born = 0}]

Next == /\ ledger' \in [Jobs -> Entry]
        /\ \A j \in Jobs : Move(ledger[j], ledger'[j])

Spec == Init /\ [][Next]_ledger
=============================================================================
