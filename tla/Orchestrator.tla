---------------------------- MODULE Orchestrator ----------------------------
(***************************************************************************)
(* OrchestratorService (src/src/aeai_os/orchestration/service.py) at work  *)
(* on one run: node records and the checkpoint in the repository, and any  *)
(* number of drivers, which are the calls of execute_run, approve_node and *)
(* retry_failed_node that workers and API requests are in.  Nothing keeps  *)
(* two drivers off one run.  Every call of the repository is one step;     *)
(* what a driver has read stays as it was when it read it.                 *)
(*                                                                         *)
(* Of the checkpoint the model keeps what later steps depend on: the       *)
(* approvals, and the nodes whose artifacts it lists.  Agents and the tool *)
(* policy appear by their verdicts.                                        *)
(***************************************************************************)
EXTENDS Integers, Sequences, FiniteSets

CONSTANTS Nodes,         \* the nodes of the execution graph
          Plan,          \* them in the order of the graph
          Deps,          \* depends_on, for every node
          Gated,         \* nodes with tools that the policy wants approved
          Drivers,       \* calls that may be in progress together
          MaxAttempts,   \* RetryPolicy.max_attempts
          MaxCalls,      \* bound: calls made, one after the other,
          MaxTogether,   \* bound: and calls made when some overlap
          MaxCrashes,    \* bound: drivers that die
          None

ASSUME OrchestratorAssumption ==
    /\ Plan \in Seq(Nodes)
    /\ Len(Plan) > 0
    /\ \A n \in Nodes : \E i \in 1..Len(Plan) : Plan[i] = n
    /\ \A i, k \in 1..Len(Plan) : Plan[i] = Plan[k] => i = k
    /\ Deps \in [Nodes -> SUBSET Nodes]
    \* acyclic (ExecutionGraph.validate): some node of every set has no
    \* dependency inside the set
    /\ \A S \in SUBSET Nodes : S # {} => \E n \in S : Deps[n] \cap S = {}
    /\ Gated \subseteq Nodes
    /\ None \notin Nodes
    /\ MaxAttempts \in Nat \ {0}
    /\ MaxCalls \in Nat /\ MaxTogether \in 0..MaxCalls /\ MaxCrashes \in Nat

VARIABLES nodes,         \* the graph-node records of the run
          checkpoint,    \* the saved state of the run
          run,           \* the run's status
          drivers,       \* where each driver is, and what it remembers
          calls, crashes,\* counters for the bounds
          overlapped,    \* auxiliary: two drivers have been at work together
          verdicts,      \* auxiliary: the last decision on a node in this execution
          granted,       \* auxiliary: nodes that an approver has ever approved
          tries          \* auxiliary: calls of a node's agent since it was last
                         \* reset, retried by an operator or approved

aux == <<overlapped, verdicts, granted, tries>>
vars == <<nodes, checkpoint, run, drivers, calls, crashes, overlapped, verdicts,
          granted, tries>>

NodeRecord ==
    [status: {"absent", "pending", "running", "waiting_for_approval",
              "completed", "failed"},
     retries: Nat]

\* saved   there is a checkpoint
State == [saved: BOOLEAN, approvals: [Nodes -> {"none", "approved", "denied"}],
          outputs: SUBSET Nodes]

InitialState ==
    [saved |-> TRUE, approvals |-> [n \in Nodes |-> "none"], outputs |-> {}]

PCs == {"idle", "resetting", "fresh", "starting", "loading", "resuming",
        "looking", "choosing", "closing", "saving", "pausing", "executing",
        "begun", "gating", "working", "finishing", "recording", "reloading",
        "checking", "ruling", "ruled", "failing"}

\* op, node   the call approve_node or retry_failed_node, and its argument
\* list       the nodes the current for loop still has before it, in the order
\*            of the graph
\* seen       the records those nodes had when they were read
Driver ==
    [pc: PCs, op: {"none", "approve", "deny", "retry"}, node: Nodes \cup {None},
     list: SUBSET Nodes, seen: [Nodes -> NodeRecord], state: State,
     outcome: {"none", "pending", "completed", "failed", "waiting_for_approval"}]

Unread == [n \in Nodes |-> [status |-> "absent", retries |-> 0]]

Idle == [pc |-> "idle", op |-> "none", node |-> None, list |-> {}, seen |-> Unread,
         state |-> InitialState, outcome |-> "none"]

-----------------------------------------------------------------------------
At(d, pc) == drivers[d].pc = pc

Goto(d, pc) == drivers' = [drivers EXCEPT ![d].pc = pc]

Busy == {d \in Drivers : ~At(d, "idle")}

\* The node of a list that comes first in the graph, and so in a for loop.
First(list) ==
    Plan[CHOOSE i \in 1..Len(Plan) :
            Plan[i] \in list /\ \A k \in 1..Len(Plan) : Plan[k] \in list => i <= k]

Current(d) == First(drivers[d].list)

\* upsert_graph_node
Upsert(n, record) == nodes' = [nodes EXCEPT ![n] = record]

\* A call arrives.
Enter(d, driver) ==
    /\ At(d, "idle")
    /\ calls < IF overlapped \/ Busy # {} THEN MaxTogether ELSE MaxCalls
    /\ calls' = calls + 1
    /\ drivers' = [drivers EXCEPT ![d] = driver]
    /\ overlapped' = (overlapped \/ Busy # {})
    /\ UNCHANGED <<nodes, checkpoint, run, crashes, verdicts, granted, tries>>

-----------------------------------------------------------------------------
(* execute_run: every node is written anew, whatever it was.               *)

ExecuteRun(d) == Enter(d, [Idle EXCEPT !.pc = "resetting", !.list = Nodes])

ResetNode(d) ==
    /\ At(d, "resetting")
    /\ LET n == Current(d)
       IN /\ Upsert(n, [status |-> "pending", retries |-> 0])
          /\ tries' = [tries EXCEPT ![n] = 0]
          /\ drivers' = [drivers EXCEPT ![d].list = @ \ {n},
                ![d].pc = IF drivers[d].list = {n} THEN "fresh" ELSE @]
    /\ UNCHANGED <<checkpoint, run, calls, crashes, overlapped, verdicts, granted>>

SaveInitialState(d) ==
    /\ At(d, "fresh")
    /\ checkpoint' = InitialState
    /\ verdicts' = [n \in Nodes |-> "none"]
    /\ Goto(d, "starting")
    /\ UNCHANGED <<nodes, run, calls, crashes, overlapped, granted, tries>>

MarkRunning(d) ==
    /\ \/ At(d, "starting") /\ Goto(d, "loading")
       \/ At(d, "resuming") /\ Goto(d, "looking")
    /\ run' = "running"
    /\ UNCHANGED <<nodes, checkpoint, calls, crashes>> /\ UNCHANGED aux

-----------------------------------------------------------------------------
(* resume_run.                                                             *)

LoadState(d) ==
    /\ At(d, "loading")
    /\ drivers' = [drivers EXCEPT ![d].pc = "resuming", ![d].state = checkpoint]
    /\ UNCHANGED <<nodes, checkpoint, run, calls, crashes>> /\ UNCHANGED aux

\* The top of the loop: does a node wait for an approval?
Look(d) ==
    /\ At(d, "looking")
    /\ IF \E n \in Nodes : nodes[n].status = "waiting_for_approval"
       THEN drivers' = [drivers EXCEPT ![d].pc = "closing",
                                       ![d].outcome = "waiting_for_approval"]
       ELSE Goto(d, "choosing")
    /\ UNCHANGED <<nodes, checkpoint, run, calls, crashes>> /\ UNCHANGED aux

DependenciesCompleted(n) == \A m \in Deps[n] : nodes[m].status = "completed"

AllCompleted == \A n \in Nodes : nodes[n].status = "completed"

TerminalFailures ==
    {n \in Nodes : nodes[n].status = "failed" /\ nodes[n].retries >= MaxAttempts}

\* Fault: the dependencies of a ready node are not looked at.
Ready_AnyOrder(n) ==
    nodes[n].status \in {"pending", "failed"} /\ nodes[n].retries < MaxAttempts

Ready(n) ==
    /\ nodes[n].status \in {"pending", "failed"}
    /\ nodes[n].retries < MaxAttempts
    /\ DependenciesCompleted(n)

\* The second reading of the nodes decides how the round goes on.
Choose(d) ==
    /\ At(d, "choosing")
    /\ \/ /\ AllCompleted
          /\ drivers' = [drivers EXCEPT ![d].pc = "closing", ![d].outcome = "completed"]
       \/ /\ ~AllCompleted
          /\ TerminalFailures # {} \/ ~\E n \in Nodes : Ready(n)
          /\ drivers' = [drivers EXCEPT ![d].pc = "closing", ![d].outcome = "failed"]
       \/ /\ TerminalFailures = {}
          /\ \E n \in Nodes : Ready(n)
          /\ drivers' = [drivers EXCEPT ![d].pc = "executing", ![d].seen = nodes,
                                        ![d].list = {n \in Nodes : Ready(n)}]
    /\ UNCHANGED <<nodes, checkpoint, run, calls, crashes>> /\ UNCHANGED aux

Close(d) ==
    /\ At(d, "closing")
    /\ run' = drivers[d].outcome
    /\ Goto(d, "saving")
    /\ UNCHANGED <<nodes, checkpoint, calls, crashes>> /\ UNCHANGED aux

\* The checkpoint is saved on the way out; the driver returns.
SaveAndReturn(d) ==
    /\ At(d, "saving")
    /\ checkpoint' = drivers[d].state
    /\ drivers' = [drivers EXCEPT ![d] = Idle]
    /\ UNCHANGED <<nodes, run, calls, crashes>> /\ UNCHANGED aux

-----------------------------------------------------------------------------
(* _execute_node, for the nodes of the round one after another.            *)

\* The node is running, with the rest of its record as it was when read.
BeginNode(d) ==
    /\ At(d, "executing")
    /\ Upsert(Current(d), [drivers[d].seen[Current(d)] EXCEPT !.status = "running"])
    /\ Goto(d, "begun")
    /\ UNCHANGED <<checkpoint, run, calls, crashes>> /\ UNCHANGED aux

SaveBegun(d) ==
    /\ At(d, "begun")
    /\ checkpoint' = drivers[d].state
    /\ Goto(d, "gating")
    /\ UNCHANGED <<nodes, run, calls, crashes>> /\ UNCHANGED aux

\* Fault: a decision of either kind opens the gate.
MayCall_Decided(d) ==
    Current(d) \in Gated => drivers[d].state.approvals[Current(d)] # "none"

MayCall(d) ==
    Current(d) \in Gated => drivers[d].state.approvals[Current(d)] = "approved"

\* _authorize_node_tools, and the agent is called if it has no objection.
\* The policy may also fail a node, by a blocked tool, without the agent.
Authorize(d) ==
    /\ At(d, "gating")
    /\ \/ /\ MayCall(d)
          /\ Goto(d, "working")
          /\ tries' = [tries EXCEPT ![Current(d)] = @ + 1]
       \/ /\ ~MayCall(d)
          /\ drivers' = [drivers EXCEPT ![d].pc = "finishing",
                                        ![d].outcome = "waiting_for_approval"]
          /\ UNCHANGED tries
       \/ /\ drivers' = [drivers EXCEPT ![d].pc = "finishing", ![d].outcome = "failed"]
          /\ UNCHANGED tries
    /\ UNCHANGED <<nodes, checkpoint, run, calls, crashes, overlapped, verdicts, granted>>

\* The agent answers, or raises; it may ask for an approval on its own.
Answer(d) ==
    /\ At(d, "working")
    /\ \E outcome \in {"completed", "failed", "waiting_for_approval"} :
          drivers' = [drivers EXCEPT ![d].pc = "finishing", ![d].outcome = outcome]
    /\ UNCHANGED <<nodes, checkpoint, run, calls, crashes>> /\ UNCHANGED aux

\* Fault: a failure is not counted.
Outcome_Uncounted(record, outcome) ==
    [record EXCEPT !.status = IF outcome = "failed" THEN "pending" ELSE outcome]

\* _complete_node, _pause_for_approval, _fail_node: the new record.
Outcome(record, outcome) ==
    IF outcome # "failed" THEN [record EXCEPT !.status = outcome]
    ELSE [status |-> IF record.retries + 1 < MaxAttempts THEN "pending" ELSE "failed",
          retries |-> record.retries + 1]

FinishNode(d) ==
    /\ At(d, "finishing")
    /\ LET n == Current(d)
           record == Outcome(drivers[d].seen[n], drivers[d].outcome)
       IN /\ Upsert(n, record)
          /\ drivers' = [drivers EXCEPT ![d].pc = "recording",
                ![d].outcome = record.status,
                ![d].state.outputs = IF record.status = "completed" THEN @ \cup {n} ELSE @]
    /\ UNCHANGED <<checkpoint, run, calls, crashes>> /\ UNCHANGED aux

SaveOutcome(d) ==
    /\ At(d, "recording")
    /\ checkpoint' = drivers[d].state
    /\ Goto(d, "reloading")
    /\ UNCHANGED <<nodes, run, calls, crashes>> /\ UNCHANGED aux

\* Back in resume_run: a pause ends the call, a failure the round.
AfterNode(outcome, rest) ==
    IF outcome = "waiting_for_approval" THEN "pausing"
    ELSE IF outcome = "failed" \/ rest = {} THEN "looking" ELSE "executing"

Reload(d) ==
    /\ At(d, "reloading")
    /\ LET rest == drivers[d].list \ {Current(d)}
           pc == AfterNode(drivers[d].outcome, rest)
       IN drivers' = [drivers EXCEPT ![d].pc = pc, ![d].state = checkpoint,
             ![d].list = IF pc = "executing" THEN rest ELSE {},
             ![d].seen = IF pc = "executing" THEN @ ELSE Unread,
             ![d].outcome = "none"]
    /\ UNCHANGED <<nodes, checkpoint, run, calls, crashes>> /\ UNCHANGED aux

Pause(d) ==
    /\ At(d, "pausing")
    /\ run' = "waiting_for_approval"
    /\ drivers' = [drivers EXCEPT ![d] = Idle]
    /\ UNCHANGED <<nodes, checkpoint, calls, crashes>> /\ UNCHANGED aux

-----------------------------------------------------------------------------
(* approve_node and retry_failed_node.                                     *)

\* The checkpoint is read first (without one the call raises).
Request(d, op, n) ==
    /\ checkpoint.saved
    /\ Enter(d, [Idle EXCEPT !.pc = "checking", !.op = op, !.node = n,
                             !.state = checkpoint])

\* Fault: a retry does not look at the node's status.
Admits_AnyRetry(op, record) ==
    op = "retry" \/ record.status = "waiting_for_approval"

\* The status that a call wants the node to have.
Admits(op, record) ==
    record.status = IF op = "retry" THEN "failed" ELSE "waiting_for_approval"

\* The entry in the checkpoint's approvals.
Decision(op, earlier) ==
    CASE op = "approve" -> "approved"
      [] op = "deny"    -> "denied"
      [] op = "retry"   -> earlier

\* Then the node is read and checked; a decision goes into the event log.
Check(d) ==
    /\ At(d, "checking")
    /\ LET n == drivers[d].node
           op == drivers[d].op
       IN \/ /\ ~Admits(op, nodes[n])
             /\ drivers' = [drivers EXCEPT ![d] = Idle]
             /\ UNCHANGED <<verdicts, granted>>
          \/ /\ Admits(op, nodes[n])
             /\ drivers' = [drivers EXCEPT ![d].pc = "ruling", ![d].seen = nodes,
                   ![d].state.approvals[n] = Decision(op, @)]
             /\ verdicts' = IF op = "retry" THEN verdicts
                  ELSE [verdicts EXCEPT ![n] = IF op = "approve" THEN "approved" ELSE "denied"]
             /\ granted' = IF op = "approve" THEN granted \cup {n} ELSE granted
    /\ UNCHANGED <<nodes, checkpoint, run, calls, crashes, overlapped, tries>>

\* The node is opened again, or closed if the approval was denied.
Rule(d) ==
    /\ At(d, "ruling")
    /\ LET n == drivers[d].node
           op == drivers[d].op
           record == drivers[d].seen[n]
       IN /\ Upsert(n, CASE op = "approve" -> [record EXCEPT !.status = "pending"]
                         [] op = "deny"    -> [record EXCEPT !.status = "failed"]
                         [] op = "retry"   -> [status |-> "pending", retries |-> 0])
          /\ tries' = IF op = "deny" THEN tries ELSE [tries EXCEPT ![n] = 0]
    /\ drivers' = [drivers EXCEPT ![d].pc = "ruled", ![d].seen = Unread]
    /\ UNCHANGED <<checkpoint, run, calls, crashes, overlapped, verdicts, granted>>

SaveRuling(d) ==
    /\ At(d, "ruled")
    /\ checkpoint' = drivers[d].state
    /\ drivers' = [drivers EXCEPT
          ![d].pc = IF drivers[d].op = "deny" THEN "failing" ELSE "loading"]
    /\ UNCHANGED <<nodes, run, calls, crashes>> /\ UNCHANGED aux

ReportDenied(d) ==
    /\ At(d, "failing")
    /\ run' = "failed"
    /\ drivers' = [drivers EXCEPT ![d] = Idle]
    /\ UNCHANGED <<nodes, checkpoint, calls, crashes>> /\ UNCHANGED aux

-----------------------------------------------------------------------------
\* The process of a driver dies between two calls of the repository.
Crash(d) ==
    /\ ~At(d, "idle")
    /\ crashes < MaxCrashes
    /\ crashes' = crashes + 1
    /\ drivers' = [drivers EXCEPT ![d] = Idle]
    /\ UNCHANGED <<nodes, checkpoint, run, calls>> /\ UNCHANGED aux

Init ==
    /\ nodes = Unread
    /\ checkpoint = [InitialState EXCEPT !.saved = FALSE]
    /\ run = "pending"
    /\ drivers = [d \in Drivers |-> Idle]
    /\ calls = 0 /\ crashes = 0
    /\ overlapped = FALSE
    /\ verdicts = [n \in Nodes |-> "none"]
    /\ granted = {}
    /\ tries = [n \in Nodes |-> 0]

Arrive(d) ==
    \/ ExecuteRun(d)
    \/ \E n \in Nodes, op \in {"approve", "deny", "retry"} : Request(d, op, n)

Step(d) ==
    \/ ResetNode(d) \/ SaveInitialState(d) \/ MarkRunning(d) \/ LoadState(d)
    \/ Look(d) \/ Choose(d) \/ Close(d) \/ SaveAndReturn(d)
    \/ BeginNode(d) \/ SaveBegun(d) \/ Authorize(d) \/ Answer(d) \/ FinishNode(d)
    \/ SaveOutcome(d) \/ Reload(d) \/ Pause(d)
    \/ Check(d) \/ Rule(d) \/ SaveRuling(d) \/ ReportDenied(d)

Next == \E d \in Drivers : Arrive(d) \/ Step(d) \/ Crash(d)

Spec == Init /\ [][Next]_vars

\* A call that has arrived is worked on: threads run and agents answer.
FairSpec == Spec /\ \A d \in Drivers : WF_vars(Step(d))

-----------------------------------------------------------------------------
(* Properties.                                                             *)

OrchestratorTypeOK ==
    /\ nodes \in [Nodes -> NodeRecord]
    /\ checkpoint \in State
    /\ run \in {"pending", "running", "waiting_for_approval", "completed", "failed"}
    /\ drivers \in [Drivers -> Driver]
    /\ calls \in 0..MaxCalls /\ crashes \in 0..MaxCrashes
    /\ overlapped \in BOOLEAN
    /\ verdicts \in [Nodes -> {"none", "approved", "denied"}]
    /\ granted \subseteq Nodes
    /\ tries \in [Nodes -> Nat]

Working(n) == {d \in Drivers : At(d, "working") /\ Current(d) = n}

\* While an agent works, every node it depends on is completed, and the state
\* it was given lists their artifacts, also after crashes, retries, pauses and
\* restarts, as long as drivers do not overlap.
InputsReady ==
    ~overlapped =>
        \A n \in Nodes : \A d \in Working(n) :
            \A m \in Deps[n] : /\ nodes[m].status = "completed"
                               /\ m \in drivers[d].state.outputs

\* However drivers overlap, no agent is called behind the gate of the policy
\* on a node that no approver has ever approved.
GateHolds == \A n \in Gated : Working(n) # {} => n \in granted

\* And without overlap it is the last decision of this execution that counts:
\* a denied node does not come to work by a retry, of itself or of others.  (A
\* driver that dies between its two writes leaves the checkpoint with the
\* approval of an earlier pause: nothing is promised after a crash.)
DenialStands ==
    ~overlapped /\ crashes = 0 =>
        \A n \in Gated : Working(n) # {} => verdicts[n] = "approved"

\* The gate of the tool policy: no call behind it without an approver, and none
\* against the last word of one (_authorize_node_tools, approve_node).
ApprovalsHold == GateHolds /\ DenialStands

\* RetryPolicy bounds the calls of an agent between two interventions.
AttemptsBounded ==
    ~overlapped => \A n \in Nodes : tries[n] <= MaxAttempts

\* Once a driver has returned, unless one has died, the run's status says what
\* the nodes say; the failure "No executable graph nodes remain." is never the
\* outcome.
RunAgrees ==
    ~overlapped /\ crashes = 0 /\ Busy = {} =>
        CASE run = "completed" -> AllCompleted
          [] run = "waiting_for_approval" ->
                Cardinality({n \in Nodes : nodes[n].status = "waiting_for_approval"}) = 1
          [] run = "failed" -> \E n \in Nodes : nodes[n].status = "failed"
          [] run = "running" -> FALSE
          [] OTHER -> calls = 0 \/ ~checkpoint.saved

\* The loop of resume_run does what it is there for: nodes in the order of
\* their dependencies and within their attempts, and a run that tells of them.
NodesInOrder == InputsReady /\ AttemptsBounded /\ RunAgrees

\* Without overlap a completed node stays completed, whatever is approved,
\* denied or retried, until the whole run is executed again.
CompletedKept ==
    [][~overlapped' =>
          \A n \in Nodes :
              nodes[n].status = "completed" /\ nodes'[n].status # "completed"
              => \E d \in Drivers : ResetNode(d)]_vars

Unrenewed == UNION {drivers[d].list : d \in {d \in Drivers : At(d, "resetting")}}

Lifecycle == INSTANCE RunLifecycle
                 WITH stage <- nodes, status <- run, unrenewed <- Unrenewed, loose <- overlapped

\* A run is taken through its life as RunLifecycle has it by whatever calls are made one
\* after the other, and wherever their processes die: in whole rounds of drivers that read
\* nodes, work and write them back much later, a node begins only behind completed ones,
\* nothing but a decision or a retry opens a stuck node, nothing but execute_run a completed
\* one, and the status of the run tells what its nodes say.
ImplementsRunLifecycle == Lifecycle!Spec

\* "Failed nodes retry according to RetryPolicy without restarting completed
\* nodes" (development.md:303): the write of retry_failed_node never meets a
\* completed node.
CompletedNotRestarted ==
    [][\A d \in Drivers :
          At(d, "ruling") /\ drivers'[d].pc = "ruled" /\ drivers[d].op = "retry"
          => nodes[drivers[d].node].status # "completed"]_vars

\* Every call comes to its end: rounds do not repeat for ever.
CallsReturn == \A d \in Drivers : ~At(d, "idle") ~> At(d, "idle")
=============================================================================
