------------------------ MODULE Orchestrator_proofs ------------------------
(***************************************************************************)
(* What the orchestrator promises, for every graph and every plan of it.   *)
(*                                                                         *)
(* First, that the approval gate holds, for any number of drivers and      *)
(* every interleaving of their repository calls.  Two arguments run side   *)
(* by side.  However drivers overlap, an "approved" is in the checkpoint,  *)
(* or in what a driver remembers of it, only for a node that some approver *)
(* has approved.  And as long as drivers neither overlap nor die, the      *)
(* approvals the one driver remembers, and those of the checkpoint except  *)
(* between a decision and its save, are the last decisions made.           *)
(*                                                                         *)
(* Then, that nodes are executed in their order and that completed ones    *)
(* stay completed, as long as drivers do not overlap, whatever dies in     *)
(* between.  What a driver that dies leaves is the heart of it: an         *)
(* operator can go on only from a node that is stuck, at most one is, and  *)
(* a run with a stuck node has a checkpoint that lists all that has        *)
(* completed (Resumable).                                                  *)
(*                                                                         *)
(* Last, that in the same circumstances every step is one of RunLifecycle: *)
(* a driver acts on what it has read, and it still holds when it acts.     *)
(***************************************************************************)
EXTENDS Orchestrator, FiniteSetTheorems, WellFoundedInduction, TLAPS

\* The record of a driver and of a state has the fields of the model.  (The
\* round's list is left alone: nothing here depends on what it holds.)
Shaped(s) ==
    /\ s = [saved |-> s.saved, approvals |-> s.approvals, outputs |-> s.outputs]
    /\ s.approvals \in [Nodes -> {"none", "approved", "denied"}]

\* Every approval in a state is one that an approver has given.
Earned(s) == \A n \in Nodes : s.approvals[n] = "approved" => n \in granted

DriverOK(x) ==
    /\ x = [pc |-> x.pc, op |-> x.op, node |-> x.node, list |-> x.list,
            seen |-> x.seen, state |-> x.state, outcome |-> x.outcome]
    /\ Shaped(x.state)
    /\ Earned(x.state)
    /\ x.pc = "checking" => x.op \in {"approve", "deny", "retry"} /\ x.node \in Nodes
    /\ x.pc = "working" /\ First(x.list) \in Gated
          => x.state.approvals[First(x.list)] = "approved"

\* Where a driver works with the state it has loaded, and where it has ruled
\* on a node and not yet saved that.
Loaded == {"resuming", "looking", "choosing", "closing", "saving", "pausing",
           "executing", "begun", "gating", "working", "finishing", "recording",
           "reloading", "checking", "ruling", "ruled"}
Unsaved == {"ruling", "ruled"}

Undisturbed == ~overlapped /\ crashes = 0

\* The memory of one driver agrees with the last decisions.
Agrees(x) ==
    /\ x.pc \in Loaded => x.state.approvals = verdicts
    /\ x.pc \notin Unsaved => checkpoint.approvals = verdicts

OneDriver == \A d, e \in Drivers : ~At(d, "idle") /\ ~At(e, "idle") => d = e

GateInv ==
    /\ drivers = [d \in Drivers |-> drivers[d]]
    /\ \A d \in Drivers : DriverOK(drivers[d])
    /\ Shaped(checkpoint) /\ Earned(checkpoint)
    /\ crashes \in Nat
    /\ Undisturbed =>
          /\ OneDriver
          /\ \A d \in Drivers : ~At(d, "idle") => Agrees(drivers[d])
          /\ Busy = {} => checkpoint.approvals = verdicts

\* Fresh driver records and the first state say nothing that was not earned.
LEMMA InitialOK == Shaped(InitialState) /\ Earned(InitialState)
BY DEF Shaped, Earned, InitialState

LEMMA IdleOK == DriverOK(Idle) /\ Idle.pc = "idle"
BY InitialOK DEF DriverOK, Idle

\* A step of one driver that is at work: only what becomes of this driver and
\* of the checkpoint is left to show.
LEMMA OwnStep ==
    ASSUME GateInv, NEW d \in Drivers, ~At(d, "idle"), NEW new,
           drivers' = [drivers EXCEPT ![d] = new],
           DriverOK(new)', Shaped(checkpoint)', Earned(checkpoint)',
           granted \subseteq granted',
           overlapped' = overlapped, crashes' = crashes,
           Undisturbed =>
               /\ new.pc # "idle" => Agrees(new)'
               /\ new.pc = "idle" => checkpoint'.approvals = verdicts'
    PROVE  GateInv'
<1>1. drivers' = [e \in Drivers |-> IF e = d THEN new ELSE drivers[e]]
  BY DEF GateInv
<1>2. \A e \in Drivers : DriverOK(drivers[e])'
  BY <1>1 DEF GateInv, DriverOK, Shaped, Earned
<1>3. ASSUME Undisturbed
      PROVE  /\ OneDriver'
             /\ \A e \in Drivers : ~At(e, "idle")' => Agrees(drivers[e])'
             /\ (Busy = {})' => checkpoint'.approvals = verdicts'
  <2>1. \A e \in Drivers : e # d => At(e, "idle")
    BY <1>3 DEF GateInv, OneDriver
  <2>2. \A e \in Drivers : e # d => At(e, "idle")'
    BY <1>1, <2>1 DEF At
  <2>3. OneDriver' /\ \A e \in Drivers : ~At(e, "idle")' => Agrees(drivers[e])'
    BY <1>1, <1>3, <2>2 DEF OneDriver, At, Agrees
  <2>4. CASE new.pc = "idle"
    BY <1>3, <2>3, <2>4
  <2>5. CASE new.pc # "idle"
    BY <1>1, <2>3, <2>5 DEF Busy, At
  <2>6. QED
    BY <2>3, <2>4, <2>5
<1>4. crashes' \in Nat /\ (Undisturbed' => Undisturbed)
  BY DEF GateInv, Undisturbed
<1>5. drivers' = [e \in Drivers |-> drivers'[e]]
  BY <1>1
<1>6. QED
  BY <1>2, <1>3, <1>4, <1>5 DEF GateInv

\* A call that arrives finds the checkpoint as the last decisions left it, if
\* nobody else is at work.
LEMMA ArriveStep ==
    ASSUME GateInv, NEW d \in Drivers, Arrive(d)
    PROVE  GateInv'
<1>1. PICK new : /\ drivers' = [drivers EXCEPT ![d] = new]
                 /\ \/ new = [Idle EXCEPT !.pc = "resetting", !.list = Nodes]
                    \/ \E n \in Nodes, op \in {"approve", "deny", "retry"} :
                          new = [Idle EXCEPT !.pc = "checking", !.op = op, !.node = n,
                                             !.state = checkpoint]
  BY DEF Arrive, ExecuteRun, Request, Enter
<1>2. /\ At(d, "idle")
      /\ overlapped' = (overlapped \/ Busy # {})
      /\ UNCHANGED <<checkpoint, crashes, verdicts, granted>>
  BY DEF Arrive, ExecuteRun, Request, Enter
<1>3. drivers' = [e \in Drivers |-> IF e = d THEN new ELSE drivers[e]]
  BY <1>1 DEF GateInv
<1>4. /\ DriverOK(new)
      /\ new.pc \in {"resetting", "checking"}
      /\ new.pc = "checking" => new.state = checkpoint
  <2>1. CASE new = [Idle EXCEPT !.pc = "resetting", !.list = Nodes]
    BY <2>1, InitialOK DEF Idle, DriverOK
  <2>2. ASSUME NEW n \in Nodes, NEW op \in {"approve", "deny", "retry"},
               new = [Idle EXCEPT !.pc = "checking", !.op = op, !.node = n,
                                  !.state = checkpoint]
        PROVE  DriverOK(new) /\ new.pc = "checking" /\ new.state = checkpoint
    BY <2>2 DEF Idle, DriverOK, GateInv
  <2>3. QED
    BY <1>1, <2>1, <2>2
<1>5. \A e \in Drivers : DriverOK(drivers[e])'
  BY <1>2, <1>3, <1>4 DEF GateInv, DriverOK, Earned
<1>6. ASSUME Undisturbed'
      PROVE  /\ OneDriver'
             /\ \A e \in Drivers : ~At(e, "idle")' => Agrees(drivers[e])'
             /\ Busy' # {}
  <2>1. Busy = {} /\ Undisturbed
    BY <1>2, <1>6 DEF Undisturbed
  <2>2. \A e \in Drivers : e # d => At(e, "idle")'
    BY <1>3, <2>1 DEF Busy, At
  <2>3. checkpoint.approvals = verdicts
    BY <2>1 DEF GateInv
  <2>4. Agrees(new)'
    BY <1>2, <1>4, <2>3 DEF Agrees, Loaded
  <2>5. QED
    BY <1>3, <1>4, <2>2, <2>4 DEF OneDriver, At, Agrees, Busy
<1>7. QED
  BY <1>2, <1>3, <1>5, <1>6 DEF GateInv, Shaped, Earned

\* A step that decides nothing: the driver keeps the state it has, up to its
\* outputs, or takes the checkpoint's, or saves its own as the checkpoint.
LEMMA UndecidedStep ==
    ASSUME GateInv, NEW d \in Drivers, ~At(d, "idle"), NEW new,
           drivers' = [drivers EXCEPT ![d] = new],
           new = [pc |-> new.pc, op |-> new.op, node |-> new.node, list |-> new.list,
                  seen |-> new.seen, state |-> new.state, outcome |-> new.outcome],
           new.pc # "checking",
           new.pc = "working" /\ First(new.list) \in Gated
              => new.state.approvals[First(new.list)] = "approved",
           \/ new.state = checkpoint \/ new.state = InitialState
           \/ /\ Shaped(new.state)
              /\ new.state.approvals = drivers[d].state.approvals,
           \/ checkpoint' = checkpoint
           \/ checkpoint' = drivers[d].state /\ drivers[d].pc \in Loaded,
           UNCHANGED <<crashes, overlapped, verdicts, granted>>,
           Undisturbed /\ Agrees(drivers[d]) =>
               /\ new.pc \in Loaded => new.state.approvals = verdicts
               /\ new.pc \notin Unsaved => checkpoint'.approvals = verdicts
    PROVE  GateInv'
<1>1. DriverOK(drivers[d]) /\ (Undisturbed => Agrees(drivers[d]))
  BY DEF GateInv
<1>2. Shaped(new.state) /\ Earned(new.state)
  BY <1>1, InitialOK DEF GateInv, DriverOK, Shaped, Earned
<1>3. DriverOK(new)'
  BY <1>2 DEF DriverOK, Shaped, Earned
<1>4. Shaped(checkpoint)' /\ Earned(checkpoint)'
  BY <1>1 DEF GateInv, DriverOK, Shaped, Earned
<1>5. Undisturbed =>
         /\ new.pc # "idle" => Agrees(new)'
         /\ new.pc = "idle" => checkpoint'.approvals = verdicts'
  BY <1>1 DEF Agrees, Unsaved
<1>6. QED
  BY <1>3, <1>4, <1>5, OwnStep

\* What UndecidedStep asks of the record.
Plain(new) ==
    new = [pc |-> new.pc, op |-> new.op, node |-> new.node, list |-> new.list,
           seen |-> new.seen, state |-> new.state, outcome |-> new.outcome]

\* execute_run up to the loop, and the loop's own steps.
LEMMA LoopStep ==
    ASSUME GateInv, NEW d \in Drivers,
           \/ ResetNode(d) \/ MarkRunning(d) \/ LoadState(d) \/ Look(d)
           \/ Choose(d) \/ Close(d) \/ Pause(d)
    PROVE  GateInv'
<1>1. DriverOK(drivers[d]) /\ Plain(drivers[d]) /\ Shaped(drivers[d].state)
  BY DEF GateInv, DriverOK, Plain
<1>2. PICK new : new = drivers'[d]
  OBVIOUS
<1>3. UNCHANGED <<checkpoint, crashes, overlapped, verdicts, granted>>
  BY DEF ResetNode, MarkRunning, LoadState, Look, Choose, Close, Pause, aux
<1>4. /\ drivers' = [drivers EXCEPT ![d] = new]
      /\ Plain(new)
      /\ new.state \in {drivers[d].state, checkpoint, InitialState}
      /\ new.pc \notin {"checking", "working"} \cup Unsaved
      /\ ~At(d, "idle") /\ drivers[d].pc \notin Unsaved
      /\ new.pc \in Loaded => new.state = checkpoint \/ drivers[d].pc \in Loaded
      /\ new.pc \in Loaded => new.state \in {checkpoint, drivers[d].state}
  <2>1. CASE ResetNode(d)
    BY <1>1, <1>2, <2>1 DEF ResetNode, GateInv, At, Goto, Plain, Loaded, Unsaved
  <2>2. CASE MarkRunning(d)
    BY <1>1, <1>2, <2>2 DEF MarkRunning, GateInv, At, Goto, Plain, Loaded, Unsaved
  <2>3. CASE LoadState(d)
    BY <1>1, <1>2, <2>3 DEF LoadState, GateInv, At, Goto, Plain, Loaded, Unsaved
  <2>4. CASE Look(d)
    BY <1>1, <1>2, <2>4 DEF Look, GateInv, At, Goto, Plain, Loaded, Unsaved
  <2>5. CASE Choose(d)
    BY <1>1, <1>2, <2>5 DEF Choose, GateInv, At, Goto, Plain, Loaded, Unsaved
  <2>6. CASE Close(d)
    BY <1>1, <1>2, <2>6 DEF Close, GateInv, At, Goto, Plain, Loaded, Unsaved
  <2>7. CASE Pause(d)
    BY <1>1, <1>2, <2>7 DEF Pause, GateInv, At, Goto, Plain, Loaded, Unsaved, Idle
  <2>8. QED
    BY <2>1, <2>2, <2>3, <2>4, <2>5, <2>6, <2>7
<1>5. Agrees(drivers[d]) =>
         /\ new.pc \in Loaded => new.state.approvals = verdicts
         /\ checkpoint.approvals = verdicts
  BY <1>4 DEF Agrees
<1>6. QED
  BY <1>1, <1>3, <1>4, <1>5, UndecidedStep DEF Plain

\* The steps on one node: the policy lets the agent be called only if the gate
\* is open in the state the driver holds.
LEMMA NodeStep ==
    ASSUME GateInv, NEW d \in Drivers,
           \/ BeginNode(d) \/ Authorize(d) \/ Answer(d) \/ FinishNode(d)
           \/ Reload(d) \/ Rule(d) \/ ReportDenied(d)
    PROVE  GateInv'
<1>1. DriverOK(drivers[d]) /\ Plain(drivers[d]) /\ Shaped(drivers[d].state)
  BY DEF GateInv, DriverOK, Plain
<1>2. PICK new : new = drivers'[d]
  OBVIOUS
<1>3. UNCHANGED <<checkpoint, crashes, overlapped, verdicts, granted>>
  BY DEF BeginNode, Authorize, Answer, FinishNode, Reload, Rule, ReportDenied, aux
<1>4. /\ drivers' = [drivers EXCEPT ![d] = new]
      /\ Plain(new)
      /\ new.pc # "checking" /\ ~At(d, "idle")
      /\ new.pc = "working" /\ First(new.list) \in Gated
            => new.state.approvals[First(new.list)] = "approved"
      /\ \/ new.state \in {checkpoint, InitialState}
         \/ /\ Shaped(new.state)
            /\ new.state.approvals = drivers[d].state.approvals
      /\ new.pc \in Loaded =>
            \/ /\ drivers[d].pc \in Loaded
               /\ new.state.approvals = drivers[d].state.approvals
            \/ drivers[d].pc \notin Unsaved /\ new.state = checkpoint
      /\ drivers[d].pc \in Unsaved => new.pc \in Unsaved
  <2>1. CASE BeginNode(d)
    BY <1>1, <1>2, <2>1 DEF BeginNode, GateInv, At, Goto, Plain, Loaded, Unsaved
  <2>2. CASE Authorize(d)
    <3>1. /\ drivers[d].pc = "gating"
          /\ \/ MayCall(d) /\ drivers' = [drivers EXCEPT ![d].pc = "working"]
             \/ \E outcome \in {"waiting_for_approval", "failed"} :
                   drivers' = [drivers EXCEPT ![d].pc = "finishing",
                                              ![d].outcome = outcome]
      BY <2>2 DEF Authorize, At, Goto
    <3>2. CASE MayCall(d) /\ drivers' = [drivers EXCEPT ![d].pc = "working"]
      <4>1. new = [drivers[d] EXCEPT !.pc = "working"]
        BY <1>2, <3>2 DEF GateInv
      <4>2. drivers' = [drivers EXCEPT ![d] = new]
        BY <1>2, <3>2 DEF GateInv
      <4>3. QED
        BY <1>1, <3>1, <3>2, <4>1, <4>2 DEF MayCall, Current, At, Plain, Loaded, Unsaved
    <3>3. ASSUME NEW outcome,
                 drivers' = [drivers EXCEPT ![d].pc = "finishing", ![d].outcome = outcome]
          PROVE  /\ drivers' = [drivers EXCEPT ![d] = new]
                 /\ new = [drivers[d] EXCEPT !.pc = "finishing", !.outcome = outcome]
      BY <1>2, <3>3 DEF GateInv
    <3>4. QED
      BY <1>1, <3>1, <3>2, <3>3 DEF At, Plain, Loaded, Unsaved
  <2>3. CASE Answer(d)
    <3>1. PICK outcome \in {"completed", "failed", "waiting_for_approval"} :
             drivers' = [drivers EXCEPT ![d].pc = "finishing", ![d].outcome = outcome]
      BY <2>3 DEF Answer
    <3>2. /\ drivers' = [drivers EXCEPT ![d] = new]
          /\ new = [drivers[d] EXCEPT !.pc = "finishing", !.outcome = outcome]
      BY <1>2, <3>1 DEF GateInv
    <3>3. QED
      BY <1>1, <2>3, <3>2 DEF Answer, At, Plain, Loaded, Unsaved
  <2>4. CASE FinishNode(d)
    <3>1. PICK status, outputs :
             drivers' = [drivers EXCEPT ![d].pc = "recording", ![d].outcome = status,
                                        ![d].state.outputs = outputs]
      BY <2>4 DEF FinishNode
    <3>2. /\ drivers' = [drivers EXCEPT ![d] = new]
          /\ new = [drivers[d] EXCEPT !.pc = "recording", !.outcome = status,
                                      !.state.outputs = outputs]
      BY <1>2, <3>1, ZenonT(40) DEF GateInv
    <3>3. /\ Plain(new) /\ new.pc = "recording"
          /\ new.state = [drivers[d].state EXCEPT !.outputs = outputs]
      BY <1>1, <3>2 DEF Plain
    <3>4. Shaped(new.state) /\ new.state.approvals = drivers[d].state.approvals
      BY <1>1, <3>3 DEF Shaped
    <3>5. QED
      BY <2>4, <3>2, <3>3, <3>4 DEF FinishNode, At, Loaded, Unsaved
  <2>5. CASE Reload(d)
    BY <1>1, <1>2, <2>5, ZenonT(40) DEF Reload, GateInv, At, Goto, Plain, Loaded, Unsaved, AfterNode
  <2>6. CASE Rule(d)
    BY <1>1, <1>2, <2>6 DEF Rule, GateInv, At, Goto, Plain, Loaded, Unsaved
  <2>7. CASE ReportDenied(d)
    BY <1>1, <1>2, <2>7 DEF ReportDenied, GateInv, At, Goto, Plain, Loaded, Unsaved, Idle
  <2>8. QED
    BY <2>1, <2>2, <2>3, <2>4, <2>5, <2>6, <2>7
<1>5. Agrees(drivers[d]) =>
         /\ new.pc \in Loaded => new.state.approvals = verdicts
         /\ new.pc \notin Unsaved => checkpoint.approvals = verdicts
  BY <1>4 DEF Agrees
<1>6. QED
  BY <1>1, <1>3, <1>4, <1>5, UndecidedStep DEF Plain

\* The saves of a driver's state.
LEMMA SaveStep ==
    ASSUME GateInv, NEW d \in Drivers,
           SaveAndReturn(d) \/ SaveBegun(d) \/ SaveOutcome(d) \/ SaveRuling(d)
    PROVE  GateInv'
<1>1. DriverOK(drivers[d]) /\ Plain(drivers[d]) /\ Shaped(drivers[d].state)
  BY DEF GateInv, DriverOK, Plain
<1>2. PICK new : new = drivers'[d]
  OBVIOUS
<1>3. /\ checkpoint' = drivers[d].state
      /\ UNCHANGED <<crashes, overlapped, verdicts, granted>>
  BY DEF SaveAndReturn, SaveBegun, SaveOutcome, SaveRuling, aux
<1>4. /\ drivers' = [drivers EXCEPT ![d] = new]
      /\ Plain(new)
      /\ new.pc \notin {"checking", "working"} \cup Unsaved
      /\ ~At(d, "idle") /\ drivers[d].pc \in Loaded
      /\ new.state = InitialState \/ new.state = drivers[d].state
      /\ new.pc \in Loaded => new.state = drivers[d].state
  <2>1. CASE SaveAndReturn(d)
    BY <1>1, <1>2, <2>1 DEF SaveAndReturn, GateInv, At, Plain, Loaded, Unsaved, Idle
  <2>2. CASE SaveBegun(d)
    BY <1>1, <1>2, <2>2 DEF SaveBegun, GateInv, At, Goto, Plain, Loaded, Unsaved
  <2>3. CASE SaveOutcome(d)
    BY <1>1, <1>2, <2>3 DEF SaveOutcome, GateInv, At, Goto, Plain, Loaded, Unsaved
  <2>4. CASE SaveRuling(d)
    BY <1>1, <1>2, <2>4 DEF SaveRuling, GateInv, At, Plain, Loaded, Unsaved
  <2>5. QED
    BY <2>1, <2>2, <2>3, <2>4
<1>5. Agrees(drivers[d]) =>
         /\ new.pc \in Loaded => new.state.approvals = verdicts
         /\ checkpoint'.approvals = verdicts
  BY <1>3, <1>4 DEF Agrees
<1>6. QED
  BY <1>1, <1>3, <1>4, <1>5, UndecidedStep DEF Plain

\* A new execution of the run forgets every decision.
LEMMA InitialSaveStep ==
    ASSUME GateInv, NEW d \in Drivers, SaveInitialState(d)
    PROVE  GateInv'
<1>1. DriverOK(drivers[d])
  BY DEF GateInv
<1>2. PICK new : new = drivers'[d]
  OBVIOUS
<1>3. /\ drivers' = [drivers EXCEPT ![d] = new]
      /\ new = [drivers[d] EXCEPT !.pc = "starting"]
  BY <1>2 DEF SaveInitialState, Goto, GateInv
<1>4. /\ checkpoint' = InitialState /\ verdicts' = [n \in Nodes |-> "none"]
      /\ UNCHANGED <<crashes, overlapped, granted>> /\ ~At(d, "idle")
  BY DEF SaveInitialState, At
<1>5. DriverOK(new)' /\ new.pc = "starting"
  BY <1>1, <1>3, <1>4 DEF DriverOK, Shaped, Earned
<1>6. Shaped(checkpoint)' /\ Earned(checkpoint)'
  BY <1>4, InitialOK DEF Shaped, Earned
<1>7. Agrees(new)'
  BY <1>4, <1>5 DEF Agrees, Loaded, InitialState
<1>8. QED
  BY <1>3, <1>4, <1>5, <1>6, <1>7, OwnStep

\* The one step that decides: the entry, the verdict and, for an approval, the
\* grant change together.
LEMMA CheckStep ==
    ASSUME GateInv, NEW d \in Drivers, Check(d)
    PROVE  GateInv'
<1> DEFINE n == drivers[d].node
           op == drivers[d].op
           old == drivers[d].state
<1>1. DriverOK(drivers[d]) /\ Shaped(old) /\ Earned(old)
  BY DEF GateInv, DriverOK
<1>2. /\ drivers[d].pc = "checking" /\ ~At(d, "idle") /\ n \in Nodes
      /\ op \in {"approve", "deny", "retry"}
  BY <1>1 DEF Check, At, DriverOK
<1>3. UNCHANGED <<checkpoint, crashes, overlapped>>
  BY DEF Check
<1>4. Undisturbed => checkpoint.approvals = verdicts /\ old.approvals = verdicts
  BY <1>2 DEF GateInv, Agrees, Loaded, Unsaved
<1>5. CASE drivers' = [drivers EXCEPT ![d] = Idle] /\ UNCHANGED <<verdicts, granted>>
  <2>1. DriverOK(Idle)'
    BY <1>5, IdleOK DEF DriverOK, Earned
  <2>2. Shaped(checkpoint)' /\ Earned(checkpoint)'
    BY <1>3, <1>5 DEF GateInv, Shaped, Earned
  <2>3. QED
    BY <1>2, <1>3, <1>4, <1>5, <2>1, <2>2, IdleOK, OwnStep
<1>6. ASSUME drivers' = [drivers EXCEPT ![d].pc = "ruling", ![d].seen = nodes,
                            ![d].state.approvals[n] = Decision(op, @)],
             verdicts' = IF op = "retry" THEN verdicts
                ELSE [verdicts EXCEPT ![n] = IF op = "approve" THEN "approved" ELSE "denied"],
             granted' = IF op = "approve" THEN granted \cup {n} ELSE granted
      PROVE  GateInv'
  <2> DEFINE ruled == [old.approvals EXCEPT ![n] = Decision(op, @)]
  <2>1. PICK new : new = drivers'[d]
    OBVIOUS
  <2>2. /\ drivers' = [drivers EXCEPT ![d] = new]
        /\ new = [drivers[d] EXCEPT !.pc = "ruling", !.seen = nodes,
                                    !.state.approvals[n] = Decision(op, @)]
    BY <1>6, <2>1, ZenonT(40) DEF GateInv
  <2>3. /\ new.pc = "ruling" /\ Plain(new)
        /\ new.state = [old EXCEPT !.approvals = ruled]
    BY <1>1, <2>2 DEF DriverOK, Plain
  <2>4. Decision(op, old.approvals[n]) \in {"none", "approved", "denied"}
    BY <1>1, <1>2 DEF Shaped, Decision
  <2>5. new.state.approvals = ruled /\ Shaped(new.state)
    BY <1>1, <2>3, <2>4, ZenonT(40) DEF Shaped
  <2>6. /\ granted \subseteq granted'
        /\ \A m \in Nodes : ruled[m] = "approved" => m \in granted'
    BY <1>1, <1>2, <1>6 DEF Shaped, Earned, Decision
  <2>7. DriverOK(new)'
    BY <2>3, <2>5, <2>6 DEF DriverOK, Shaped, Earned, Plain
  <2>8. old.approvals = verdicts => ruled = verdicts'
    BY <1>1, <1>2, <1>6 DEF Shaped, Decision
  <2>9. Undisturbed => Agrees(new)'
    BY <1>4, <2>3, <2>5, <2>8 DEF Agrees, Unsaved
  <2>10. Shaped(checkpoint)' /\ Earned(checkpoint)'
    BY <1>3, <2>6 DEF GateInv, Shaped, Earned
  <2>11. QED
    BY <1>2, <1>3, <2>2, <2>3, <2>6, <2>7, <2>9, <2>10, OwnStep
<1>7. QED
  BY <1>5, <1>6 DEF Check

\* A driver that dies takes what it remembers with it.
LEMMA CrashStep ==
    ASSUME GateInv, NEW d \in Drivers, Crash(d)
    PROVE  GateInv'
<1>1. /\ drivers' = [drivers EXCEPT ![d] = Idle] /\ crashes' = crashes + 1
      /\ UNCHANGED <<checkpoint, granted>>
  BY DEF Crash, aux
<1>2. crashes' \in Nat /\ ~Undisturbed'
  BY <1>1 DEF GateInv, Undisturbed
<1>3. drivers' = [e \in Drivers |-> IF e = d THEN Idle ELSE drivers[e]]
  BY <1>1 DEF GateInv
<1>4. \A e \in Drivers : DriverOK(drivers[e])'
  BY <1>1, <1>3, IdleOK DEF GateInv, DriverOK, Earned
<1>5. QED
  BY <1>1, <1>2, <1>3, <1>4 DEF GateInv, Shaped, Earned

LEMMA GateInvariance == Spec => []GateInv
<1>1. Init => GateInv
  <2> SUFFICES ASSUME Init
               PROVE  GateInv
    OBVIOUS
  <2>1. \A d \in Drivers : drivers[d] = Idle /\ At(d, "idle")
    BY IdleOK DEF Init, At
  <2>2. Shaped(checkpoint) /\ Earned(checkpoint) /\ checkpoint.approvals = verdicts
    BY DEF Init, InitialState, Shaped, Earned
  <2>3. drivers = [d \in Drivers |-> drivers[d]] /\ crashes \in Nat
    BY DEF Init
  <2>4. QED
    BY <2>1, <2>2, <2>3, IdleOK DEF GateInv, OneDriver
<1>2. GateInv /\ [Next]_vars => GateInv'
  <2> SUFFICES ASSUME GateInv, [Next]_vars
               PROVE  GateInv'
    OBVIOUS
  <2>1. ASSUME NEW d \in Drivers, Step(d)
        PROVE  GateInv'
    BY <2>1, LoopStep, NodeStep, SaveStep, InitialSaveStep, CheckStep DEF Step
  <2>2. CASE UNCHANGED vars
    BY <2>2 DEF vars, GateInv, DriverOK, Shaped, Earned, Undisturbed, OneDriver,
                Agrees, At, Busy
  <2>3. QED
    BY <2>1, <2>2, ArriveStep, CrashStep DEF Next
<1>3. QED
  BY <1>1, <1>2, PTL DEF Spec

\* No agent works behind the policy's gate on a node that no approver has ever
\* approved, however drivers overlap and die; and while they do neither, none
\* works against the last decision on its node (_authorize_node_tools,
\* approve_node and the checkpoint they share).
THEOREM GateStands == Spec => []ApprovalsHold
<1>1. GateInv => ApprovalsHold
  <2> SUFFICES ASSUME GateInv, NEW n \in Gated, NEW d \in Drivers,
                      At(d, "working"), Current(d) = n
               PROVE  /\ n \in granted
                      /\ ~overlapped /\ crashes = 0 => verdicts[n] = "approved"
    BY DEF ApprovalsHold, GateHolds, DenialStands, Working
  <2>1. n \in Nodes
    BY OrchestratorAssumption
  <2>2. drivers[d].state.approvals[n] = "approved" /\ Earned(drivers[d].state)
    BY DEF GateInv, DriverOK, At, Current
  <2>3. n \in granted
    BY <2>1, <2>2 DEF Earned
  <2>4. Undisturbed => drivers[d].state.approvals = verdicts
    BY DEF GateInv, Agrees, Loaded, At
  <2>5. QED
    BY <2>2, <2>3, <2>4 DEF Undisturbed
<1>2. QED
  BY <1>1, GateInvariance, PTL
-----------------------------------------------------------------------------
(* Nodes in their order: everything below is about the loop of resume_run. *)

\* Every set of numbers that is not empty has a least one.
LEMMA LeastNumber ==
    ASSUME NEW T, T \subseteq Nat, T # {}
    PROVE  \E i \in T : \A k \in T : i <= k
<1> DEFINE R == {ss \in Nat \X Nat : ss[1] < ss[2]}
<1>1. IsWellFoundedOn(R, Nat)
  BY NatLessThanWellFounded DEF OpToRel
<1>2. PICK i \in T : \A k \in T : <<k, i>> \notin R
  BY <1>1, WFMin
<1>3. ASSUME NEW k \in T
      PROVE  i <= k
  <2>1. i \in Nat /\ k \in Nat /\ ~(k < i)
    BY <1>2
  <2>2. QED
    BY <2>1
<1>4. QED
  BY <1>3

\* A for loop that has nodes before it is at one of them.
LEMMA FirstOfList ==
    ASSUME NEW S, S \subseteq Nodes, S # {}
    PROVE  First(S) \in S
<1> DEFINE T == {i \in 1..Len(Plan) : Plan[i] \in S}
<1>1. T \subseteq Nat /\ T # {}
  <2>1. PICK n \in Nodes : n \in S
    OBVIOUS
  <2>2. PICK i \in 1..Len(Plan) : Plan[i] = n
    BY OrchestratorAssumption
  <2>3. 1..Len(Plan) \subseteq Nat
    OBVIOUS
  <2>4. QED
    BY <2>1, <2>2, <2>3
<1>2. PICK i \in T : \A k \in T : i <= k
  BY <1>1, LeastNumber
<1>3. \E j \in 1..Len(Plan) :
         Plan[j] \in S /\ \A k \in 1..Len(Plan) : Plan[k] \in S => j <= k
  BY <1>2
<1>4. QED
  BY <1>3 DEF First

OnNode == {"begun", "gating", "working", "finishing"}
AfterCall == {"recording", "reloading"}
InLoop == {"looking", "choosing", "closing", "saving"}
Deciding == {"checking", "ruling", "ruled", "failing"}

\* What is true of a driver by itself: the for loops are at a node, and the
\* decisions are about one.
LocalOK(x) ==
    /\ x \in Driver
    /\ x.pc \in {"resetting", "executing"} \cup OnNode \cup AfterCall => x.list # {}
    /\ x.pc \in Deciding => x.node \in Nodes /\ x.op \in {"approve", "deny", "retry"}
    /\ x.pc \in {"closing", "finishing"}
          => x.outcome \in {"completed", "failed", "waiting_for_approval"}

TypeInv == OrchestratorTypeOK /\ \A d \in Drivers : LocalOK(drivers[d])

LEMMA InitialStateType == InitialState \in State /\ LocalOK(Idle) /\ Idle.pc = "idle"
<1>1. InitialState \in State
  BY DEF InitialState, State
<1>2. Unread \in [Nodes -> NodeRecord]
  BY DEF Unread, NodeRecord
<1>3. QED
  BY <1>1, <1>2 DEF Idle, LocalOK, Driver, PCs, OnNode, AfterCall, Deciding

\* What a step must show of the driver that takes it.
LEMMA TypeOwn ==
    ASSUME TypeInv, NEW d \in Drivers, NEW new, LocalOK(new),
           drivers' = [drivers EXCEPT ![d] = new],
           nodes' \in [Nodes -> NodeRecord], checkpoint' \in State,
           run' \in {"pending", "running", "waiting_for_approval", "completed", "failed"},
           calls' \in 0..MaxCalls, crashes' \in 0..MaxCrashes, overlapped' \in BOOLEAN,
           verdicts' \in [Nodes -> {"none", "approved", "denied"}],
           granted' \subseteq Nodes, tries' \in [Nodes -> Nat]
    PROVE  TypeInv'
<1>1. drivers \in [Drivers -> Driver]
  BY DEF TypeInv, OrchestratorTypeOK
<1>2. drivers' = [e \in Drivers |-> IF e = d THEN new ELSE drivers[e]]
  BY <1>1
<1>3. drivers' \in [Drivers -> Driver] /\ \A e \in Drivers : LocalOK(drivers[e])'
  BY <1>1, <1>2 DEF TypeInv, LocalOK
<1>4. QED
  BY <1>3 DEF TypeInv, OrchestratorTypeOK

LEMMA TypeOfDriver ==
    ASSUME TypeInv, NEW d \in Drivers
    PROVE  /\ LocalOK(drivers[d]) /\ drivers[d] \in Driver
           /\ drivers = [e \in Drivers |-> drivers[e]]
           /\ drivers[d].list # {} => Current(d) \in drivers[d].list /\ Current(d) \in Nodes
<1>1. LocalOK(drivers[d]) /\ drivers[d] \in Driver
  BY DEF TypeInv, LocalOK
<1>2. drivers[d].list \subseteq Nodes
  BY <1>1 DEF Driver
<1>3. drivers[d].list # {} => Current(d) \in drivers[d].list /\ Current(d) \in Nodes
  BY <1>2, FirstOfList DEF Current
<1>4. QED
  BY <1>1, <1>3 DEF TypeInv, OrchestratorTypeOK

LEMMA TypeArrive ==
    ASSUME TypeInv, NEW d \in Drivers, Arrive(d)
    PROVE  TypeInv'
<1>1. /\ calls < IF overlapped \/ Busy # {} THEN MaxTogether ELSE MaxCalls
      /\ calls' = calls + 1
      /\ overlapped' = (overlapped \/ Busy # {})
      /\ UNCHANGED <<nodes, checkpoint, run, crashes, verdicts, granted, tries>>
  BY DEF Arrive, ExecuteRun, Request, Enter
<1>2. calls' \in 0..MaxCalls /\ overlapped' \in BOOLEAN
  <2>1. calls \in 0..MaxCalls /\ MaxCalls \in Nat /\ MaxTogether \in 0..MaxCalls
    BY OrchestratorAssumption DEF TypeInv, OrchestratorTypeOK
  <2>2. calls < MaxCalls
    BY <1>1, <2>1
  <2>3. QED
    BY <1>1, <2>1, <2>2 DEF TypeInv, OrchestratorTypeOK
<1>3. PICK new : /\ drivers' = [drivers EXCEPT ![d] = new]
                 /\ \/ new = [Idle EXCEPT !.pc = "resetting", !.list = Nodes]
                    \/ \E n \in Nodes, op \in {"approve", "deny", "retry"} :
                          new = [Idle EXCEPT !.pc = "checking", !.op = op, !.node = n,
                                             !.state = checkpoint]
  BY DEF Arrive, ExecuteRun, Request, Enter
<1>4. Nodes # {}
  BY OrchestratorAssumption
<1>5. Idle \in Driver /\ checkpoint \in State
  BY InitialStateType DEF LocalOK, TypeInv, OrchestratorTypeOK
<1>6. LocalOK(new)
  <2>1. CASE new = [Idle EXCEPT !.pc = "resetting", !.list = Nodes]
    BY <1>4, <1>5, <2>1 DEF Driver, PCs, LocalOK, OnNode, AfterCall, Deciding
  <2>2. ASSUME NEW n \in Nodes, NEW op \in {"approve", "deny", "retry"},
               new = [Idle EXCEPT !.pc = "checking", !.op = op, !.node = n,
                                  !.state = checkpoint]
        PROVE  LocalOK(new)
    BY <1>5, <2>2 DEF Driver, PCs, LocalOK, OnNode, AfterCall, Deciding
  <2>3. QED
    BY <1>3, <2>1, <2>2
<1>7. QED
  BY <1>1, <1>2, <1>3, <1>6, TypeOwn DEF TypeInv, OrchestratorTypeOK

\* The steps that leave the driver at no node.
LEMMA TypeLoop ==
    ASSUME TypeInv, NEW d \in Drivers,
           \/ SaveInitialState(d) \/ MarkRunning(d) \/ LoadState(d) \/ Look(d)
           \/ Choose(d) \/ Close(d) \/ Pause(d) \/ SaveAndReturn(d) \/ ReportDenied(d)
           \/ SaveRuling(d) \/ Crash(d)
    PROVE  TypeInv'
<1>1. LocalOK(drivers[d]) /\ drivers[d] \in Driver /\ drivers[d].state \in State
  BY TypeOfDriver DEF Driver
<1>2. PICK new : new = drivers'[d]
  OBVIOUS
<1>3. drivers = [e \in Drivers |-> drivers[e]]
  BY TypeOfDriver
<1>4. drivers' = [drivers EXCEPT ![d] = new] /\ LocalOK(new)
  <2>1. CASE SaveInitialState(d)
    BY <1>1, <1>2, <1>3, <2>1
    DEF SaveInitialState, Goto, At, LocalOK, Driver, PCs, OnNode, AfterCall, Deciding
  <2>2. CASE MarkRunning(d)
    BY <1>1, <1>2, <1>3, <2>2
    DEF MarkRunning, Goto, At, LocalOK, Driver, PCs, OnNode, AfterCall, Deciding
  <2>3. CASE LoadState(d)
    <3>1. new = [drivers[d] EXCEPT !.pc = "resuming", !.state = checkpoint]
      BY <1>2, <1>3, <2>3 DEF LoadState
    <3>2. checkpoint \in State
      BY DEF TypeInv, OrchestratorTypeOK
    <3>3. LocalOK(new)
      BY <1>1, <3>1, <3>2 DEF LocalOK, Driver, PCs, OnNode, AfterCall, Deciding
    <3>4. QED
      <4>1. drivers' = [drivers EXCEPT ![d].pc = "resuming", ![d].state = checkpoint]
        BY <2>3 DEF LoadState
      <4>2. drivers' = [drivers EXCEPT ![d] = new]
        BY <1>2, <1>3, <4>1
      <4>3. QED
        BY <3>3, <4>2
  <2>4. CASE Look(d)
    <3>1. CASE drivers' = [drivers EXCEPT ![d].pc = "closing",
                                          ![d].outcome = "waiting_for_approval"]
      <4>1. /\ drivers' = [drivers EXCEPT ![d] = new]
            /\ new = [drivers[d] EXCEPT !.pc = "closing", !.outcome = "waiting_for_approval"]
        BY <1>2, <1>3, <3>1
      <4>2. QED
        BY <1>1, <4>1 DEF LocalOK, Driver, PCs, OnNode, AfterCall, Deciding
    <3>2. CASE drivers' = [drivers EXCEPT ![d].pc = "choosing"]
      BY <1>1, <1>2, <1>3, <3>2 DEF LocalOK, Driver, PCs, OnNode, AfterCall, Deciding
    <3>3. QED
      BY <2>4, <3>1, <3>2 DEF Look, Goto
  <2>5. CASE Choose(d)
    <3>1. CASE \E outcome \in {"completed", "failed"} :
                  drivers' = [drivers EXCEPT ![d].pc = "closing", ![d].outcome = outcome]
      <4>1. PICK outcome \in {"completed", "failed"} :
                  drivers' = [drivers EXCEPT ![d].pc = "closing", ![d].outcome = outcome]
        BY <3>1
      <4>2. /\ drivers' = [drivers EXCEPT ![d] = new]
            /\ new = [drivers[d] EXCEPT !.pc = "closing", !.outcome = outcome]
        BY <1>2, <1>3, <4>1
      <4>3. QED
        BY <1>1, <4>2 DEF LocalOK, Driver, PCs, OnNode, AfterCall, Deciding
    <3>2. CASE /\ \E n \in Nodes : Ready(n)
               /\ drivers' = [drivers EXCEPT ![d].pc = "executing", ![d].seen = nodes,
                                             ![d].list = {n \in Nodes : Ready(n)}]
      <4>1. new = [drivers[d] EXCEPT !.pc = "executing", !.seen = nodes,
                                     !.list = {n \in Nodes : Ready(n)}]
        BY <1>2, <1>3, <3>2
      <4>2. {n \in Nodes : Ready(n)} # {} /\ nodes \in [Nodes -> NodeRecord]
        BY <3>2 DEF TypeInv, OrchestratorTypeOK
      <4>3. LocalOK(new)
        BY <1>1, <4>1, <4>2 DEF LocalOK, Driver, PCs, OnNode, AfterCall, Deciding
      <4>4. QED
        BY <1>2, <1>3, <3>2, <4>3
    <3>3. QED
      BY <2>5, <3>1, <3>2 DEF Choose
  <2>6. CASE Close(d)
    BY <1>1, <1>2, <1>3, <2>6
    DEF Close, Goto, At, LocalOK, Driver, PCs, OnNode, AfterCall, Deciding
  <2>7. CASE Pause(d) \/ SaveAndReturn(d) \/ ReportDenied(d) \/ Crash(d)
    BY <1>2, <1>3, <2>7, InitialStateType DEF Pause, SaveAndReturn, ReportDenied, Crash
  <2>8. CASE SaveRuling(d)
    BY <1>1, <1>2, <1>3, <2>8
    DEF SaveRuling, At, LocalOK, Driver, PCs, OnNode, AfterCall, Deciding
  <2>9. QED
    BY <2>1, <2>2, <2>3, <2>4, <2>5, <2>6, <2>7, <2>8
<1>5. /\ UNCHANGED <<nodes, calls, overlapped, granted, tries>>
      /\ verdicts' = verdicts \/ verdicts' = [n \in Nodes |-> "none"]
      /\ checkpoint' \in {checkpoint, InitialState, drivers[d].state}
  BY DEF SaveInitialState, MarkRunning, LoadState, Look, Choose, Close, Pause,
         SaveAndReturn, ReportDenied, SaveRuling, Crash, aux
<1>6. run' \in {"pending", "running", "waiting_for_approval", "completed", "failed"}
  <2>1. run' = run \/ run' \in {"running", "waiting_for_approval", "failed"}
        \/ (drivers[d].pc = "closing" /\ run' = drivers[d].outcome)
    BY DEF SaveInitialState, MarkRunning, LoadState, Look, Choose, Close, Pause,
           SaveAndReturn, ReportDenied, SaveRuling, Crash, At
  <2>2. QED
    BY <1>1, <2>1 DEF LocalOK, TypeInv, OrchestratorTypeOK
<1>7. crashes' \in 0..MaxCrashes
  <2>1. crashes \in 0..MaxCrashes /\ MaxCrashes \in Nat
    BY OrchestratorAssumption DEF TypeInv, OrchestratorTypeOK
  <2>2. crashes' = crashes \/ (crashes < MaxCrashes /\ crashes' = crashes + 1)
    BY DEF SaveInitialState, MarkRunning, LoadState, Look, Choose, Close, Pause,
           SaveAndReturn, ReportDenied, SaveRuling, Crash
  <2>3. QED
    BY <2>1, <2>2
<1>8. checkpoint' \in State /\ verdicts' \in [Nodes -> {"none", "approved", "denied"}]
  BY <1>1, <1>5, InitialStateType DEF TypeInv, OrchestratorTypeOK
<1>9. QED
  BY <1>4, <1>5, <1>6, <1>7, <1>8, TypeOwn DEF TypeInv, OrchestratorTypeOK

\* The steps on a node, and those of a decision.
LEMMA TypeNode ==
    ASSUME TypeInv, NEW d \in Drivers,
           \/ ResetNode(d) \/ BeginNode(d) \/ SaveBegun(d) \/ Authorize(d) \/ Answer(d)
           \/ FinishNode(d) \/ SaveOutcome(d) \/ Reload(d)
    PROVE  TypeInv'
<1>1. LocalOK(drivers[d]) /\ drivers[d] \in Driver /\ drivers[d].state \in State
  BY TypeOfDriver DEF Driver
<1>2. PICK new : new = drivers'[d]
  OBVIOUS
<1>3. drivers = [e \in Drivers |-> drivers[e]]
  BY TypeOfDriver
<1>4. /\ drivers[d].list # {} /\ Current(d) \in drivers[d].list
      /\ Current(d) \in Nodes /\ drivers[d].list \subseteq Nodes
  <2>1. drivers[d].pc \in {"resetting", "executing"} \cup OnNode \cup AfterCall
    BY DEF ResetNode, BeginNode, SaveBegun, Authorize, Answer, FinishNode, SaveOutcome,
           Reload, At, OnNode, AfterCall
  <2>2. QED
    BY <1>1, <2>1, TypeOfDriver DEF LocalOK, Driver
<1>5. nodes \in [Nodes -> NodeRecord] /\ tries \in [Nodes -> Nat] /\ checkpoint \in State
  BY DEF TypeInv, OrchestratorTypeOK
<1>6. drivers[d].seen \in [Nodes -> NodeRecord] /\ drivers[d].seen[Current(d)] \in NodeRecord
  BY <1>1, <1>4 DEF Driver
<1>7. /\ UNCHANGED <<run, calls, crashes, overlapped, verdicts, granted>>
      /\ checkpoint' \in {checkpoint, drivers[d].state}
  BY DEF ResetNode, BeginNode, SaveBegun, Authorize, Answer, FinishNode, SaveOutcome,
         Reload, aux
<1>8. /\ drivers' = [drivers EXCEPT ![d] = new] /\ LocalOK(new)
      /\ nodes' \in [Nodes -> NodeRecord] /\ tries' \in [Nodes -> Nat]
  <2>1. CASE ResetNode(d)
    <3>1. PICK pc, list :
             /\ drivers' = [drivers EXCEPT ![d].list = list, ![d].pc = pc]
             /\ list = drivers[d].list \ {Current(d)}
             /\ pc = IF drivers[d].list = {Current(d)} THEN "fresh" ELSE "resetting"
      BY <2>1 DEF ResetNode, At
    <3>2. /\ drivers' = [drivers EXCEPT ![d] = new]
          /\ new = [drivers[d] EXCEPT !.list = list, !.pc = pc]
      BY <1>2, <1>3, <3>1
    <3>3. list \subseteq Nodes /\ pc \in {"fresh", "resetting"}
          /\ (pc = "resetting" => list # {})
      BY <1>4, <3>1
    <3>4. LocalOK(new)
      BY <1>1, <3>2, <3>3 DEF LocalOK, Driver, PCs, OnNode, AfterCall, Deciding
    <3>5. nodes' \in [Nodes -> NodeRecord] /\ tries' \in [Nodes -> Nat]
      BY <1>4, <1>5, <2>1 DEF ResetNode, Upsert, NodeRecord
    <3>6. QED
      BY <3>2, <3>4, <3>5
  <2>2. CASE BeginNode(d)
    <3>1. /\ drivers' = [drivers EXCEPT ![d] = new] /\ drivers[d].pc = "executing"
          /\ new = [drivers[d] EXCEPT !.pc = "begun"]
      BY <1>2, <1>3, <2>2 DEF BeginNode, Goto, At
    <3>2. LocalOK(new)
      BY <1>1, <1>4, <3>1 DEF LocalOK, Driver, PCs, OnNode, AfterCall, Deciding
    <3>3. nodes' \in [Nodes -> NodeRecord] /\ tries' = tries
      BY <1>4, <1>5, <1>6, <2>2 DEF BeginNode, Upsert, NodeRecord, aux
    <3>4. QED
      BY <1>5, <3>1, <3>2, <3>3
  <2>3. CASE SaveBegun(d) \/ SaveOutcome(d)
    <3>1. /\ drivers' = [drivers EXCEPT ![d] = new]
          /\ \E pc \in {"gating", "reloading"} : new = [drivers[d] EXCEPT !.pc = pc]
      BY <1>2, <1>3, <2>3 DEF SaveBegun, SaveOutcome, Goto
    <3>2. LocalOK(new)
      BY <1>1, <1>4, <3>1 DEF LocalOK, Driver, PCs, OnNode, AfterCall, Deciding
    <3>3. QED
      BY <1>5, <2>3, <3>1, <3>2 DEF SaveBegun, SaveOutcome, aux
  <2>4. CASE Authorize(d) \/ Answer(d)
    <3>1. \/ drivers' = [drivers EXCEPT ![d].pc = "working"]
          \/ \E outcome \in {"completed", "failed", "waiting_for_approval"} :
                drivers' = [drivers EXCEPT ![d].pc = "finishing", ![d].outcome = outcome]
      BY <2>4 DEF Authorize, Answer, Goto
    <3>2. ASSUME drivers' = [drivers EXCEPT ![d].pc = "working"]
          PROVE  drivers' = [drivers EXCEPT ![d] = new] /\ LocalOK(new)
      <4>1. /\ drivers' = [drivers EXCEPT ![d] = new]
            /\ new = [drivers[d] EXCEPT !.pc = "working"]
        BY <1>2, <1>3, <3>2
      <4>2. QED
        BY <1>1, <1>4, <4>1 DEF LocalOK, Driver, PCs, OnNode, AfterCall, Deciding
    <3>3. ASSUME NEW outcome \in {"completed", "failed", "waiting_for_approval"},
                 drivers' = [drivers EXCEPT ![d].pc = "finishing", ![d].outcome = outcome]
          PROVE  drivers' = [drivers EXCEPT ![d] = new] /\ LocalOK(new)
      <4>1. /\ drivers' = [drivers EXCEPT ![d] = new]
            /\ new = [drivers[d] EXCEPT !.pc = "finishing", !.outcome = outcome]
        BY <1>2, <1>3, <3>3
      <4>2. QED
        BY <1>1, <1>4, <4>1 DEF LocalOK, Driver, PCs, OnNode, AfterCall, Deciding
    <3>4. nodes' = nodes /\ tries' \in [Nodes -> Nat]
      BY <1>4, <1>5, <2>4 DEF Authorize, Answer, aux
    <3>5. QED
      BY <1>5, <3>1, <3>2, <3>3, <3>4
  <2>5. CASE FinishNode(d)
    <3>1. PICK record :
             /\ record = Outcome(drivers[d].seen[Current(d)], drivers[d].outcome)
             /\ nodes' = [nodes EXCEPT ![Current(d)] = record]
             /\ drivers' = [drivers EXCEPT ![d].pc = "recording", ![d].outcome = record.status,
                   ![d].state.outputs =
                      IF record.status = "completed" THEN @ \cup {Current(d)} ELSE @]
      BY <2>5 DEF FinishNode, Upsert
    <3>2. drivers[d].outcome \in {"completed", "failed", "waiting_for_approval"}
      BY <1>1, <2>5 DEF LocalOK, FinishNode, At
    <3>3. /\ record \in NodeRecord
          /\ record.status \in {"completed", "pending", "failed", "waiting_for_approval"}
      BY <1>6, <3>1, <3>2 DEF Outcome, NodeRecord
    <3>4. PICK outputs :
             outputs = IF record.status = "completed"
                       THEN drivers[d].state.outputs \cup {Current(d)}
                       ELSE drivers[d].state.outputs
      OBVIOUS
    <3>5. new = [drivers[d] EXCEPT !.pc = "recording", !.outcome = record.status,
                                   !.state.outputs = outputs]
      BY <1>2, <1>3, <3>1, <3>4
    <3>6. drivers' = [drivers EXCEPT ![d] = new]
      BY <1>2, <1>3, <3>1, ZenonT(40)
    <3>7. outputs \subseteq Nodes
      BY <1>1, <1>4, <3>4 DEF State
    <3>8. LocalOK(new)
      <4>1. PICK state : state = [drivers[d].state EXCEPT !.outputs = outputs]
        OBVIOUS
      <4>2. state \in State
        BY <1>1, <3>7, <4>1 DEF State
      <4>3. new = [drivers[d] EXCEPT !.pc = "recording", !.outcome = record.status,
                                     !.state = state]
        BY <1>1, <3>5, <4>1 DEF Driver
      <4>4. QED
        BY <1>1, <1>4, <3>3, <4>2, <4>3, ZenonT(40) DEF LocalOK, Driver, PCs, OnNode, AfterCall, Deciding
    <3>9. QED
      BY <1>4, <1>5, <2>5, <3>1, <3>3, <3>6, <3>8 DEF FinishNode, aux
  <2>6. CASE Reload(d)
    <3>1. PICK rest, pc, list, seen :
             /\ rest = drivers[d].list \ {Current(d)}
             /\ pc = AfterNode(drivers[d].outcome, rest)
             /\ list = IF pc = "executing" THEN rest ELSE {}
             /\ seen = IF pc = "executing" THEN drivers[d].seen ELSE Unread
             /\ new = [drivers[d] EXCEPT !.pc = pc, !.state = checkpoint, !.list = list,
                                         !.seen = seen, !.outcome = "none"]
      BY <1>2, <1>3, <2>6 DEF Reload
    <3>2. drivers' = [drivers EXCEPT ![d] = new]
      BY <1>2, <1>3, <2>6 DEF Reload
    <3>3. seen \in [Nodes -> NodeRecord]
      BY <1>6, <3>1 DEF Unread, NodeRecord
    <3>4. pc \in {"pausing", "looking", "executing"} /\ (pc = "executing" => list # {})
          /\ list \subseteq Nodes
      BY <1>4, <3>1 DEF AfterNode
    <3>5. LocalOK(new)
      BY <1>1, <1>5, <3>1, <3>3, <3>4, ZenonT(40) DEF LocalOK, Driver, PCs, OnNode, AfterCall, Deciding
    <3>6. QED
      BY <1>5, <2>6, <3>2, <3>5 DEF Reload, aux
  <2>7. QED
    BY <2>1, <2>2, <2>3, <2>4, <2>5, <2>6
<1>9. QED
  BY <1>1, <1>7, <1>8, TypeOwn DEF TypeInv, OrchestratorTypeOK

LEMMA TypeDecision ==
    ASSUME TypeInv, NEW d \in Drivers, Check(d) \/ Rule(d)
    PROVE  TypeInv'
<1>1. LocalOK(drivers[d]) /\ drivers[d] \in Driver /\ drivers[d].state \in State
  BY TypeOfDriver DEF Driver
<1>2. PICK new : new = drivers'[d]
  OBVIOUS
<1>3. drivers = [e \in Drivers |-> drivers[e]]
  BY TypeOfDriver
<1>4. PICK n, op : n = drivers[d].node /\ op = drivers[d].op
  OBVIOUS
<1>5. n \in Nodes /\ op \in {"approve", "deny", "retry"}
  BY <1>1, <1>4 DEF LocalOK, Deciding, Check, Rule, At
<1>6. /\ nodes \in [Nodes -> NodeRecord] /\ tries \in [Nodes -> Nat]
      /\ verdicts \in [Nodes -> {"none", "approved", "denied"}] /\ granted \subseteq Nodes
  BY DEF TypeInv, OrchestratorTypeOK
<1>7. UNCHANGED <<checkpoint, run, calls, crashes, overlapped>>
  BY DEF Check, Rule
<1>8. CASE Check(d) /\ ~Admits(op, nodes[n])
  <2>1. drivers' = [drivers EXCEPT ![d] = Idle]
        /\ UNCHANGED <<nodes, verdicts, granted, tries>>
    BY <1>4, <1>8 DEF Check
  <2>2. QED
    BY <1>7, <2>1, InitialStateType, TypeOwn DEF TypeInv, OrchestratorTypeOK
<1>9. CASE Check(d) /\ Admits(op, nodes[n])
  <2>1. PICK approvals :
           approvals = [drivers[d].state.approvals EXCEPT ![n] = Decision(op, @)]
    OBVIOUS
  <2>2. drivers' = [drivers EXCEPT ![d].pc = "ruling", ![d].seen = nodes,
                                   ![d].state.approvals[n] = Decision(op, @)]
    BY <1>4, <1>9 DEF Check
  <2>3. /\ new = [drivers[d] EXCEPT !.pc = "ruling", !.seen = nodes,
                                    !.state.approvals[n] = Decision(op, @)]
        /\ drivers' = [drivers EXCEPT ![d] = new]
    BY <1>2, <1>3, <2>2, ZenonT(40)
  <2>4. new = [drivers[d] EXCEPT !.pc = "ruling", !.seen = nodes,
                                 !.state = [drivers[d].state EXCEPT !.approvals = approvals]]
    BY <1>1, <2>1, <2>3 DEF Driver, State
  <2>5. drivers[d].state.approvals \in [Nodes -> {"none", "approved", "denied"}]
    BY <1>1 DEF State
  <2>6. Decision(op, drivers[d].state.approvals[n]) \in {"none", "approved", "denied"}
    BY <1>5, <2>5 DEF Decision
  <2>7. approvals \in [Nodes -> {"none", "approved", "denied"}]
    BY <1>5, <2>1, <2>5, <2>6
  <2>8. [drivers[d].state EXCEPT !.approvals = approvals] \in State
    BY <1>1, <2>7 DEF State
  <2>9. LocalOK(new)
    BY <1>1, <1>4, <1>5, <1>6, <2>4, <2>8
    DEF LocalOK, Driver, PCs, OnNode, AfterCall, Deciding
  <2>10. /\ verdicts' \in [Nodes -> {"none", "approved", "denied"}] /\ granted' \subseteq Nodes
         /\ UNCHANGED <<nodes, tries>>
    BY <1>4, <1>5, <1>6, <1>9 DEF Check
  <2>11. QED
    BY <1>7, <2>3, <2>9, <2>10, TypeOwn DEF TypeInv, OrchestratorTypeOK
<1>10. CASE Rule(d)
  <2>1. /\ new = [drivers[d] EXCEPT !.pc = "ruled", !.seen = Unread]
        /\ drivers' = [drivers EXCEPT ![d] = new]
    BY <1>2, <1>3, <1>10 DEF Rule
  <2>2. Unread \in [Nodes -> NodeRecord]
    BY DEF Unread, NodeRecord
  <2>3. LocalOK(new)
    BY <1>1, <1>4, <1>5, <2>1, <2>2 DEF LocalOK, Driver, PCs, OnNode, AfterCall, Deciding
  <2>4. drivers[d].seen[n] \in NodeRecord
    BY <1>1, <1>5 DEF Driver
  <2>5. PICK record :
           /\ nodes' = [nodes EXCEPT ![n] = record]
           /\ record = CASE op = "approve" -> [drivers[d].seen[n] EXCEPT !.status = "pending"]
                         [] op = "deny"    -> [drivers[d].seen[n] EXCEPT !.status = "failed"]
                         [] op = "retry"   -> [status |-> "pending", retries |-> 0]
    BY <1>4, <1>10 DEF Rule, Upsert
  <2>6. record \in NodeRecord
    BY <1>5, <2>4, <2>5 DEF NodeRecord
  <2>7. nodes' \in [Nodes -> NodeRecord] /\ tries' \in [Nodes -> Nat]
    BY <1>4, <1>5, <1>6, <1>10, <2>5, <2>6 DEF Rule
  <2>8. UNCHANGED <<verdicts, granted>>
    BY <1>10 DEF Rule
  <2>9. QED
    BY <1>7, <2>1, <2>3, <2>7, <2>8, TypeOwn DEF TypeInv, OrchestratorTypeOK
<1>11. QED
  BY <1>4, <1>8, <1>9, <1>10

LEMMA TypeInvariance == Spec => []TypeInv
<1>1. Init => TypeInv
  <2> SUFFICES ASSUME Init
               PROVE  TypeInv
    OBVIOUS
  <2>1. nodes \in [Nodes -> NodeRecord] /\ checkpoint \in State
    BY InitialStateType DEF Init, Unread, NodeRecord, State
  <2>2. /\ calls \in 0..MaxCalls /\ crashes \in 0..MaxCrashes
        /\ tries \in [Nodes -> Nat]
    BY OrchestratorAssumption DEF Init
  <2>3. \A d \in Drivers : drivers[d] = Idle /\ LocalOK(drivers[d])
    BY InitialStateType DEF Init
  <2>4. drivers \in [Drivers -> Driver]
    BY InitialStateType DEF Init, LocalOK
  <2>5. QED
    BY <2>1, <2>2, <2>3, <2>4 DEF Init, TypeInv, OrchestratorTypeOK
<1>2. TypeInv /\ [Next]_vars => TypeInv'
  <2> SUFFICES ASSUME TypeInv, [Next]_vars
               PROVE  TypeInv'
    OBVIOUS
  <2>1. ASSUME NEW d \in Drivers, Step(d)
        PROVE  TypeInv'
    BY <2>1, TypeLoop, TypeNode, TypeDecision DEF Step
  <2>2. CASE UNCHANGED vars
    BY <2>2 DEF vars, TypeInv, OrchestratorTypeOK, LocalOK
  <2>3. ASSUME NEW d \in Drivers, Crash(d)
        PROVE  TypeInv'
    BY <2>3, TypeLoop
  <2>4. QED
    BY <2>1, <2>2, <2>3, TypeArrive DEF Next
<1>3. QED
  BY <1>1, <1>2, PTL DEF Spec

\* What the repository and the drivers hold is always of its kind, however
\* calls overlap and die: no for loop runs past its end, and every decision is
\* about a node of the run (execute_run, resume_run, approve_node).
THEOREM OrchestratorTypes == Spec => []OrchestratorTypeOK
<1>1. TypeInv => OrchestratorTypeOK
  BY DEF TypeInv
<1>2. QED
  BY <1>1, TypeInvariance, PTL

(* The inductive invariant: as long as drivers do not overlap, what each     *)
(* step of the one driver may count on, and what one that dies leaves.     *)

Bare == [status |-> "pending", retries |-> 0]

Stuck == {n \in Nodes : nodes[n].status \in {"failed", "waiting_for_approval"}}
SomeWaits == \E n \in Nodes : nodes[n].status = "waiting_for_approval"
Done == {n \in Nodes : nodes[n].status = "completed"}

\* A failed node has no attempts left.
Exhausted ==
    \A n \in Nodes : nodes[n].status = "failed" => nodes[n].retries >= MaxAttempts

\* Nothing is wrong with the nodes of a set: they are done, or still to be called.
Calm(S) == \A n \in S : nodes[n].status \in {"pending", "completed"}

\* At most one node is stuck, and the others are calm.
Quiet == Calm(Nodes \ Stuck) /\ \A m, n \in Stuck : m = n

\* The attempts of a node, in its record and as they were made.
Counted(n) ==
    /\ tries[n] <= MaxAttempts
    /\ nodes[n].status = "pending" => tries[n] <= nodes[n].retries
    /\ nodes[n].status \in {"pending", "running", "waiting_for_approval"}
          => nodes[n].retries < MaxAttempts

\* An operator finds a stuck node only in a run whose checkpoint is up to date.
Resumable == Stuck # {} => Quiet /\ Done \subseteq checkpoint.outputs

Reset(S) == \A n \in S : nodes[n] = Bare /\ tries[n] = 0

\* What the round has not yet come to is as it was when the round began.
Untouched(x, S) == \A n \in S : nodes[n] = x.seen[n] /\ Ready(n)


\* The node that the driver is at.
AtWork(x) ==
    LET n == First(x.list)
    IN  /\ Calm(Nodes \ {n}) /\ Untouched(x, x.list \ {n})
        /\ nodes[n] = [status |-> "running", retries |-> x.seen[n].retries]
        /\ tries[n] <= x.seen[n].retries + IF x.pc \in {"begun", "gating"} THEN 0 ELSE 1
        /\ DependenciesCompleted(n)

\* The node that the driver has been at.
Worked(x) ==
    LET n == First(x.list)
    IN  /\ Calm(Nodes \ {n}) /\ Untouched(x, x.list \ {n})
        /\ nodes[n].status = x.outcome
        /\ x.outcome \in {"completed", "pending", "failed", "waiting_for_approval"}
        /\ x.outcome = "failed" => nodes[n].retries >= MaxAttempts
        /\ Done \ {n} \subseteq checkpoint.outputs

Kept(x) == Done \subseteq x.state.outputs
Saved == Done \subseteq checkpoint.outputs

InOrder(x) ==
    /\ x.pc = "resetting" => Reset(Nodes \ x.list)
    /\ x.pc \in {"fresh", "starting"} => Reset(Nodes)
    /\ x.pc \in {"loading", "resuming", "executing"} => Calm(Nodes) /\ Saved
    /\ x.pc \in {"resuming", "executing"} \cup InLoop \cup OnNode \cup AfterCall => Kept(x)
    /\ x.pc \in InLoop => Quiet /\ Saved
    /\ x.pc \in {"looking", "choosing"} => Exhausted
    /\ x.pc = "choosing" => ~SomeWaits
    /\ x.pc = "executing" => Untouched(x, x.list)
    /\ x.pc \in OnNode => AtWork(x) /\ Saved
    /\ x.pc \in AfterCall => Worked(x)
    /\ x.pc = "reloading" => checkpoint = x.state
    /\ x.pc = "pausing" => Quiet /\ Saved /\ SomeWaits
    /\ x.pc = "checking" => x.state = checkpoint
    /\ x.pc = "ruling" => Admits(x.op, nodes[x.node]) /\ Kept(x) /\ x.seen = nodes
    /\ x.pc = "ruled" => Kept(x) /\ Calm(Nodes \ {x.node})
    /\ x.pc = "ruled" /\ x.op # "deny" => Calm(Nodes)
    /\ (x.pc = "ruled" /\ x.op = "deny") \/ x.pc = "failing"
          => nodes[x.node].status = "failed"

\* What a status of the run says of the nodes.
Tells(status) ==
    CASE status = "completed" -> AllCompleted
      [] status = "waiting_for_approval" -> Quiet /\ SomeWaits
      [] status = "failed" -> \E n \in Nodes : nodes[n].status = "failed"
      [] status = "running" -> FALSE
      [] OTHER -> ~checkpoint.saved

StatusOK(x) ==
    /\ x.pc = "closing" => x.outcome # "pending" /\ Tells(x.outcome)
    /\ x.pc = "saving" => run # "pending" /\ Tells(run)
    /\ x.pc \in {"checking", "ruling"} /\ crashes = 0 => Tells(run)

OrderInv ==
    ~overlapped =>
       /\ OneDriver
       /\ \A n \in Nodes : Counted(n)
       /\ Resumable
       /\ \A d \in Drivers : ~At(d, "idle") => InOrder(drivers[d]) /\ StatusOK(drivers[d])
       /\ crashes = 0 /\ Busy = {} => Tells(run)

\* What a step must show of the driver that takes it.
Advances(x) ==
    /\ \A n \in Nodes : Counted(n)
    /\ Resumable
    /\ x.pc # "idle" => InOrder(x) /\ StatusOK(x)
    /\ x.pc = "idle" /\ crashes = 0 => Tells(run)

LEMMA OrderOwn ==
    ASSUME TypeInv, OrderInv, NEW d \in Drivers, ~At(d, "idle"), NEW new,
           drivers' = [drivers EXCEPT ![d] = new], overlapped' = overlapped,
           ~overlapped => Advances(new)'
    PROVE  OrderInv'
<1> SUFFICES ASSUME ~overlapped
             PROVE  OrderInv'
  BY DEF OrderInv
<1>1. drivers' = [e \in Drivers |-> IF e = d THEN new ELSE drivers[e]]
  BY TypeOfDriver
<1>2. \A e \in Drivers : e # d => At(e, "idle")
  BY DEF OrderInv, OneDriver
<1>3. \A e \in Drivers : e # d => At(e, "idle")'
  BY <1>1, <1>2 DEF At
<1>4. drivers'[d] = new
  BY <1>1
<1>5. OneDriver'
  BY <1>3 DEF OneDriver
<1>6. \A e \in Drivers : ~At(e, "idle")' => InOrder(drivers[e])' /\ StatusOK(drivers[e])'
  <2> SUFFICES ASSUME NEW e \in Drivers, ~At(e, "idle")'
               PROVE  InOrder(drivers[e])' /\ StatusOK(drivers[e])'
    OBVIOUS
  <2>1. e = d /\ new.pc # "idle"
    BY <1>3, <1>4 DEF At
  <2>2. InOrder(new)' /\ StatusOK(new)'
    BY <2>1 DEF Advances
  <2>3. drivers'[e] = new
    BY <1>4, <2>1
  <2>4. \A S : Untouched(drivers[e], S)' = Untouched(new, S)'
    BY <2>3 DEF Untouched
  <2>5. /\ AtWork(drivers[e])' = AtWork(new)' /\ Worked(drivers[e])' = Worked(new)'
        /\ Kept(drivers[e])' = Kept(new)'
    BY <2>3, <2>4 DEF AtWork, Worked, Kept
  <2>6. QED
    BY <2>2, <2>3, <2>4, <2>5 DEF InOrder, StatusOK
<1>7. Busy' = {} => new.pc = "idle"
  BY <1>4 DEF Busy, At
<1>8. QED
  BY <1>5, <1>6, <1>7 DEF OrderInv, Advances

\* A step that leaves the nodes alone leaves alone what is said of them.
LEMMA SameNodes ==
    ASSUME UNCHANGED <<nodes, tries>>
    PROVE  /\ Stuck' = Stuck /\ Done' = Done /\ Quiet' = Quiet /\ SomeWaits' = SomeWaits
           /\ AllCompleted' = AllCompleted /\ Exhausted' = Exhausted
           /\ \A n \in Nodes : Counted(n)' = Counted(n)
           /\ \A n : DependenciesCompleted(n)' = DependenciesCompleted(n)
           /\ \A n : Ready(n)' = Ready(n)
           /\ \A S : Calm(S)' = Calm(S) /\ Reset(S)' = Reset(S)
BY DEF Stuck, Done, Quiet, SomeWaits, AllCompleted, Exhausted, Counted,
       DependenciesCompleted, Ready, Calm, Reset

LEMMA OrderArrive ==
    ASSUME TypeInv, OrderInv, NEW d \in Drivers, Arrive(d)
    PROVE  OrderInv'
<1> SUFFICES ASSUME ~overlapped'
             PROVE  OrderInv'
  BY DEF OrderInv
<1>1. /\ overlapped' = (overlapped \/ Busy # {})
      /\ UNCHANGED <<nodes, checkpoint, run, crashes, tries>>
  BY DEF Arrive, ExecuteRun, Request, Enter
<1>2. ~overlapped /\ Busy = {}
  BY <1>1
<1>3. PICK new : /\ drivers' = [drivers EXCEPT ![d] = new]
                 /\ \/ new = [Idle EXCEPT !.pc = "resetting", !.list = Nodes]
                    \/ \E n \in Nodes, op \in {"approve", "deny", "retry"} :
                          new = [Idle EXCEPT !.pc = "checking", !.op = op, !.node = n,
                                             !.state = checkpoint]
  BY DEF Arrive, ExecuteRun, Request, Enter
<1>4. drivers' = [e \in Drivers |-> IF e = d THEN new ELSE drivers[e]]
  BY <1>3, TypeOfDriver
<1>5. \A e \in Drivers : e # d => At(e, "idle")'
  BY <1>2, <1>4 DEF Busy, At
<1>6. /\ new.pc \in {"resetting", "checking"}
      /\ new.pc = "resetting" => new.list = Nodes
      /\ new.pc = "checking" => new.state = checkpoint
  BY <1>3 DEF Idle
<1>7. InOrder(new)'
  BY <1>1, <1>6 DEF InOrder, OnNode, AfterCall, InLoop, Reset
<1>8. Tells(run)' = Tells(run)
  BY <1>1, SameNodes DEF Tells
<1>9. StatusOK(new)'
  BY <1>1, <1>2, <1>6, <1>8 DEF StatusOK, OrderInv
<1>10. OneDriver' /\ Busy' # {}
  BY <1>4, <1>5, <1>6 DEF OneDriver, Busy, At
<1>11. \A e \in Drivers : ~At(e, "idle")' => InOrder(drivers[e])' /\ StatusOK(drivers[e])'
  <2> SUFFICES ASSUME NEW e \in Drivers, ~At(e, "idle")'
               PROVE  InOrder(drivers[e])' /\ StatusOK(drivers[e])'
    OBVIOUS
  <2>1. drivers'[e] = new
    BY <1>4, <1>5
  <2>2. \A S : Untouched(drivers[e], S)' = Untouched(new, S)'
    BY <2>1 DEF Untouched
  <2>3. /\ AtWork(drivers[e])' = AtWork(new)' /\ Worked(drivers[e])' = Worked(new)'
        /\ Kept(drivers[e])' = Kept(new)'
    BY <2>1, <2>2 DEF AtWork, Worked, Kept
  <2>4. QED
    BY <1>7, <1>9, <2>1, <2>2, <2>3 DEF InOrder, StatusOK
<1>12. (\A n \in Nodes : Counted(n)') /\ Resumable'
  BY <1>1, <1>2, SameNodes DEF OrderInv, Resumable
<1>13. QED
  BY <1>10, <1>11, <1>12 DEF OrderInv

\* What a driver that is at work may count on.
LEMMA OrderOfDriver ==
    ASSUME OrderInv, ~overlapped, NEW d \in Drivers, ~At(d, "idle")
    PROVE  /\ InOrder(drivers[d]) /\ StatusOK(drivers[d]) /\ Resumable
           /\ \A n \in Nodes : Counted(n)
BY DEF OrderInv

\* The nodes, when all are calm or all were reset.
LEMMA CalmNodes ==
    /\ Calm(Nodes) => Quiet /\ Stuck = {} /\ ~SomeWaits /\ Exhausted
    /\ Reset(Nodes) => Calm(Nodes) /\ Done = {}
BY DEF Calm, Quiet, Stuck, Done, SomeWaits, Exhausted, Reset, Bare

\* If no node is stuck or at work, one that is left is ready: the dependencies
\* have no cycle.
LEMMA SomeReady ==
    ASSUME TypeInv, Calm(Nodes), ~AllCompleted, \A n \in Nodes : Counted(n)
    PROVE  \E n \in Nodes : Ready(n)
<1> DEFINE S == {n \in Nodes : nodes[n].status # "completed"}
<1>1. S \in SUBSET Nodes /\ S # {}
  BY DEF AllCompleted
<1>2. PICK n \in S : Deps[n] \cap S = {}
  BY <1>1, OrchestratorAssumption
<1>3. DependenciesCompleted(n)
  BY <1>2, OrchestratorAssumption DEF DependenciesCompleted
<1>4. nodes[n].status = "pending" /\ nodes[n].retries < MaxAttempts
  BY <1>2 DEF Calm, Counted
<1>5. QED
  BY <1>2, <1>3, <1>4 DEF Ready

LEMMA OrderBegin ==
    ASSUME TypeInv, OrderInv, ~overlapped, NEW d \in Drivers,
           SaveInitialState(d) \/ MarkRunning(d) \/ LoadState(d) \/ Look(d)
    PROVE  OrderInv'
<1>1. ~At(d, "idle") /\ UNCHANGED <<nodes, tries, overlapped>>
  BY DEF SaveInitialState, MarkRunning, LoadState, Look, At, aux
<1>2. InOrder(drivers[d]) /\ StatusOK(drivers[d]) /\ Resumable /\ \A n \in Nodes : Counted(n)
  BY <1>1, OrderOfDriver
<1>3. PICK new : new = drivers'[d]
  OBVIOUS
<1>4. drivers[d] \in Driver /\ drivers = [e \in Drivers |-> drivers[e]]
  BY TypeOfDriver
<1>5. drivers' = [drivers EXCEPT ![d] = new] /\ Advances(new)'
  <2>1. CASE SaveInitialState(d)
    <3>1. /\ drivers' = [drivers EXCEPT ![d] = new] /\ drivers[d].pc = "fresh"
          /\ new.pc = "starting"
      BY <1>3, <1>4, <2>1 DEF SaveInitialState, Goto, At, Driver
    <3>2. Reset(Nodes)' /\ Stuck' = {}
      BY <1>1, <1>2, <3>1, SameNodes, CalmNodes DEF InOrder
    <3>3. InOrder(new)' /\ StatusOK(new)'
      BY <3>1, <3>2 DEF InOrder, StatusOK, OnNode, AfterCall, InLoop
    <3>4. QED
      BY <1>1, <1>2, <3>1, <3>2, <3>3, SameNodes DEF Advances, Resumable
  <2>2. CASE MarkRunning(d)
    <3>1. /\ drivers' = [drivers EXCEPT ![d] = new] /\ checkpoint' = checkpoint
          /\ \/ drivers[d].pc = "starting" /\ new.pc = "loading"
             \/ drivers[d].pc = "resuming" /\ new.pc = "looking"
          /\ new.state = drivers[d].state
      BY <1>3, <1>4, <2>2 DEF MarkRunning, Goto, At, Driver
    <3>2. /\ Calm(Nodes) /\ Quiet /\ Saved /\ Exhausted
          /\ new.pc = "looking" => Kept(new)
      BY <1>2, <3>1, CalmNodes DEF InOrder, Saved, Kept
    <3>3. /\ Calm(Nodes)' /\ Quiet' /\ Saved' /\ Exhausted'
          /\ new.pc = "looking" => Kept(new)'
      BY <1>1, <3>1, <3>2, SameNodes DEF Saved, Kept
    <3>4. InOrder(new)' /\ StatusOK(new)'
      BY <3>1, <3>3 DEF InOrder, StatusOK, OnNode, AfterCall, InLoop
    <3>5. QED
      BY <1>1, <1>2, <3>1, <3>4, SameNodes DEF Advances, Resumable
  <2>3. CASE LoadState(d)
    <3>1. /\ drivers[d].pc = "loading" /\ checkpoint' = checkpoint
          /\ new = [drivers[d] EXCEPT !.pc = "resuming", !.state = checkpoint]
      BY <1>3, <1>4, <2>3 DEF LoadState, At
    <3>2. drivers' = [drivers EXCEPT ![d] = new]
      BY <1>3, <1>4, <2>3 DEF LoadState
    <3>3. new.pc = "resuming" /\ new.state = checkpoint
      BY <1>4, <3>1 DEF Driver
    <3>4. Calm(Nodes) /\ Saved /\ Kept(new)
      BY <1>2, <3>1, <3>3 DEF InOrder, Saved, Kept
    <3>5. Calm(Nodes)' /\ Saved' /\ Kept(new)'
      BY <1>1, <3>1, <3>4, SameNodes DEF Saved, Kept
    <3>6. InOrder(new)' /\ StatusOK(new)'
      BY <3>3, <3>5 DEF InOrder, StatusOK, OnNode, AfterCall, InLoop
    <3>7. QED
      BY <1>1, <1>2, <3>1, <3>2, <3>3, <3>6, SameNodes DEF Advances, Resumable
  <2>4. CASE Look(d)
    <3>1. drivers[d].pc = "looking" /\ UNCHANGED <<checkpoint, run>>
      BY <2>4 DEF Look, At
    <3>2. /\ drivers' = [drivers EXCEPT ![d] = new]
          /\ new = IF SomeWaits
                   THEN [drivers[d] EXCEPT !.pc = "closing", !.outcome = "waiting_for_approval"]
                   ELSE [drivers[d] EXCEPT !.pc = "choosing"]
      <4>1. CASE SomeWaits
        <5>1. drivers' = [drivers EXCEPT ![d].pc = "closing",
                                         ![d].outcome = "waiting_for_approval"]
          BY <2>4, <4>1 DEF Look, SomeWaits
        <5>2. QED
          BY <1>3, <1>4, <4>1, <5>1
      <4>2. CASE ~SomeWaits
        BY <1>3, <1>4, <2>4, <4>2 DEF Look, SomeWaits, Goto
      <4>3. QED
        BY <4>1, <4>2
    <3>3. /\ new.state = drivers[d].state
          /\ \/ new.pc = "closing" /\ new.outcome = "waiting_for_approval" /\ SomeWaits
             \/ new.pc = "choosing" /\ ~SomeWaits
      BY <1>4, <3>2 DEF Driver
    <3>4. Quiet /\ Saved /\ Kept(new) /\ Exhausted
      BY <1>2, <3>1, <3>3 DEF InOrder, InLoop, Kept
    <3>5. Quiet' /\ Saved' /\ Kept(new)' /\ Exhausted' /\ SomeWaits' = SomeWaits
      BY <1>1, <3>1, <3>4, SameNodes DEF Saved, Kept
    <3>6. InOrder(new)' /\ StatusOK(new)'
      BY <3>3, <3>5 DEF InOrder, StatusOK, Tells, OnNode, AfterCall, InLoop
    <3>7. QED
      BY <1>1, <1>2, <3>1, <3>2, <3>3, <3>6, SameNodes DEF Advances, Resumable
  <2>5. QED
    BY <2>1, <2>2, <2>3, <2>4
<1>6. QED
  BY <1>1, <1>5, OrderOwn

LEMMA OrderChoose ==
    ASSUME TypeInv, OrderInv, ~overlapped, NEW d \in Drivers, Choose(d)
    PROVE  OrderInv'
<1>1. /\ ~At(d, "idle") /\ drivers[d].pc = "choosing"
      /\ UNCHANGED <<nodes, tries, overlapped, checkpoint, run, crashes>>
  BY DEF Choose, At, aux
<1>2. InOrder(drivers[d]) /\ StatusOK(drivers[d]) /\ Resumable /\ \A n \in Nodes : Counted(n)
  BY <1>1, OrderOfDriver
<1>3. PICK new : new = drivers'[d]
  OBVIOUS
<1>4. drivers[d] \in Driver /\ drivers = [e \in Drivers |-> drivers[e]]
  BY TypeOfDriver
<1>5. Quiet /\ Saved /\ Kept(drivers[d]) /\ ~SomeWaits
  BY <1>1, <1>2 DEF InOrder, InLoop
<1>6. Resumable' /\ \A n \in Nodes : Counted(n)'
  BY <1>1, <1>2, SameNodes DEF Resumable
<1>7. CASE /\ AllCompleted
           /\ drivers' = [drivers EXCEPT ![d].pc = "closing", ![d].outcome = "completed"]
  <2>1. /\ drivers' = [drivers EXCEPT ![d] = new]
        /\ new = [drivers[d] EXCEPT !.pc = "closing", !.outcome = "completed"]
    BY <1>3, <1>4, <1>7
  <2>2. new.pc = "closing" /\ new.outcome = "completed" /\ new.state = drivers[d].state
    BY <1>4, <2>1 DEF Driver
  <2>3. Quiet' /\ Saved' /\ Kept(new)' /\ AllCompleted'
    BY <1>1, <1>5, <1>7, <2>2, SameNodes DEF Saved, Kept
  <2>4. InOrder(new)' /\ StatusOK(new)'
    BY <2>2, <2>3 DEF InOrder, StatusOK, Tells, OnNode, AfterCall, InLoop
  <2>5. QED
    BY <1>1, <1>6, <2>1, <2>2, <2>4, OrderOwn DEF Advances
<1>8. CASE /\ ~AllCompleted /\ (TerminalFailures # {} \/ ~\E n \in Nodes : Ready(n))
           /\ drivers' = [drivers EXCEPT ![d].pc = "closing", ![d].outcome = "failed"]
  <2>1. /\ drivers' = [drivers EXCEPT ![d] = new]
        /\ new = [drivers[d] EXCEPT !.pc = "closing", !.outcome = "failed"]
    BY <1>3, <1>4, <1>8
  <2>2. new.pc = "closing" /\ new.outcome = "failed" /\ new.state = drivers[d].state
    BY <1>4, <2>1 DEF Driver
  <2>3. \E n \in Nodes : nodes[n].status = "failed"
    <3>1. CASE TerminalFailures # {}
      BY <3>1 DEF TerminalFailures
    <3>2. CASE ~\E n \in Nodes : Ready(n)
      <4>1. ~Calm(Nodes)
        BY <1>2, <1>8, <3>2, SomeReady
      <4>2. Stuck # {}
        BY <1>5, <4>1 DEF Quiet, Calm
      <4>3. QED
        BY <1>5, <4>2 DEF Stuck, SomeWaits
    <3>3. QED
      BY <1>8, <3>1, <3>2
  <2>4. Quiet' /\ Saved' /\ Kept(new)' /\ \E n \in Nodes : nodes'[n].status = "failed"
    BY <1>1, <1>5, <2>2, <2>3, SameNodes DEF Saved, Kept
  <2>5. InOrder(new)' /\ StatusOK(new)'
    BY <2>2, <2>4 DEF InOrder, StatusOK, Tells, OnNode, AfterCall, InLoop
  <2>6. QED
    BY <1>1, <1>6, <2>1, <2>2, <2>5, OrderOwn DEF Advances
<1>9. CASE /\ TerminalFailures = {} /\ \E n \in Nodes : Ready(n)
           /\ drivers' = [drivers EXCEPT ![d].pc = "executing", ![d].seen = nodes,
                                         ![d].list = {n \in Nodes : Ready(n)}]
  <2>1. /\ drivers' = [drivers EXCEPT ![d] = new]
        /\ new = [drivers[d] EXCEPT !.pc = "executing", !.seen = nodes,
                                    !.list = {n \in Nodes : Ready(n)}]
    BY <1>3, <1>4, <1>9
  <2>2. /\ new.pc = "executing" /\ new.seen = nodes /\ new.state = drivers[d].state
        /\ new.list = {n \in Nodes : Ready(n)}
    BY <1>4, <2>1 DEF Driver
  \* No node is stuck: it would wait, or be a terminal failure.
  <2>3. Calm(Nodes)
    <3>1. Stuck = {}
      BY <1>1, <1>2, <1>5, <1>9 DEF InOrder, Exhausted, TerminalFailures, Stuck, SomeWaits
    <3>2. QED
      BY <1>5, <3>1 DEF Quiet, Calm
  <2>4. Untouched(new, new.list)
    BY <2>2 DEF Untouched
  <2>5. Calm(Nodes)' /\ Saved' /\ Kept(new)' /\ Untouched(new, new.list)'
    BY <1>1, <1>5, <2>2, <2>3, <2>4, SameNodes DEF Saved, Kept, Untouched
  <2>6. InOrder(new)' /\ StatusOK(new)'
    BY <2>2, <2>5 DEF InOrder, StatusOK, OnNode, AfterCall, InLoop
  <2>7. QED
    BY <1>1, <1>6, <2>1, <2>2, <2>6, OrderOwn DEF Advances
<1>10. QED
  BY <1>7, <1>8, <1>9 DEF Choose

\* The ways out of the loop.
LEMMA OrderEnd ==
    ASSUME TypeInv, OrderInv, ~overlapped, NEW d \in Drivers,
           Close(d) \/ SaveAndReturn(d) \/ Pause(d) \/ ReportDenied(d)
    PROVE  OrderInv'
<1>1. ~At(d, "idle") /\ UNCHANGED <<nodes, tries, overlapped, crashes>>
  BY DEF Close, SaveAndReturn, Pause, ReportDenied, At, aux
<1>2. InOrder(drivers[d]) /\ StatusOK(drivers[d]) /\ Resumable /\ \A n \in Nodes : Counted(n)
  BY <1>1, OrderOfDriver
<1>3. LocalOK(drivers[d]) /\ drivers[d] \in Driver /\ drivers = [e \in Drivers |-> drivers[e]]
  BY TypeOfDriver
<1>4. run \in {"pending", "running", "waiting_for_approval", "completed", "failed"}
  BY DEF TypeInv, OrchestratorTypeOK
<1>5. CASE Close(d)
  <2>1. PICK new : new = drivers'[d]
    OBVIOUS
  <2>2. /\ drivers' = [drivers EXCEPT ![d] = new]
        /\ new = [drivers[d] EXCEPT !.pc = "saving"]
        /\ drivers[d].pc = "closing" /\ run' = drivers[d].outcome /\ checkpoint' = checkpoint
    BY <1>3, <1>5, <2>1 DEF Close, Goto, At
  <2>3. new.pc = "saving" /\ new.state = drivers[d].state
    BY <1>3, <2>2 DEF Driver
  <2>4. Quiet' /\ Saved' /\ Kept(new)'
    BY <1>1, <1>2, <2>2, <2>3, SameNodes DEF InOrder, InLoop, Saved, Kept
  <2>5. run' # "pending" /\ Tells(run)'
    BY <1>1, <1>2, <2>2, SameNodes DEF StatusOK, Tells
  <2>6. InOrder(new)' /\ StatusOK(new)'
    BY <2>3, <2>4, <2>5 DEF InOrder, StatusOK, OnNode, AfterCall, InLoop
  <2>7. QED
    BY <1>1, <1>2, <2>2, <2>3, <2>6, OrderOwn, SameNodes DEF Advances, Resumable
<1>6. CASE SaveAndReturn(d)
  <2>1. /\ drivers' = [drivers EXCEPT ![d] = Idle] /\ run' = run
        /\ drivers[d].pc = "saving" /\ checkpoint' = drivers[d].state
    BY <1>6 DEF SaveAndReturn, At
  <2>2. Quiet /\ Kept(drivers[d]) /\ run # "pending" /\ Tells(run)
    BY <1>2, <2>1 DEF InOrder, InLoop, StatusOK
  <2>3. Resumable'
    BY <1>1, <2>1, <2>2, SameNodes DEF Resumable, Kept
  <2>4. Tells(run)'
    BY <1>1, <1>4, <2>1, <2>2, SameNodes DEF Tells
  <2>5. QED
    BY <1>1, <1>2, <2>1, <2>3, <2>4, InitialStateType, OrderOwn, SameNodes DEF Advances
<1>7. CASE Pause(d)
  <2>1. /\ drivers' = [drivers EXCEPT ![d] = Idle] /\ run' = "waiting_for_approval"
        /\ drivers[d].pc = "pausing" /\ checkpoint' = checkpoint
    BY <1>7 DEF Pause, At
  <2>2. Tells(run)'
    BY <1>1, <1>2, <2>1, SameNodes DEF InOrder, Tells
  <2>3. QED
    BY <1>1, <1>2, <2>1, <2>2, InitialStateType, OrderOwn, SameNodes DEF Advances, Resumable
<1>8. CASE ReportDenied(d)
  <2>1. /\ drivers' = [drivers EXCEPT ![d] = Idle] /\ run' = "failed"
        /\ drivers[d].pc = "failing" /\ checkpoint' = checkpoint
    BY <1>8 DEF ReportDenied, At
  <2>2. drivers[d].node \in Nodes /\ nodes[drivers[d].node].status = "failed"
    BY <1>2, <1>3, <2>1 DEF InOrder, LocalOK, Deciding
  <2>3. Tells(run)'
    BY <1>1, <2>1, <2>2 DEF Tells
  <2>4. QED
    BY <1>1, <1>2, <2>1, <2>3, InitialStateType, OrderOwn, SameNodes DEF Advances, Resumable
<1>9. QED
  BY <1>5, <1>6, <1>7, <1>8

\* A driver that dies in between leaves a run that can be resumed.
LEMMA OrderCrash ==
    ASSUME TypeInv, OrderInv, NEW d \in Drivers, Crash(d)
    PROVE  OrderInv'
<1>1. /\ ~At(d, "idle") /\ drivers' = [drivers EXCEPT ![d] = Idle]
      /\ crashes' = crashes + 1 /\ UNCHANGED <<nodes, tries, overlapped, checkpoint>>
  BY DEF Crash, aux
<1>2. crashes' # 0
  BY <1>1, OrchestratorAssumption DEF TypeInv, OrchestratorTypeOK
<1>3. ~overlapped => Advances(Idle)'
  BY <1>1, <1>2, InitialStateType, OrderOfDriver, SameNodes DEF Advances, Resumable
<1>4. QED
  BY <1>1, <1>3, OrderOwn

\* The steps on one node start from these facts.
LEMMA OneNode ==
    ASSUME TypeInv, NEW n \in Nodes, NEW record, nodes' = [nodes EXCEPT ![n] = record]
    PROVE  /\ nodes'[n] = record
           /\ \A m \in Nodes : m # n => nodes'[m] = nodes[m]
           /\ \A m \in Nodes : nodes[m].retries \in Nat /\ tries[m] \in Nat
           /\ MaxAttempts \in Nat \ {0}
BY OrchestratorAssumption DEF TypeInv, OrchestratorTypeOK, NodeRecord

\* Another node stays ready while a node that has not completed changes.
LEMMA ReadyKept ==
    ASSUME TypeInv, NEW n \in Nodes, NEW record, nodes' = [nodes EXCEPT ![n] = record],
           nodes[n].status # "completed", NEW m \in Nodes
    PROVE  /\ DependenciesCompleted(m) => DependenciesCompleted(m)'
           /\ m # n /\ Ready(m) => Ready(m)'
<1>1. Deps[m] \subseteq Nodes
  BY OrchestratorAssumption
<1>2. DependenciesCompleted(m) => DependenciesCompleted(m)'
  BY <1>1, OneNode DEF DependenciesCompleted
<1>3. QED
  BY <1>2, OneNode DEF Ready

LEMMA OrderReset ==
    ASSUME TypeInv, OrderInv, ~overlapped, NEW d \in Drivers, ResetNode(d)
    PROVE  OrderInv'
<1>1. /\ ~At(d, "idle") /\ drivers[d].pc = "resetting"
      /\ UNCHANGED <<overlapped, crashes, checkpoint, run>>
  BY DEF ResetNode, At
<1>2. InOrder(drivers[d]) /\ Resumable /\ \A n \in Nodes : Counted(n)
  BY <1>1, OrderOfDriver
<1>3. LocalOK(drivers[d]) /\ drivers[d] \in Driver /\ drivers = [e \in Drivers |-> drivers[e]]
  BY TypeOfDriver
<1>4. PICK n : n = Current(d)
  OBVIOUS
<1>5. n \in drivers[d].list /\ n \in Nodes /\ drivers[d].list \subseteq Nodes
  BY <1>1, <1>3, <1>4, TypeOfDriver DEF LocalOK, Driver
<1>6. /\ nodes' = [nodes EXCEPT ![n] = Bare]
      /\ tries' = [tries EXCEPT ![n] = 0]
  BY <1>4 DEF ResetNode, Upsert, Bare
<1>7. PICK new : new = drivers'[d]
  OBVIOUS
<1>8. /\ drivers' = [drivers EXCEPT ![d] = new]
      /\ new.list = drivers[d].list \ {n}
      /\ new.pc = IF drivers[d].list = {n} THEN "fresh" ELSE "resetting"
  <2>1. PICK pc, list :
           /\ drivers' = [drivers EXCEPT ![d].list = list, ![d].pc = pc]
           /\ list = drivers[d].list \ {n}
           /\ pc = IF drivers[d].list = {n} THEN "fresh" ELSE "resetting"
    BY <1>4 DEF ResetNode, At
  <2>2. /\ drivers' = [drivers EXCEPT ![d] = new]
        /\ new = [drivers[d] EXCEPT !.list = list, !.pc = pc]
    BY <1>3, <1>7, <2>1
  <2>3. QED
    BY <1>3, <2>1, <2>2 DEF Driver
<1>9. tries \in [Nodes -> Nat]
  BY DEF TypeInv, OrchestratorTypeOK
<1>10. Reset(Nodes \ new.list)'
  <2>1. Reset(Nodes \ drivers[d].list)
    BY <1>1, <1>2 DEF InOrder
  <2>2. QED
    BY <1>5, <1>6, <1>8, <1>9, <2>1, OneNode, ZenonT(40) DEF Reset
<1>11. new.pc = "fresh" => Reset(Nodes)'
  BY <1>8, <1>10 DEF Reset
<1>12. InOrder(new)' /\ StatusOK(new)'
  BY <1>8, <1>10, <1>11 DEF InOrder, StatusOK, OnNode, AfterCall, InLoop
<1>13. \A m \in Nodes : Counted(m)'
  <2> SUFFICES ASSUME NEW m \in Nodes
               PROVE  Counted(m)'
    OBVIOUS
  <2>1. CASE m = n
    <3>1. nodes'[m] = Bare /\ tries'[m] = 0 /\ MaxAttempts \in Nat \ {0}
      BY <1>5, <1>6, <1>9, <2>1, OneNode
    <3>2. QED
      BY <3>1 DEF Counted, Bare
  <2>2. CASE m # n
    <3>1. nodes'[m] = nodes[m] /\ tries'[m] = tries[m]
      BY <1>5, <1>6, <1>9, <2>2, OneNode
    <3>2. QED
      BY <1>2, <3>1 DEF Counted
  <2>3. QED
    BY <2>1, <2>2
<1>14. Resumable'
  <2>1. Stuck' \subseteq Stuck /\ Done' \subseteq Done
    BY <1>5, <1>6, OneNode DEF Stuck, Done, Bare
  <2>2. Quiet => Quiet'
    BY <1>5, <1>6, <2>1, OneNode DEF Quiet, Calm, Stuck, Bare
  <2>3. QED
    BY <1>1, <1>2, <2>1, <2>2 DEF Resumable
<1>15. QED
  BY <1>1, <1>8, <1>12, <1>13, <1>14, OrderOwn DEF Advances

LEMMA OrderBeginNode ==
    ASSUME TypeInv, OrderInv, ~overlapped, NEW d \in Drivers, BeginNode(d)
    PROVE  OrderInv'
<1>1. /\ ~At(d, "idle") /\ drivers[d].pc = "executing"
      /\ UNCHANGED <<overlapped, crashes, checkpoint, run, tries>>
  BY DEF BeginNode, At, aux
<1>2. InOrder(drivers[d]) /\ Resumable /\ \A n \in Nodes : Counted(n)
  BY <1>1, OrderOfDriver
<1>3. LocalOK(drivers[d]) /\ drivers[d] \in Driver /\ drivers = [e \in Drivers |-> drivers[e]]
  BY TypeOfDriver
<1>4. PICK n : n = Current(d)
  OBVIOUS
<1>5. n \in drivers[d].list /\ n \in Nodes /\ drivers[d].list \subseteq Nodes
  BY <1>1, <1>3, <1>4, TypeOfDriver DEF LocalOK, Driver
<1>6. PICK record : /\ record = [drivers[d].seen[n] EXCEPT !.status = "running"]
                    /\ nodes' = [nodes EXCEPT ![n] = record]
  BY <1>4 DEF BeginNode, Upsert
<1>7. drivers[d].seen[n] \in NodeRecord
  BY <1>3, <1>5 DEF Driver
<1>8. record = [status |-> "running", retries |-> drivers[d].seen[n].retries]
  BY <1>6, <1>7 DEF NodeRecord
<1>9. PICK new : new = drivers'[d]
  OBVIOUS
<1>10. /\ drivers' = [drivers EXCEPT ![d] = new]
       /\ new = [drivers[d] EXCEPT !.pc = "begun"]
  BY <1>3, <1>9 DEF BeginNode, Goto
<1>11. /\ new.pc = "begun" /\ new.state = drivers[d].state /\ new.list = drivers[d].list
       /\ new.seen = drivers[d].seen
  BY <1>3, <1>10 DEF Driver
<1>12. /\ Calm(Nodes) /\ Saved /\ Kept(drivers[d])
       /\ Untouched(drivers[d], drivers[d].list)
  BY <1>1, <1>2 DEF InOrder
<1>13. /\ nodes[n] = drivers[d].seen[n] /\ Ready(n) /\ nodes[n].status = "pending"
  BY <1>5, <1>12 DEF Untouched, Calm, Ready
<1>14. Done' = Done /\ Stuck' = {} /\ Calm(Nodes \ {n})'
  BY <1>5, <1>6, <1>8, <1>12, <1>13, OneNode DEF Done, Stuck, Calm
<1>15. Untouched(new, new.list \ {n})'
  <2> SUFFICES ASSUME NEW m \in drivers[d].list, m # n
               PROVE  nodes'[m] = drivers[d].seen[m] /\ Ready(m)'
    BY <1>11 DEF Untouched
  <2>1. nodes[m] = drivers[d].seen[m] /\ Ready(m) /\ m \in Nodes
    BY <1>5, <1>12 DEF Untouched
  <2>2. QED
    BY <1>5, <1>6, <1>13, <2>1, OneNode, ReadyKept
<1>16. First(new.list) = n
  BY <1>4, <1>11 DEF Current
<1>17. tries'[n] <= new.seen[n].retries
  BY <1>1, <1>2, <1>5, <1>11, <1>13 DEF Counted
<1>18. DependenciesCompleted(n)'
  BY <1>5, <1>6, <1>13, ReadyKept DEF Ready
<1>19. AtWork(new)'
  <2>1. nodes'[n] = [status |-> "running", retries |-> new.seen[n].retries]
    <3>1. nodes'[n] = record
      BY <1>5, <1>6, OneNode
    <3>2. QED
      BY <1>8, <1>11, <3>1
  <2>2. new.seen[n].retries \in Nat
    BY <1>7, <1>11 DEF NodeRecord
  <2>3. QED
    BY <1>11, <1>14, <1>15, <1>16, <1>17, <1>18, <2>1, <2>2 DEF AtWork
<1>20. Saved' /\ Kept(new)'
  BY <1>1, <1>11, <1>12, <1>14 DEF Saved, Kept
<1>21. InOrder(new)' /\ StatusOK(new)'
  BY <1>11, <1>19, <1>20 DEF InOrder, StatusOK, OnNode, AfterCall, InLoop
<1>22. \A m \in Nodes : Counted(m)'
  BY <1>1, <1>2, <1>5, <1>6, <1>8, <1>13, OneNode DEF Counted, Ready
<1>23. QED
  BY <1>1, <1>10, <1>11, <1>14, <1>21, <1>22, OrderOwn DEF Advances, Resumable

\* While a node is worked on, none is stuck, and it has not completed.
LEMMA NoneStuck ==
    ASSUME TypeInv, NEW x, x.pc \in OnNode, AtWork(x), First(x.list) \in Nodes
    PROVE  /\ Stuck = {} /\ nodes[First(x.list)].status = "running"
           /\ First(x.list) \notin Done
BY DEF AtWork, Calm, Stuck, Done

LEMMA OrderCall ==
    ASSUME TypeInv, OrderInv, ~overlapped, NEW d \in Drivers,
           SaveBegun(d) \/ Authorize(d) \/ Answer(d)
    PROVE  OrderInv'
<1>1. /\ ~At(d, "idle") /\ drivers[d].pc \in {"begun", "gating", "working"}
      /\ UNCHANGED <<overlapped, crashes, run, nodes>>
      /\ checkpoint' \in {checkpoint, drivers[d].state}
  BY DEF SaveBegun, Authorize, Answer, At, aux
<1>2. InOrder(drivers[d]) /\ Resumable /\ \A n \in Nodes : Counted(n)
  BY <1>1, OrderOfDriver
<1>3. LocalOK(drivers[d]) /\ drivers[d] \in Driver /\ drivers = [e \in Drivers |-> drivers[e]]
  BY TypeOfDriver
<1>4. PICK n : n = Current(d)
  OBVIOUS
<1>5. n \in drivers[d].list /\ n \in Nodes /\ drivers[d].list \subseteq Nodes
  BY <1>1, <1>3, <1>4, TypeOfDriver DEF LocalOK, Driver, OnNode
<1>6. PICK new : new = drivers'[d]
  OBVIOUS
<1>7. /\ drivers' = [drivers EXCEPT ![d] = new]
      /\ new.list = drivers[d].list /\ new.seen = drivers[d].seen
      /\ new.state = drivers[d].state
      /\ \/ /\ drivers[d].pc = "gating" /\ new.pc = "working"
            /\ tries' = [tries EXCEPT ![n] = @ + 1]
         \/ /\ drivers[d].pc \in {"gating", "working"} /\ new.pc = "finishing"
            /\ tries' = tries
         \/ drivers[d].pc = "begun" /\ new.pc = "gating" /\ tries' = tries
  <2>1. CASE SaveBegun(d)
    <3>1. /\ drivers' = [drivers EXCEPT ![d] = new] /\ new = [drivers[d] EXCEPT !.pc = "gating"]
      BY <1>3, <1>6, <2>1 DEF SaveBegun, Goto
    <3>2. QED
      BY <1>3, <2>1, <3>1 DEF SaveBegun, At, aux, Driver
  <2>2. CASE Authorize(d) /\ drivers' = [drivers EXCEPT ![d].pc = "working"]
    <3>1. /\ drivers' = [drivers EXCEPT ![d] = new] /\ new = [drivers[d] EXCEPT !.pc = "working"]
      BY <1>3, <1>6, <2>2
    <3>2. drivers[d].pc = "gating" /\ new.pc = "working"
      BY <1>3, <2>2, <3>1 DEF Authorize, At, Driver
    <3>3. tries' = [tries EXCEPT ![n] = @ + 1]
      <4>1. ASSUME NEW outcome,
                   drivers' = [drivers EXCEPT ![d].pc = "finishing", ![d].outcome = outcome]
            PROVE  FALSE
        <5>1. drivers'[d] = [drivers[d] EXCEPT !.pc = "finishing", !.outcome = outcome]
          BY <1>3, <4>1
        <5>2. drivers'[d].pc = "finishing"
          BY <1>3, <5>1 DEF Driver
        <5>3. QED
          BY <1>6, <3>2, <5>2
      <4>2. QED
        BY <1>4, <2>2, <4>1 DEF Authorize
    <3>4. QED
      BY <1>3, <3>1, <3>2, <3>3 DEF Driver
  <2>3. ASSUME NEW outcome, tries' = tries, Authorize(d) \/ Answer(d),
               drivers' = [drivers EXCEPT ![d].pc = "finishing", ![d].outcome = outcome]
        PROVE  <1>7!:
    <3>1. /\ drivers' = [drivers EXCEPT ![d] = new]
          /\ new = [drivers[d] EXCEPT !.pc = "finishing", !.outcome = outcome]
      BY <1>3, <1>6, <2>3
    <3>2. QED
      BY <1>3, <2>3, <3>1 DEF Authorize, Answer, At, Driver
  <2>4. QED
    BY <2>1, <2>2, <2>3 DEF Authorize, Answer, aux, Goto
<1>8. AtWork(drivers[d]) /\ Saved /\ Kept(drivers[d]) /\ First(drivers[d].list) = n
  BY <1>1, <1>2, <1>4 DEF InOrder, OnNode, Current
<1>9. Stuck' = {} /\ Done' = Done /\ nodes[n].status = "running"
  <2>1. Stuck = {} /\ nodes[n].status = "running"
    BY <1>1, <1>5, <1>8, NoneStuck DEF OnNode
  <2>2. QED
    BY <1>1, <2>1 DEF Stuck, Done
<1>10. Saved' /\ Kept(new)'
  BY <1>1, <1>7, <1>8, <1>9 DEF Saved, Kept
<1>11. /\ nodes[n] = [status |-> "running", retries |-> drivers[d].seen[n].retries]
       /\ drivers[d].seen[n].retries = nodes[n].retries
       /\ nodes[n].retries \in Nat /\ tries[n] \in Nat /\ MaxAttempts \in Nat
       /\ tries \in [Nodes -> Nat] /\ nodes[n].retries < MaxAttempts
  <2>1. /\ nodes[n].retries \in Nat /\ tries[n] \in Nat /\ MaxAttempts \in Nat
        /\ tries \in [Nodes -> Nat]
    BY <1>5, OrchestratorAssumption DEF TypeInv, OrchestratorTypeOK, NodeRecord
  <2>2. nodes[n] = [status |-> "running", retries |-> drivers[d].seen[n].retries]
    BY <1>8 DEF AtWork
  <2>3. nodes[n].retries < MaxAttempts
    BY <1>2, <1>5, <1>9 DEF Counted
  <2>4. QED
    BY <2>1, <2>2, <2>3
<1>12. tries'[n] <= nodes[n].retries + IF new.pc = "gating" THEN 0 ELSE 1
  <2>1. tries[n] <= nodes[n].retries + IF drivers[d].pc \in {"begun", "gating"} THEN 0 ELSE 1
    BY <1>8, <1>11 DEF AtWork
  <2>2. CASE new.pc = "working"
    <3>1. tries[n] <= nodes[n].retries /\ tries'[n] = tries[n] + 1
      BY <1>5, <1>7, <1>11, <2>1, <2>2
    <3>2. QED
      BY <1>11, <2>2, <3>1
  <2>3. CASE new.pc = "gating" \/ new.pc = "finishing"
    BY <1>7, <1>11, <2>1, <2>3
  <2>4. QED
    BY <1>7, <2>2, <2>3
<1>13. AtWork(new)'
  <2>1. Calm(Nodes \ {n})' /\ DependenciesCompleted(n)' /\ Untouched(new, new.list \ {n})'
    BY <1>1, <1>7, <1>8
    DEF AtWork, Calm, DependenciesCompleted, Untouched, Ready
  <2>2. /\ tries'[n] <= new.seen[n].retries + IF new.pc \in {"begun", "gating"} THEN 0 ELSE 1
        /\ nodes'[n] = [status |-> "running", retries |-> new.seen[n].retries]
    BY <1>1, <1>7, <1>11, <1>12
  <2>3. QED
    BY <1>7, <1>8, <2>1, <2>2 DEF AtWork
<1>14. InOrder(new)' /\ StatusOK(new)'
  BY <1>7, <1>10, <1>13 DEF InOrder, StatusOK, OnNode, AfterCall, InLoop
<1>15. \A m \in Nodes : Counted(m)'
  <2> SUFFICES ASSUME NEW m \in Nodes
               PROVE  Counted(m)'
    OBVIOUS
  <2>1. CASE m = n
    <3>1. tries'[n] <= MaxAttempts
      <4>1. tries'[n] \in Nat
        BY <1>5, <1>7, <1>11
      <4>2. QED
        BY <1>11, <1>12, <4>1
    <3>2. QED
      BY <1>1, <1>9, <1>11, <2>1, <3>1 DEF Counted
  <2>2. CASE m # n
    <3>1. nodes'[m] = nodes[m] /\ tries'[m] = tries[m]
      BY <1>1, <1>7, <1>11, <2>2
    <3>2. QED
      BY <1>2, <3>1 DEF Counted
  <2>3. QED
    BY <2>1, <2>2
<1>16. QED
  BY <1>1, <1>7, <1>9, <1>14, <1>15, OrderOwn DEF Advances, Resumable

LEMMA OrderFinish ==
    ASSUME TypeInv, OrderInv, ~overlapped, NEW d \in Drivers, FinishNode(d)
    PROVE  OrderInv'
<1>1. /\ ~At(d, "idle") /\ drivers[d].pc = "finishing"
      /\ UNCHANGED <<overlapped, crashes, run, checkpoint, tries>>
  BY DEF FinishNode, At, aux
<1>2. InOrder(drivers[d]) /\ Resumable /\ \A n \in Nodes : Counted(n)
  BY <1>1, OrderOfDriver
<1>3. LocalOK(drivers[d]) /\ drivers[d] \in Driver /\ drivers = [e \in Drivers |-> drivers[e]]
  BY TypeOfDriver
<1>4. PICK n : n = Current(d)
  OBVIOUS
<1>5. n \in drivers[d].list /\ n \in Nodes /\ drivers[d].list \subseteq Nodes
  BY <1>1, <1>3, <1>4, TypeOfDriver DEF LocalOK, Driver, OnNode
<1>6. PICK record :
         /\ record = Outcome(drivers[d].seen[n], drivers[d].outcome)
         /\ nodes' = [nodes EXCEPT ![n] = record]
         /\ drivers' = [drivers EXCEPT ![d].pc = "recording", ![d].outcome = record.status,
               ![d].state.outputs = IF record.status = "completed" THEN @ \cup {n} ELSE @]
  BY <1>4 DEF FinishNode, Upsert
<1>7. PICK new : new = drivers'[d]
  OBVIOUS
<1>8. /\ drivers' = [drivers EXCEPT ![d] = new]
      /\ new.pc = "recording" /\ new.outcome = record.status
      /\ new.list = drivers[d].list /\ new.seen = drivers[d].seen
      /\ new.state.outputs = IF record.status = "completed"
                             THEN drivers[d].state.outputs \cup {n} ELSE drivers[d].state.outputs
  <2>1. PICK outputs :
           outputs = IF record.status = "completed"
                     THEN drivers[d].state.outputs \cup {n} ELSE drivers[d].state.outputs
    OBVIOUS
  <2>2. /\ drivers' = [drivers EXCEPT ![d] = new]
        /\ new = [drivers[d] EXCEPT !.pc = "recording", !.outcome = record.status,
                                    !.state.outputs = outputs]
    BY <1>3, <1>6, <1>7, <2>1, ZenonT(40)
  <2>3. QED
    BY <1>3, <2>1, <2>2 DEF Driver, State
<1>9. AtWork(drivers[d]) /\ Saved /\ Kept(drivers[d]) /\ First(drivers[d].list) = n
  BY <1>1, <1>2, <1>4 DEF InOrder, OnNode, Current
<1>10. Stuck = {} /\ nodes[n].status = "running" /\ n \notin Done
  BY <1>1, <1>5, <1>9, NoneStuck DEF OnNode
<1>11. PICK old : old = drivers[d].seen[n]
  OBVIOUS
<1>12. /\ old \in NodeRecord /\ old.retries \in Nat /\ tries[n] \in Nat
       /\ MaxAttempts \in Nat \ {0} /\ old.retries < MaxAttempts
       /\ tries[n] <= old.retries + 1
  <2>1. old \in NodeRecord /\ old.retries \in Nat /\ tries[n] \in Nat /\ MaxAttempts \in Nat \ {0}
    BY <1>3, <1>5, <1>11, OrchestratorAssumption
    DEF Driver, TypeInv, OrchestratorTypeOK, NodeRecord
  <2>2. nodes[n].retries = old.retries /\ tries[n] <= old.retries + 1
    BY <1>1, <1>9, <1>11 DEF AtWork
  <2>3. nodes[n].retries < MaxAttempts
    BY <1>2, <1>5, <1>10 DEF Counted
  <2>4. QED
    BY <2>1, <2>2, <2>3
<1>13. /\ record.status \in {"completed", "pending", "failed", "waiting_for_approval"}
       /\ record.retries \in Nat
       /\ record.status = "pending" => tries[n] <= record.retries /\ record.retries < MaxAttempts
       /\ record.status = "waiting_for_approval" => record.retries < MaxAttempts
       /\ record.status = "failed" => record.retries >= MaxAttempts
  <2>1. drivers[d].outcome \in {"completed", "failed", "waiting_for_approval"}
    BY <1>1, <1>3 DEF LocalOK
  <2>2. CASE drivers[d].outcome # "failed"
    <3>1. record.status = drivers[d].outcome /\ record.retries = old.retries
      BY <1>6, <1>11, <1>12, <2>2 DEF Outcome, NodeRecord
    <3>2. QED
      BY <1>12, <2>1, <2>2, <3>1
  <2>3. CASE drivers[d].outcome = "failed"
    <3>1. /\ record.status = IF old.retries + 1 < MaxAttempts THEN "pending" ELSE "failed"
          /\ record.retries = old.retries + 1
      BY <1>6, <1>11, <2>3 DEF Outcome
    <3>2. QED
      BY <1>12, <3>1
  <2>4. QED
    BY <2>2, <2>3
<1>14. nodes'[n] = record /\ \A m \in Nodes : m # n => nodes'[m] = nodes[m]
  BY <1>5, <1>6, OneNode
<1>15. /\ Done' \ {n} \subseteq Done /\ (record.status = "completed" <=> n \in Done')
       /\ Stuck' \subseteq {n} /\ Calm(Nodes \ {n})'
  <2>1. Calm(Nodes \ {n})
    BY <1>9 DEF AtWork
  <2>2. QED
    BY <1>5, <1>10, <1>14, <2>1 DEF Done, Stuck, Calm
<1>16. \A m \in Nodes : Counted(m)'
  <2> SUFFICES ASSUME NEW m \in Nodes
               PROVE  Counted(m)'
    OBVIOUS
  <2>1. CASE m = n
    BY <1>1, <1>12, <1>13, <1>14, <2>1 DEF Counted
  <2>2. CASE m # n
    BY <1>1, <1>2, <1>14, <2>2 DEF Counted
  <2>3. QED
    BY <2>1, <2>2
<1>17. Resumable'
  <2>1. Stuck' # {} => Quiet'
    BY <1>15 DEF Quiet, Calm, Stuck
  <2>2. Stuck' # {} => n \notin Done'
    BY <1>15 DEF Stuck, Done
  <2>3. QED
    BY <1>1, <1>9, <1>15, <2>1, <2>2 DEF Resumable, Saved
<1>18. Untouched(new, new.list \ {n})'
  <2> SUFFICES ASSUME NEW m \in drivers[d].list, m # n
               PROVE  nodes'[m] = drivers[d].seen[m] /\ Ready(m)'
    BY <1>8 DEF Untouched
  <2>1. nodes[m] = drivers[d].seen[m] /\ Ready(m) /\ m \in Nodes
    BY <1>5, <1>9 DEF AtWork, Untouched
  <2>2. QED
    BY <1>5, <1>6, <1>10, <1>14, <2>1, ReadyKept
<1>19. Worked(new)'
  BY <1>1, <1>8, <1>9, <1>13, <1>14, <1>15, <1>18 DEF Worked, Saved
<1>20. Kept(new)'
  BY <1>8, <1>9, <1>15 DEF Kept
<1>21. InOrder(new)' /\ StatusOK(new)'
  BY <1>8, <1>19, <1>20 DEF InOrder, StatusOK, OnNode, AfterCall, InLoop
<1>22. QED
  BY <1>1, <1>8, <1>16, <1>17, <1>21, OrderOwn DEF Advances

LEMMA OrderRecord ==
    ASSUME TypeInv, OrderInv, ~overlapped, NEW d \in Drivers, SaveOutcome(d)
    PROVE  OrderInv'
<1>1. /\ ~At(d, "idle") /\ drivers[d].pc = "recording" /\ checkpoint' = drivers[d].state
      /\ UNCHANGED <<overlapped, crashes, run, nodes, tries>>
  BY DEF SaveOutcome, At, aux
<1>2. InOrder(drivers[d]) /\ Resumable /\ \A n \in Nodes : Counted(n)
  BY <1>1, OrderOfDriver
<1>3. drivers[d] \in Driver /\ drivers = [e \in Drivers |-> drivers[e]]
  BY TypeOfDriver
<1>4. PICK new : new = drivers'[d]
  OBVIOUS
<1>5. /\ drivers' = [drivers EXCEPT ![d] = new] /\ new.pc = "reloading"
      /\ new.list = drivers[d].list /\ new.seen = drivers[d].seen
      /\ new.state = drivers[d].state /\ new.outcome = drivers[d].outcome
  <2>1. /\ drivers' = [drivers EXCEPT ![d] = new]
        /\ new = [drivers[d] EXCEPT !.pc = "reloading"]
    BY <1>3, <1>4 DEF SaveOutcome, Goto
  <2>2. QED
    BY <1>3, <2>1 DEF Driver
<1>6. Worked(drivers[d]) /\ Kept(drivers[d])
  BY <1>1, <1>2 DEF InOrder, AfterCall
<1>7. Kept(new)' /\ Resumable'
  BY <1>1, <1>2, <1>5, <1>6, SameNodes DEF Kept, Resumable
<1>8. Worked(new)'
  BY <1>1, <1>5, <1>6, SameNodes DEF Worked, Kept, Untouched
<1>9. InOrder(new)' /\ StatusOK(new)'
  BY <1>1, <1>5, <1>7, <1>8 DEF InOrder, StatusOK, OnNode, AfterCall, InLoop
<1>10. QED
  BY <1>1, <1>2, <1>5, <1>7, <1>9, OrderOwn, SameNodes DEF Advances

LEMMA OrderReload ==
    ASSUME TypeInv, OrderInv, ~overlapped, NEW d \in Drivers, Reload(d)
    PROVE  OrderInv'
<1>1. /\ ~At(d, "idle") /\ drivers[d].pc = "reloading"
      /\ UNCHANGED <<overlapped, crashes, run, checkpoint, nodes, tries>>
  BY DEF Reload, At, aux
<1>2. InOrder(drivers[d]) /\ Resumable /\ \A n \in Nodes : Counted(n)
  BY <1>1, OrderOfDriver
<1>3. LocalOK(drivers[d]) /\ drivers[d] \in Driver /\ drivers = [e \in Drivers |-> drivers[e]]
  BY TypeOfDriver
<1>4. PICK n, x : n = Current(d) /\ x = drivers[d]
  OBVIOUS
<1>5. n \in x.list /\ n \in Nodes /\ x.list \subseteq Nodes
  BY <1>1, <1>3, <1>4, TypeOfDriver DEF LocalOK, Driver, AfterCall
<1>6. PICK new : new = drivers'[d]
  OBVIOUS
<1>7. PICK rest, pc, list, seen :
         /\ rest = x.list \ {n} /\ pc = AfterNode(x.outcome, rest)
         /\ list = IF pc = "executing" THEN rest ELSE {}
         /\ seen = IF pc = "executing" THEN x.seen ELSE Unread
         /\ new = [drivers[d] EXCEPT !.pc = pc, !.state = checkpoint, !.list = list,
                                     !.seen = seen, !.outcome = "none"]
  BY <1>3, <1>4, <1>6 DEF Reload
<1>8. drivers' = [drivers EXCEPT ![d] = new]
  BY <1>3, <1>6 DEF Reload
<1>9. new.pc = pc /\ new.state = checkpoint /\ new.list = list /\ new.seen = seen
  BY <1>3, <1>7 DEF Driver
<1>10. /\ Worked(x) /\ Kept(x) /\ checkpoint = x.state /\ First(x.list) = n
  BY <1>1, <1>2, <1>4 DEF InOrder, AfterCall, Current
<1>11. /\ Saved /\ Kept(new) /\ Calm(Nodes \ {n}) /\ nodes[n].status = x.outcome
       /\ x.outcome \in {"completed", "pending", "failed", "waiting_for_approval"}
       /\ Untouched(x, rest) /\ (x.outcome = "failed" => nodes[n].retries >= MaxAttempts)
  BY <1>7, <1>9, <1>10 DEF Worked, Saved, Kept
<1>12. Quiet
  BY <1>11 DEF Quiet, Calm, Stuck
<1>13. CASE x.outcome = "waiting_for_approval"
  <2>1. new.pc = "pausing" /\ SomeWaits
    BY <1>5, <1>7, <1>9, <1>11, <1>13 DEF AfterNode, SomeWaits
  <2>2. Quiet' /\ Saved' /\ SomeWaits'
    BY <1>1, <1>11, <1>12, <2>1, SameNodes DEF Saved
  <2>3. InOrder(new)' /\ StatusOK(new)'
    BY <2>1, <2>2 DEF InOrder, StatusOK, OnNode, AfterCall, InLoop
  <2>4. QED
    BY <1>1, <1>2, <1>8, <2>1, <2>3, OrderOwn, SameNodes DEF Advances, Resumable
<1>14. CASE x.outcome # "waiting_for_approval" /\ (x.outcome = "failed" \/ rest = {})
  <2>1. new.pc = "looking" /\ Exhausted
    BY <1>5, <1>7, <1>9, <1>11, <1>14 DEF AfterNode, Exhausted, Calm
  <2>2. Quiet' /\ Saved' /\ Kept(new)' /\ Exhausted'
    BY <1>1, <1>11, <1>12, <2>1, SameNodes DEF Saved, Kept
  <2>3. InOrder(new)' /\ StatusOK(new)'
    BY <2>1, <2>2 DEF InOrder, StatusOK, OnNode, AfterCall, InLoop
  <2>4. QED
    BY <1>1, <1>2, <1>8, <2>1, <2>3, OrderOwn, SameNodes DEF Advances, Resumable
<1>15. CASE x.outcome \in {"completed", "pending"} /\ rest # {}
  <2>1. new.pc = "executing" /\ new.list = rest /\ new.seen = x.seen
    BY <1>7, <1>9, <1>15 DEF AfterNode
  <2>2. Calm(Nodes) /\ Untouched(new, new.list)
    BY <1>5, <1>11, <1>15, <2>1 DEF Calm, Untouched
  <2>3. Calm(Nodes)' /\ Saved' /\ Kept(new)' /\ Untouched(new, new.list)'
    BY <1>1, <1>11, <2>2, SameNodes DEF Saved, Kept, Untouched
  <2>4. InOrder(new)' /\ StatusOK(new)'
    BY <2>1, <2>3 DEF InOrder, StatusOK, OnNode, AfterCall, InLoop
  <2>5. QED
    BY <1>1, <1>2, <1>8, <2>1, <2>4, OrderOwn, SameNodes DEF Advances, Resumable
<1>16. QED
  BY <1>11, <1>13, <1>14, <1>15

LEMMA OrderCheck ==
    ASSUME TypeInv, OrderInv, ~overlapped, NEW d \in Drivers, Check(d)
    PROVE  OrderInv'
<1>1. /\ ~At(d, "idle") /\ drivers[d].pc = "checking"
      /\ UNCHANGED <<overlapped, crashes, run, checkpoint, nodes, tries>>
  BY DEF Check, At
<1>2. InOrder(drivers[d]) /\ StatusOK(drivers[d]) /\ Resumable /\ \A n \in Nodes : Counted(n)
  BY <1>1, OrderOfDriver
<1>3. LocalOK(drivers[d]) /\ drivers[d] \in Driver /\ drivers = [e \in Drivers |-> drivers[e]]
  BY TypeOfDriver
<1>4. PICK n, op : n = drivers[d].node /\ op = drivers[d].op
  OBVIOUS
<1>5. n \in Nodes /\ op \in {"approve", "deny", "retry"}
  BY <1>1, <1>3, <1>4 DEF LocalOK, Deciding
<1>6. drivers[d].state = checkpoint /\ (crashes = 0 => Tells(run))
  BY <1>1, <1>2 DEF InOrder, StatusOK
<1>7. Resumable' /\ (\A m \in Nodes : Counted(m)') /\ (crashes' = 0 => Tells(run)')
  BY <1>1, <1>2, <1>6, SameNodes DEF Resumable, Tells
<1>8. CASE ~Admits(op, nodes[n])
  <2>1. drivers' = [drivers EXCEPT ![d] = Idle]
    BY <1>4, <1>8 DEF Check
  <2>2. QED
    BY <1>1, <1>7, <2>1, InitialStateType, OrderOwn DEF Advances
<1>9. CASE Admits(op, nodes[n])
  <2>1. PICK new : new = drivers'[d]
    OBVIOUS
  <2>2. /\ new = [drivers[d] EXCEPT !.pc = "ruling", !.seen = nodes,
                                    !.state.approvals[n] = Decision(op, @)]
        /\ drivers' = [drivers EXCEPT ![d] = new]
    BY <1>3, <1>4, <1>9, <2>1 DEF Check
  <2>3. /\ new.pc = "ruling" /\ new.seen = nodes /\ new.node = n /\ new.op = op
        /\ new.state.outputs = checkpoint.outputs
    BY <1>3, <1>4, <1>6, <2>2 DEF Driver, State
  <2>4. n \in Stuck
    BY <1>5, <1>9 DEF Stuck, Admits
  <2>5. Kept(new)
    BY <1>2, <2>3, <2>4 DEF Resumable, Kept
  <2>6. Kept(new)' /\ Admits(new.op, nodes'[new.node]) /\ new.seen = nodes'
    BY <1>1, <1>9, <2>3, <2>5, SameNodes DEF Kept
  <2>7. InOrder(new)' /\ StatusOK(new)'
    BY <1>7, <2>3, <2>6 DEF InOrder, StatusOK, OnNode, AfterCall, InLoop
  <2>8. QED
    BY <1>1, <1>7, <2>2, <2>3, <2>7, OrderOwn DEF Advances
<1>10. QED
  BY <1>8, <1>9

LEMMA OrderRule ==
    ASSUME TypeInv, OrderInv, ~overlapped, NEW d \in Drivers, Rule(d)
    PROVE  OrderInv'
<1>1. /\ ~At(d, "idle") /\ drivers[d].pc = "ruling"
      /\ UNCHANGED <<overlapped, crashes, run, checkpoint>>
  BY DEF Rule, At
<1>2. InOrder(drivers[d]) /\ Resumable /\ \A n \in Nodes : Counted(n)
  BY <1>1, OrderOfDriver
<1>3. LocalOK(drivers[d]) /\ drivers[d] \in Driver /\ drivers = [e \in Drivers |-> drivers[e]]
  BY TypeOfDriver
<1>4. PICK n, op : n = drivers[d].node /\ op = drivers[d].op
  OBVIOUS
<1>5. n \in Nodes /\ op \in {"approve", "deny", "retry"}
  BY <1>1, <1>3, <1>4 DEF LocalOK, Deciding
<1>6. Admits(op, nodes[n]) /\ Kept(drivers[d]) /\ drivers[d].seen = nodes
  BY <1>1, <1>2, <1>4 DEF InOrder
<1>7. PICK record :
         /\ nodes' = [nodes EXCEPT ![n] = record]
         /\ record = CASE op = "approve" -> [nodes[n] EXCEPT !.status = "pending"]
                       [] op = "deny"    -> [nodes[n] EXCEPT !.status = "failed"]
                       [] op = "retry"   -> [status |-> "pending", retries |-> 0]
  BY <1>4, <1>6 DEF Rule, Upsert
<1>8. tries' = IF op = "deny" THEN tries ELSE [tries EXCEPT ![n] = 0]
  BY <1>4 DEF Rule
<1>9. PICK new : new = drivers'[d]
  OBVIOUS
<1>10. /\ drivers' = [drivers EXCEPT ![d] = new]
       /\ new.pc = "ruled" /\ new.node = n /\ new.op = op /\ new.state = drivers[d].state
  <2>1. /\ new = [drivers[d] EXCEPT !.pc = "ruled", !.seen = Unread]
        /\ drivers' = [drivers EXCEPT ![d] = new]
    BY <1>3, <1>9 DEF Rule
  <2>2. QED
    BY <1>3, <1>4, <2>1 DEF Driver
<1>11. n \in Stuck /\ Quiet /\ Done \subseteq checkpoint.outputs
  BY <1>2, <1>5, <1>6 DEF Stuck, Admits, Resumable
<1>12. nodes[n] \in NodeRecord /\ tries \in [Nodes -> Nat] /\ MaxAttempts \in Nat \ {0}
  BY <1>5, OrchestratorAssumption DEF TypeInv, OrchestratorTypeOK
<1>13. /\ record.status = IF op = "deny" THEN "failed" ELSE "pending"
       /\ record.retries = IF op = "retry" THEN 0 ELSE nodes[n].retries
  <2>1. CASE op = "approve"
    BY <1>7, <1>12, <2>1 DEF NodeRecord
  <2>2. CASE op = "deny"
    BY <1>7, <1>12, <2>2 DEF NodeRecord
  <2>3. CASE op = "retry"
    BY <1>7, <2>3
  <2>4. QED
    BY <1>5, <2>1, <2>2, <2>3
<1>14. nodes'[n] = record /\ \A m \in Nodes : m # n => nodes'[m] = nodes[m]
  BY <1>5, <1>7, OneNode
<1>15. /\ Done' = Done /\ Stuck' \subseteq {n} /\ Calm(Nodes \ {n})'
       /\ op # "deny" => Calm(Nodes)'
       /\ op = "deny" => nodes'[n].status = "failed"
  <2>1. Calm(Nodes \ {n})
    BY <1>11 DEF Quiet, Calm
  <2>2. Calm(Nodes \ {n})' /\ (op # "deny" => Calm(Nodes)')
    BY <1>5, <1>13, <1>14, <2>1 DEF Calm
  <2>3. Done' = Done
    BY <1>5, <1>11, <1>13, <1>14 DEF Done, Stuck
  <2>4. Stuck' \subseteq {n}
    BY <2>2 DEF Stuck, Calm
  <2>5. QED
    BY <1>13, <1>14, <2>2, <2>3, <2>4
<1>16. Resumable'
  <2>1. Stuck' # {} => Quiet'
    BY <1>15 DEF Quiet, Calm, Stuck
  <2>2. QED
    BY <1>1, <1>11, <1>15, <2>1 DEF Resumable
<1>17. \A m \in Nodes : Counted(m)'
  <2> SUFFICES ASSUME NEW m \in Nodes
               PROVE  Counted(m)'
    OBVIOUS
  <2>1. CASE m # n
    <3>1. nodes'[m] = nodes[m] /\ tries'[m] = tries[m]
      BY <1>8, <1>12, <1>14, <2>1
    <3>2. QED
      BY <1>2, <3>1 DEF Counted
  <2>2. CASE m = n /\ op = "deny"
    <3>1. tries'[n] <= MaxAttempts
      BY <1>2, <1>5, <1>8, <2>2 DEF Counted
    <3>2. QED
      BY <1>13, <1>14, <2>2, <3>1 DEF Counted
  <2>3. CASE m = n /\ op # "deny"
    <3>1. tries'[n] = 0 /\ nodes[n].retries \in Nat
      BY <1>5, <1>8, <1>12, <2>3 DEF NodeRecord
    <3>2. op = "approve" => nodes[n].retries < MaxAttempts
      BY <1>2, <1>5, <1>6 DEF Counted, Admits
    <3>3. record.retries \in Nat /\ record.retries < MaxAttempts
      BY <1>5, <1>12, <1>13, <2>3, <3>1, <3>2
    <3>4. QED
      BY <1>12, <1>13, <1>14, <2>3, <3>1, <3>3 DEF Counted
  <2>4. QED
    BY <2>1, <2>2, <2>3
<1>18. Kept(new)'
  BY <1>6, <1>10, <1>15 DEF Kept
<1>19. InOrder(new)' /\ StatusOK(new)'
  BY <1>10, <1>15, <1>18 DEF InOrder, StatusOK, OnNode, AfterCall, InLoop
<1>20. QED
  BY <1>1, <1>10, <1>16, <1>17, <1>19, OrderOwn DEF Advances

LEMMA OrderSaveRuling ==
    ASSUME TypeInv, OrderInv, ~overlapped, NEW d \in Drivers, SaveRuling(d)
    PROVE  OrderInv'
<1>1. /\ ~At(d, "idle") /\ drivers[d].pc = "ruled" /\ checkpoint' = drivers[d].state
      /\ UNCHANGED <<overlapped, crashes, run, nodes, tries>>
  BY DEF SaveRuling, At, aux
<1>2. InOrder(drivers[d]) /\ Resumable /\ \A n \in Nodes : Counted(n)
  BY <1>1, OrderOfDriver
<1>3. drivers[d] \in Driver /\ drivers = [e \in Drivers |-> drivers[e]]
  BY TypeOfDriver
<1>4. PICK new : new = drivers'[d]
  OBVIOUS
<1>5. /\ drivers' = [drivers EXCEPT ![d] = new]
      /\ new.pc = IF drivers[d].op = "deny" THEN "failing" ELSE "loading"
      /\ new.node = drivers[d].node /\ new.op = drivers[d].op
  <2>1. /\ drivers' = [drivers EXCEPT ![d] = new]
        /\ new = [drivers[d] EXCEPT !.pc = IF drivers[d].op = "deny" THEN "failing" ELSE "loading"]
    BY <1>3, <1>4 DEF SaveRuling
  <2>2. QED
    BY <1>3, <2>1 DEF Driver
<1>6. /\ Kept(drivers[d]) /\ (drivers[d].op # "deny" => Calm(Nodes))
      /\ drivers[d].op = "deny" => nodes[drivers[d].node].status = "failed"
  BY <1>1, <1>2 DEF InOrder
<1>7. Saved' /\ (new.pc = "loading" => Calm(Nodes)')
  BY <1>1, <1>5, <1>6, SameNodes DEF Kept, Saved
<1>8. Resumable'
  BY <1>1, <1>2, <1>7, SameNodes DEF Resumable, Saved
<1>9. InOrder(new)' /\ StatusOK(new)'
  BY <1>1, <1>5, <1>6, <1>7 DEF InOrder, StatusOK, OnNode, AfterCall, InLoop
<1>10. QED
  BY <1>1, <1>2, <1>5, <1>8, <1>9, OrderOwn, SameNodes DEF Advances

LEMMA OrderInvariance == Spec => [](TypeInv /\ OrderInv)
<1>1. Init => OrderInv
  <2> SUFFICES ASSUME Init
               PROVE  OrderInv
    OBVIOUS
  <2>1. \A d \in Drivers : At(d, "idle")
    BY IdleOK DEF Init, At
  <2>2. \A n \in Nodes : nodes[n] = [status |-> "absent", retries |-> 0] /\ tries[n] = 0
    BY DEF Init, Unread
  <2>3. MaxAttempts \in Nat
    BY OrchestratorAssumption
  <2>4. (\A n \in Nodes : Counted(n)) /\ Resumable
    BY <2>2, <2>3 DEF Counted, Resumable, Stuck
  <2>5. Tells(run)
    BY DEF Init, Tells, InitialState
  <2>6. QED
    BY <2>1, <2>4, <2>5 DEF OrderInv, OneDriver
<1>2. TypeInv /\ OrderInv /\ [Next]_vars => OrderInv'
  <2> SUFFICES ASSUME TypeInv, OrderInv, [Next]_vars
               PROVE  OrderInv'
    OBVIOUS
  <2>1. ASSUME NEW d \in Drivers, Step(d)
        PROVE  OrderInv'
    <3>1. CASE overlapped
      BY <2>1, <3>1
      DEF Step, OrderInv, ResetNode, SaveInitialState, MarkRunning, LoadState, Look, Choose,
          Close, SaveAndReturn, BeginNode, SaveBegun, Authorize, Answer, FinishNode,
          SaveOutcome, Reload, Pause, Check, Rule, SaveRuling, ReportDenied, aux
    <3>2. CASE ~overlapped
      BY <2>1, <3>2, OrderReset, OrderBegin, OrderChoose, OrderEnd, OrderBeginNode, OrderCall,
         OrderFinish, OrderRecord, OrderReload, OrderCheck, OrderRule, OrderSaveRuling
      DEF Step
    <3>3. QED
      BY <3>1, <3>2
  <2>2. CASE UNCHANGED vars
    <3>1. SUFFICES ASSUME ~overlapped
                   PROVE  OrderInv'
      BY <2>2 DEF OrderInv, vars
    <3>2. UNCHANGED <<nodes, checkpoint, run, drivers, crashes, overlapped, tries>>
      BY <2>2 DEF vars
    <3>3. OneDriver' = OneDriver /\ Busy' = Busy /\ Resumable' = Resumable /\ Tells(run)' = Tells(run)
      BY <3>2, SameNodes DEF OneDriver, Busy, At, Resumable, Tells
    <3>4. \A d \in Drivers : ~At(d, "idle") => InOrder(drivers[d])' /\ StatusOK(drivers[d])'
      <4> SUFFICES ASSUME NEW d \in Drivers, ~At(d, "idle")
                   PROVE  InOrder(drivers[d])' /\ StatusOK(drivers[d])'
        OBVIOUS
      <4>1. InOrder(drivers[d]) /\ StatusOK(drivers[d])
        BY <3>1 DEF OrderInv
      <4>2. \A S : Untouched(drivers[d], S)' = Untouched(drivers[d], S)
        BY <3>2, SameNodes DEF Untouched
      <4>3. /\ AtWork(drivers[d])' = AtWork(drivers[d]) /\ Worked(drivers[d])' = Worked(drivers[d])
            /\ Kept(drivers[d])' = Kept(drivers[d]) /\ Saved' = Saved
        BY <3>2, <4>2, SameNodes DEF AtWork, Worked, Kept, Saved
      <4>4. InOrder(drivers[d])'
        BY <3>2, <4>1, <4>2, <4>3, SameNodes DEF InOrder
      <4>5. StatusOK(drivers[d])'
        BY <3>2, <4>1, SameNodes DEF StatusOK, Tells
      <4>6. QED
        BY <4>4, <4>5
    <3>5. QED
      BY <3>1, <3>2, <3>3, <3>4, SameNodes DEF OrderInv, At
  <2>3. QED
    BY <2>1, <2>2, OrderArrive, OrderCrash DEF Next
<1>3. QED
  BY <1>1, <1>2, TypeInvariance, PTL DEF Spec

\* Agents get their inputs and are called within their attempts, and a run
\* that is not at work says of its nodes what is true, for every acyclic graph
\* and every plan of it, as long as drivers do not overlap (resume_run, with
\* the crashes and operator decisions in between).
THEOREM NodesGoInOrder == Spec => []NodesInOrder
<1>1. TypeInv /\ OrderInv => NodesInOrder
  <2> SUFFICES ASSUME TypeInv, OrderInv, ~overlapped
               PROVE  NodesInOrder
    BY DEF NodesInOrder, InputsReady, AttemptsBounded, RunAgrees
  <2>1. InputsReady
    <3> SUFFICES ASSUME NEW n \in Nodes, NEW d \in Drivers, At(d, "working"), Current(d) = n,
                        NEW m \in Deps[n]
                 PROVE  nodes[m].status = "completed" /\ m \in drivers[d].state.outputs
      BY DEF InputsReady, Working
    <3>1. drivers[d].pc = "working" /\ ~At(d, "idle") /\ First(drivers[d].list) = n
      BY DEF At, Current
    <3>2. AtWork(drivers[d]) /\ Kept(drivers[d])
      BY <3>1, OrderOfDriver DEF InOrder, OnNode
    <3>3. nodes[m].status = "completed"
      BY <3>1, <3>2 DEF AtWork, DependenciesCompleted
    <3>4. m \in Nodes
      BY OrchestratorAssumption
    <3>5. QED
      BY <3>2, <3>3, <3>4 DEF Kept, Done
  <2>2. AttemptsBounded
    BY DEF OrderInv, Counted, AttemptsBounded
  <2>3. RunAgrees
    <3> SUFFICES ASSUME crashes = 0, Busy = {}
                 PROVE  CASE run = "completed" -> AllCompleted
                          [] run = "waiting_for_approval" ->
                                Cardinality({n \in Nodes :
                                    nodes[n].status = "waiting_for_approval"}) = 1
                          [] run = "failed" -> \E n \in Nodes : nodes[n].status = "failed"
                          [] run = "running" -> FALSE
                          [] OTHER -> calls = 0 \/ ~checkpoint.saved
      BY DEF RunAgrees
    <3>1. Tells(run)
      BY DEF OrderInv
    <3>2. ASSUME run = "waiting_for_approval"
          PROVE  Cardinality({n \in Nodes : nodes[n].status = "waiting_for_approval"}) = 1
      <4>1. Quiet /\ SomeWaits
        BY <3>1, <3>2 DEF Tells
      <4>2. PICK n \in Nodes : nodes[n].status = "waiting_for_approval"
        BY <4>1 DEF SomeWaits
      <4>3. {m \in Nodes : nodes[m].status = "waiting_for_approval"} = {n}
        BY <4>1, <4>2 DEF Quiet, Stuck
      <4>4. QED
        BY <4>3, FS_Singleton
    <3>3. run \in {"pending", "running", "waiting_for_approval", "completed", "failed"}
      BY DEF TypeInv, OrchestratorTypeOK
    <3>4. QED
      BY <3>1, <3>2, <3>3 DEF Tells
  <2>4. QED
    BY <2>1, <2>2, <2>3 DEF NodesInOrder
<1>2. QED
  BY <1>1, OrderInvariance, PTL

\* Only a new execution of the whole run takes a completed node back:
\* approvals, denials, retries and crashes never do, as long as drivers do not
\* overlap (approve_node and retry_failed_node check the node's status first).
THEOREM CompletedStaysKept == Spec => CompletedKept
<1> DEFINE Keeps == ~overlapped' =>
                       \A n \in Nodes :
                           nodes[n].status = "completed" /\ nodes'[n].status # "completed"
                           => \E d \in Drivers : ResetNode(d)
<1>1. TypeInv /\ OrderInv /\ [Next]_vars => [Keeps]_vars
  <2> SUFFICES ASSUME TypeInv, OrderInv, Next, ~overlapped',
                      NEW n \in Nodes, nodes[n].status = "completed",
                      nodes'[n].status # "completed"
               PROVE  \E d \in Drivers : ResetNode(d)
    OBVIOUS
  <2>1. PICK d \in Drivers : Arrive(d) \/ Step(d) \/ Crash(d)
    BY DEF Next
  <2>2. \/ ResetNode(d) \/ BeginNode(d) \/ FinishNode(d) \/ Rule(d)
    BY <2>1
    DEF Arrive, ExecuteRun, Request, Enter, Crash, Step, SaveInitialState, MarkRunning,
        LoadState, Look, Choose, Close, SaveAndReturn, SaveBegun, Authorize, Answer,
        SaveOutcome, Reload, Pause, Check, SaveRuling, ReportDenied, aux
  <2>3. ASSUME BeginNode(d) \/ FinishNode(d) \/ Rule(d)
        PROVE  FALSE
    <3>1. ~overlapped /\ ~At(d, "idle")
      BY <2>3 DEF BeginNode, FinishNode, Rule, At, aux
    <3>2. InOrder(drivers[d]) /\ Resumable
      BY <3>1, OrderOfDriver
    <3>3. LocalOK(drivers[d])
      BY TypeOfDriver
    <3>4. CASE BeginNode(d)
      <4>1. /\ drivers[d].list # {} /\ Untouched(drivers[d], drivers[d].list) /\ Calm(Nodes)
        BY <3>2, <3>3, <3>4 DEF BeginNode, At, InOrder, LocalOK
      <4>2. Current(d) \in Nodes /\ Ready(Current(d))
        BY <4>1, TypeOfDriver DEF Untouched
      <4>3. n = Current(d)
        BY <3>4, <4>2, OneNode DEF BeginNode, Upsert
      <4>4. QED
        BY <4>2, <4>3 DEF Ready
    <3>5. CASE FinishNode(d)
      <4>1. drivers[d].pc = "finishing" /\ drivers[d].list # {} /\ AtWork(drivers[d])
        BY <3>2, <3>3, <3>5 DEF FinishNode, At, InOrder, LocalOK, OnNode
      <4>2. Current(d) \in Nodes /\ nodes[Current(d)].status = "running"
        BY <4>1, TypeOfDriver DEF AtWork, Current
      <4>3. n = Current(d)
        BY <3>5, <4>2, OneNode DEF FinishNode, Upsert
      <4>4. QED
        BY <4>2, <4>3
    <3>6. CASE Rule(d)
      <4>1. /\ drivers[d].node \in Nodes
            /\ Admits(drivers[d].op, nodes[drivers[d].node])
        BY <3>2, <3>3, <3>6 DEF Rule, At, InOrder, LocalOK, Deciding
      <4>2. n = drivers[d].node
        BY <3>6, <4>1, OneNode DEF Rule, Upsert
      <4>3. QED
        BY <4>1, <4>2 DEF Admits
    <3>7. QED
      BY <2>3, <3>4, <3>5, <3>6
  <2>4. QED
    BY <2>2, <2>3
<1>2. QED
  BY <1>1, OrderInvariance, PTL DEF Spec, CompletedKept

-----------------------------------------------------------------------------
(* The life of a run: every step of a driver, as RunLifecycle has it.      *)

\* Which nodes a renewal has before it, while one driver is at work.
LEMMA RenewalStep ==
    ASSUME NEW d \in Drivers,
           \A e \in Drivers : e # d => At(e, "idle") /\ drivers'[e] = drivers[e]
    PROVE  /\ Unrenewed = IF At(d, "resetting") THEN drivers[d].list ELSE {}
           /\ Unrenewed' = IF At(d, "resetting")' THEN drivers'[d].list ELSE {}
<1>1. {e \in Drivers : At(e, "resetting")} = IF At(d, "resetting") THEN {d} ELSE {}
  BY DEF At
<1>2. {e \in Drivers : At(e, "resetting")}' = IF At(d, "resetting")' THEN {d} ELSE {}
  BY DEF At
<1>3. UNION {drivers[e].list : e \in {d}} = drivers[d].list
      /\ UNION {drivers'[e].list : e \in {d}} = drivers'[d].list
  OBVIOUS
<1>4. UNION {drivers[e].list : e \in {}} = {} /\ UNION {drivers'[e].list : e \in {}} = {}
  OBVIOUS
<1>5. Unrenewed = IF At(d, "resetting") THEN drivers[d].list ELSE {}
  <2>1. CASE At(d, "resetting")
    BY <1>1, <1>3, <2>1 DEF Unrenewed
  <2>2. CASE ~At(d, "resetting")
    BY <1>1, <1>4, <2>2 DEF Unrenewed
  <2>3. QED
    BY <2>1, <2>2
<1>6. Unrenewed' = IF At(d, "resetting")' THEN drivers'[d].list ELSE {}
  <2>1. CASE At(d, "resetting")'
    BY <1>2, <1>3, <2>1 DEF Unrenewed
  <2>2. CASE ~At(d, "resetting")'
    BY <1>2, <1>4, <2>2 DEF Unrenewed
  <2>3. QED
    BY <2>1, <2>2
<1>7. QED
  BY <1>5, <1>6

\* The steps of a driver that is not renewing.
Rest(d) ==
    \/ SaveInitialState(d) \/ MarkRunning(d) \/ LoadState(d)
    \/ Look(d) \/ Choose(d) \/ Close(d) \/ SaveAndReturn(d)
    \/ BeginNode(d) \/ SaveBegun(d) \/ Authorize(d) \/ Answer(d) \/ FinishNode(d)
    \/ SaveOutcome(d) \/ Reload(d) \/ Pause(d)
    \/ Check(d) \/ Rule(d) \/ SaveRuling(d) \/ ReportDenied(d)

\* A driver at work is the only one, and only as it renews a list is left to renew.
LEMMA RenewalOfRest ==
    ASSUME TypeInv, OrderInv, ~overlapped, NEW d \in Drivers, Rest(d)
    PROVE  ~At(d, "idle") /\ Unrenewed = {} /\ Unrenewed' = {}
<1>1. drivers[d] \in Driver /\ drivers = [e \in Drivers |-> drivers[e]]
  BY TypeOfDriver
<1>2. drivers[d].pc \notin {"idle", "resetting"}
  BY DEF Rest, SaveInitialState, MarkRunning, LoadState, Look, Choose, Close, SaveAndReturn,
         BeginNode, SaveBegun, Authorize, Answer, FinishNode, SaveOutcome, Reload, Pause,
         Check, Rule, SaveRuling, ReportDenied, At
<1>3. \A e \in Drivers : e # d => At(e, "idle")
  BY <1>2 DEF OrderInv, OneDriver, At
<1>4. (\A e \in Drivers : e # d => drivers'[e] = drivers[e]) /\ drivers'[d].pc # "resetting"
  <2>1. CASE Pause(d) \/ SaveAndReturn(d) \/ ReportDenied(d) \/ Check(d)
    BY <1>1, <2>1, InitialStateType DEF Pause, SaveAndReturn, ReportDenied, Check, Driver
  <2>2. CASE SaveInitialState(d) \/ MarkRunning(d) \/ LoadState(d) \/ Look(d) \/ Choose(d)
             \/ Close(d)
    BY <1>1, <2>2
    DEF SaveInitialState, MarkRunning, LoadState, Look, Choose, Close, Goto, Driver
  <2>3. CASE BeginNode(d) \/ SaveBegun(d) \/ Authorize(d) \/ Answer(d) \/ FinishNode(d)
             \/ SaveOutcome(d)
    BY <1>1, <2>3
    DEF BeginNode, SaveBegun, Authorize, Answer, FinishNode, SaveOutcome, Goto, Driver
  <2>4. CASE Reload(d) \/ Rule(d) \/ SaveRuling(d)
    BY <1>1, <2>4 DEF Reload, AfterNode, Rule, SaveRuling, Driver
  <2>5. QED
    BY <2>1, <2>2, <2>3, <2>4 DEF Rest
<1>5. QED
  BY <1>2, <1>3, <1>4, RenewalStep DEF At

\* What a driver writes of a node: it begins or concludes an attempt, or is the
\* decision or the retry of a stuck node.
LEMMA LifeOfNode ==
    ASSUME TypeInv, OrderInv, ~overlapped, NEW d \in Drivers,
           BeginNode(d) \/ FinishNode(d) \/ Rule(d)
    PROVE  \E n \in Nodes : \/ Lifecycle!Begin(n) \/ Lifecycle!Conclude(n)
                            \/ Lifecycle!Decide(n) \/ Lifecycle!Retry(n)
<1>1. ~At(d, "idle") /\ Unrenewed = {}
  BY RenewalOfRest DEF Rest
<1>2. InOrder(drivers[d]) /\ Resumable
  BY <1>1, OrderOfDriver
<1>3. LocalOK(drivers[d]) /\ drivers[d].seen \in [Nodes -> NodeRecord]
  BY TypeOfDriver DEF Driver
<1>4. nodes \in [Nodes -> NodeRecord]
  BY DEF TypeInv, OrchestratorTypeOK
<1>5. CASE BeginNode(d)
  <2>1. /\ drivers[d].list # {} /\ Untouched(drivers[d], drivers[d].list) /\ Calm(Nodes)
    BY <1>2, <1>3, <1>5 DEF BeginNode, At, InOrder, LocalOK
  <2>2. PICK n \in Nodes : n = Current(d) /\ nodes[n] = drivers[d].seen[n] /\ Ready(n)
    BY <2>1, TypeOfDriver DEF Untouched
  <2>3. nodes' = [nodes EXCEPT ![n] = [nodes[n] EXCEPT !.status = "running"]]
    BY <1>5, <2>2 DEF BeginNode, Upsert
  <2>4. nodes[n].status = "pending" /\ nodes[n].retries < MaxAttempts
    BY <2>1, <2>2 DEF Ready, Calm
  <2>5. \A m \in Deps[n] : nodes[m].status = "completed"
    BY <2>2 DEF Ready, DependenciesCompleted
  <2>6. Lifecycle!Resting
    BY <1>1, <2>1 DEF Lifecycle!Resting, Lifecycle!Some, Calm
  <2>7. Lifecycle!Begin(n)
    BY <2>3, <2>4, <2>5, <2>6 DEF Lifecycle!Begin
  <2>8. QED
    BY <2>7
<1>6. CASE FinishNode(d)
  <2>1. /\ drivers[d].pc = "finishing" /\ drivers[d].list # {} /\ AtWork(drivers[d])
        /\ drivers[d].outcome \in {"completed", "failed", "waiting_for_approval"}
    BY <1>2, <1>3, <1>6 DEF FinishNode, At, InOrder, LocalOK, OnNode
  <2>2. PICK n \in Nodes :
           /\ n = Current(d)
           /\ nodes[n] = [status |-> "running", retries |-> drivers[d].seen[n].retries]
    BY <2>1, TypeOfDriver DEF AtWork, Current
  <2>3. PICK record : /\ record = Outcome(drivers[d].seen[n], drivers[d].outcome)
                      /\ nodes' = [nodes EXCEPT ![n] = record]
    BY <1>6, <2>2 DEF FinishNode, Upsert
  <2>4. drivers[d].seen[n] = [status |-> drivers[d].seen[n].status,
                              retries |-> drivers[d].seen[n].retries]
    BY <1>3 DEF NodeRecord
  <2>5. record \in Lifecycle!Conclusions(nodes[n])
    <3>1. CASE drivers[d].outcome = "failed"
      BY <2>2, <2>3, <3>1 DEF Outcome, Lifecycle!Conclusions
    <3>2. CASE drivers[d].outcome \in {"completed", "waiting_for_approval"}
      <4>1. record = [nodes[n] EXCEPT !.status = drivers[d].outcome]
        BY <2>2, <2>3, <2>4, <3>2 DEF Outcome
      <4>2. QED
        BY <3>2, <4>1 DEF Lifecycle!Conclusions
    <3>3. QED
      BY <2>1, <3>1, <3>2
  <2>6. Lifecycle!Conclude(n)
    <3>1. nodes[n].status = "running"
      BY <2>2
    <3>2. QED
      BY <1>1, <2>3, <2>5, <3>1 DEF Lifecycle!Conclude
  <2>7. QED
    BY <2>6
<1>7. CASE Rule(d)
  <2>1. PICK n \in Nodes : n = drivers[d].node /\ Admits(drivers[d].op, nodes[n])
    BY <1>2, <1>3, <1>7 DEF Rule, At, InOrder, LocalOK, Deciding
  <2>2. drivers[d].seen = nodes /\ drivers[d].op \in {"approve", "deny", "retry"}
    BY <1>2, <1>3, <1>7 DEF Rule, At, InOrder, LocalOK, Deciding
  <2>3. Quiet
    BY <1>2, <2>1, <2>2 DEF Resumable, Stuck, Admits
  <2>4. Lifecycle!Resting
    <3>1. \A m \in Nodes : nodes[m].status # "running"
      BY <2>3 DEF Quiet, Calm, Stuck
    <3>2. QED
      BY <1>1, <3>1 DEF Lifecycle!Resting, Lifecycle!Some
  <2>5. CASE drivers[d].op = "retry"
    <3>1. /\ nodes[n].status = "failed"
          /\ nodes' = [nodes EXCEPT ![n] = [status |-> "pending", retries |-> 0]]
      BY <1>7, <2>1, <2>5 DEF Rule, Upsert, Admits
    <3>2. Lifecycle!Retry(n)
      BY <2>4, <3>1 DEF Lifecycle!Retry, Lifecycle!New
    <3>3. QED
      BY <3>2
  <2>6. CASE drivers[d].op \in {"approve", "deny"}
    <3>1. nodes[n].status = "waiting_for_approval"
      BY <2>1, <2>6 DEF Admits
    <3>2. PICK s \in {"pending", "failed"} :
             nodes' = [nodes EXCEPT ![n] = [nodes[n] EXCEPT !.status = s]]
      BY <1>7, <2>1, <2>2, <2>6 DEF Rule, Upsert
    <3>3. Lifecycle!Decide(n)
      BY <2>4, <3>1, <3>2 DEF Lifecycle!Decide
    <3>4. QED
      BY <3>3
  <2>7. QED
    BY <2>2, <2>5, <2>6
<1>8. QED
  BY <1>5, <1>6, <1>7

\* What a driver writes of the run is what its nodes say.
LEMMA LifeOfStatus ==
    ASSUME TypeInv, OrderInv, ~overlapped, NEW d \in Drivers,
           MarkRunning(d) \/ Close(d) \/ Pause(d) \/ ReportDenied(d)
    PROVE  \E new \in {"running", "completed", "failed", "waiting_for_approval"} :
              Lifecycle!Write(new)
<1>1. ~At(d, "idle") /\ Unrenewed = {}
  BY RenewalOfRest DEF Rest
<1>2. InOrder(drivers[d]) /\ StatusOK(drivers[d])
  BY <1>1, OrderOfDriver
<1>3. LocalOK(drivers[d])
  BY TypeOfDriver
<1>4. CASE MarkRunning(d)
  <2>1. run' = "running" /\ Calm(Nodes)
    BY <1>2, <1>4, CalmNodes DEF MarkRunning, At, InOrder
  <2>2. Lifecycle!Write("running")
    BY <1>1, <2>1 DEF Lifecycle!Write, Lifecycle!All, Calm
  <2>3. QED
    BY <2>2
<1>5. CASE Close(d)
  <2>1. /\ run' = drivers[d].outcome /\ Tells(drivers[d].outcome)
        /\ drivers[d].outcome \in {"completed", "failed", "waiting_for_approval"}
    BY <1>2, <1>3, <1>5 DEF Close, At, StatusOK, LocalOK
  <2>2. Lifecycle!Write(drivers[d].outcome)
    BY <1>1, <2>1
    DEF Tells, AllCompleted, SomeWaits, Lifecycle!Write, Lifecycle!All, Lifecycle!Some
  <2>3. QED
    BY <2>1, <2>2
<1>6. CASE Pause(d)
  <2>1. run' = "waiting_for_approval" /\ SomeWaits
    BY <1>2, <1>6 DEF Pause, At, InOrder
  <2>2. Lifecycle!Write("waiting_for_approval")
    BY <1>1, <2>1 DEF SomeWaits, Lifecycle!Write, Lifecycle!Some
  <2>3. QED
    BY <2>2
<1>7. CASE ReportDenied(d)
  <2>1. /\ run' = "failed" /\ drivers[d].node \in Nodes
        /\ nodes[drivers[d].node].status = "failed"
    BY <1>2, <1>3, <1>7 DEF ReportDenied, At, InOrder, LocalOK, Deciding
  <2>2. Lifecycle!Write("failed")
    BY <1>1, <2>1 DEF Lifecycle!Write, Lifecycle!Some
  <2>3. QED
    BY <2>2
<1>8. QED
  BY <1>4, <1>5, <1>6, <1>7

\* A renewal takes the nodes of its list one after the other.
LEMMA LifeOfRenewal ==
    ASSUME TypeInv, OrderInv, ~overlapped, NEW d \in Drivers, ResetNode(d)
    PROVE  \E n \in Nodes : Lifecycle!Renew(n)
<1>1. drivers[d] \in Driver /\ drivers = [e \in Drivers |-> drivers[e]] /\ LocalOK(drivers[d])
  BY TypeOfDriver
<1>2. drivers[d].pc = "resetting" /\ drivers[d].list # {}
  BY <1>1 DEF ResetNode, At, LocalOK
<1>3. PICK n \in Nodes : n = Current(d) /\ n \in drivers[d].list
  BY <1>2, TypeOfDriver
<1>4. \A e \in Drivers : e # d => At(e, "idle")
  BY <1>2 DEF OrderInv, OneDriver, At
<1>5. PICK pc, list : /\ drivers' = [drivers EXCEPT ![d].list = list, ![d].pc = pc]
                      /\ list = drivers[d].list \ {n}
                      /\ pc = IF drivers[d].list = {n} THEN "fresh" ELSE drivers[d].pc
  BY <1>3 DEF ResetNode
<1>6. /\ \A e \in Drivers : e # d => drivers'[e] = drivers[e]
      /\ drivers'[d].list = list /\ drivers'[d].pc = pc
  BY <1>1, <1>5 DEF Driver
<1>7. Unrenewed = drivers[d].list
  BY <1>2, <1>4, <1>6, RenewalStep DEF At
<1>8. Unrenewed' = Unrenewed \ {n}
  <2>1. CASE drivers[d].list = {n}
    <3>1. pc = "fresh" /\ list = {}
      BY <1>5, <2>1
    <3>2. QED
      BY <1>4, <1>6, <1>7, <2>1, <3>1, RenewalStep DEF At
  <2>2. CASE drivers[d].list # {n}
    <3>1. pc = "resetting"
      BY <1>2, <1>5, <2>2
    <3>2. QED
      BY <1>4, <1>5, <1>6, <1>7, <3>1, RenewalStep DEF At
  <2>3. QED
    BY <2>1, <2>2
<1>9. nodes' = [nodes EXCEPT ![n] = [status |-> "pending", retries |-> 0]]
  BY <1>3 DEF ResetNode, Upsert
<1>10. Lifecycle!Renew(n)
  BY <1>3, <1>7, <1>8, <1>9 DEF Lifecycle!Renew, Lifecycle!New
<1>11. QED
  BY <1>10

\* A call begins a renewal or nothing; a death may end one.
LEMMA LifeOfCall ==
    ASSUME TypeInv, OrderInv, ~overlapped', NEW d \in Drivers, Arrive(d) \/ Crash(d)
    PROVE  /\ ~overlapped /\ UNCHANGED <<nodes, run>>
           /\ Lifecycle!BeginRenewal \/ Lifecycle!Abandon
<1>1. ~overlapped /\ UNCHANGED <<nodes, run>>
  <2>1. CASE Arrive(d)
    BY <2>1 DEF Arrive, ExecuteRun, Request, Enter
  <2>2. CASE Crash(d)
    BY <2>2 DEF Crash, aux
  <2>3. QED
    BY <2>1, <2>2
<1>2. drivers = [e \in Drivers |-> drivers[e]]
  BY TypeOfDriver
<1>3. CASE Crash(d)
  <2>1. \A e \in Drivers : e # d => At(e, "idle")
    BY <1>1, <1>3 DEF Crash, OrderInv, OneDriver
  <2>2. (\A e \in Drivers : e # d => drivers'[e] = drivers[e]) /\ drivers'[d].pc = "idle"
    BY <1>2, <1>3, InitialStateType DEF Crash
  <2>3. Unrenewed' = {}
    BY <2>1, <2>2, RenewalStep DEF At
  <2>4. QED
    BY <1>1, <2>3 DEF Lifecycle!Abandon
<1>4. CASE Arrive(d)
  <2>1. Busy = {}
    BY <1>4 DEF Arrive, ExecuteRun, Request, Enter
  <2>2. \A e \in Drivers : At(e, "idle")
    BY <2>1 DEF Busy
  <2>3. PICK new : /\ drivers' = [drivers EXCEPT ![d] = new]
                   /\ \/ new = [Idle EXCEPT !.pc = "resetting", !.list = Nodes]
                      \/ \E n \in Nodes, op \in {"approve", "deny", "retry"} :
                            new = [Idle EXCEPT !.pc = "checking", !.op = op, !.node = n,
                                               !.state = checkpoint]
    BY <1>4 DEF Arrive, ExecuteRun, Request, Enter
  <2>4. (\A e \in Drivers : e # d => drivers'[e] = drivers[e]) /\ drivers'[d] = new
    BY <1>2, <2>3
  <2>5. new.pc = "checking" \/ (new.pc = "resetting" /\ new.list = Nodes)
    BY <2>3 DEF Idle
  <2>6. Unrenewed = {} /\ Unrenewed' \in {{}, Nodes}
    BY <2>2, <2>4, <2>5, RenewalStep DEF At
  <2>7. QED
    BY <1>1, <2>6 DEF Lifecycle!BeginRenewal, Lifecycle!Abandon
<1>5. QED
  BY <1>3, <1>4

\* The calls of the orchestrator take a run through the life that RunLifecycle
\* describes, for every plan of every acyclic graph, whatever calls follow one
\* another, and wherever their processes die (execute_run, resume_run,
\* approve_node and retry_failed_node, all in steps of one repository call).
THEOREM RunRefinement == Spec => ImplementsRunLifecycle
<1>1. Init => Lifecycle!Init
  <2> SUFFICES ASSUME Init
               PROVE  Lifecycle!Init
    OBVIOUS
  <2>1. Unrenewed = {}
    BY IdleOK DEF Init, Unrenewed, At
  <2>2. QED
    BY <2>1 DEF Init, Unread, Lifecycle!Init
<1>2. TypeInv /\ OrderInv /\ [Next]_vars => [Lifecycle!Next]_Lifecycle!lifecycleVars
  <2> SUFFICES ASSUME TypeInv, OrderInv, [Next]_vars
               PROVE  [Lifecycle!Next]_Lifecycle!lifecycleVars
    OBVIOUS
  <2>1. CASE UNCHANGED vars
    BY <2>1 DEF vars, Unrenewed, At, Lifecycle!lifecycleVars
  <2>2. CASE Next /\ overlapped'
    BY <2>2 DEF Lifecycle!Next
  <2>3. ASSUME Next, ~overlapped'
        PROVE  [Lifecycle!Next]_Lifecycle!lifecycleVars
    <3>1. PICK d \in Drivers : Arrive(d) \/ Crash(d) \/ ResetNode(d) \/ Rest(d)
      BY <2>3 DEF Next, Step, Rest
    <3>2. ~overlapped
      BY <2>3, <3>1, LifeOfCall
      DEF Rest, ResetNode, SaveInitialState, MarkRunning, LoadState, Look, Choose, Close,
          SaveAndReturn, BeginNode, SaveBegun, Authorize, Answer, FinishNode, SaveOutcome,
          Reload, Pause, Check, Rule, SaveRuling, ReportDenied, aux
    <3>3. Lifecycle!Orderly => Lifecycle!Next
      BY <2>3, <3>2 DEF Lifecycle!Next, TypeInv, OrchestratorTypeOK
    <3>4. CASE Arrive(d) \/ Crash(d)
      <4>1. Lifecycle!Orderly
        BY <2>3, <3>4, LifeOfCall DEF Lifecycle!Orderly
      <4>2. QED
        BY <3>3, <4>1
    <3>5. CASE ResetNode(d)
      <4>1. Lifecycle!Orderly
        BY <3>2, <3>5, LifeOfRenewal DEF ResetNode, Lifecycle!Orderly
      <4>2. QED
        BY <3>3, <4>1
    <3>6. CASE Rest(d)
      <4>1. Unrenewed = {} /\ Unrenewed' = {}
        BY <3>2, <3>6, RenewalOfRest
      <4>2. CASE BeginNode(d) \/ FinishNode(d) \/ Rule(d)
        <5>1. run' = run
          BY <4>2 DEF BeginNode, FinishNode, Rule
        <5>2. Lifecycle!Orderly
          BY <3>2, <4>1, <4>2, <5>1, LifeOfNode DEF Lifecycle!Orderly
        <5>3. QED
          BY <3>3, <5>2
      <4>3. CASE MarkRunning(d) \/ Close(d) \/ Pause(d) \/ ReportDenied(d)
        <5>1. nodes' = nodes
          BY <4>3 DEF MarkRunning, Close, Pause, ReportDenied
        <5>2. Lifecycle!Orderly
          BY <3>2, <4>1, <4>3, <5>1, LifeOfStatus DEF Lifecycle!Orderly
        <5>3. QED
          BY <3>3, <5>2
      <4>4. CASE /\ ~(BeginNode(d) \/ FinishNode(d) \/ Rule(d))
                 /\ ~(MarkRunning(d) \/ Close(d) \/ Pause(d) \/ ReportDenied(d))
        <5>1. UNCHANGED <<nodes, run, overlapped>>
          BY <3>6, <4>4
          DEF Rest, SaveInitialState, LoadState, Look, Choose, SaveAndReturn, SaveBegun,
              Authorize, Answer, SaveOutcome, Reload, Check, SaveRuling, aux
        <5>2. QED
          BY <4>1, <5>1 DEF Lifecycle!lifecycleVars
      <4>5. QED
        BY <4>2, <4>3, <4>4
    <3>7. QED
      BY <3>1, <3>4, <3>5, <3>6
  <2>4. QED
    BY <2>1, <2>2, <2>3
<1>3. QED
  BY <1>1, <1>2, OrderInvariance, PTL DEF Spec, ImplementsRunLifecycle, Lifecycle!Spec
=============================================================================
