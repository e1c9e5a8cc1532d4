--------------------------- MODULE Services_proofs ---------------------------
(***************************************************************************)
(* Proofs about what the API and the agents call beside jobs and nodes,    *)
(* module by module, for any values of the constants:                      *)
(*                                                                         *)
(*   ToolPolicy          rules that are added to the default registry open *)
(*                       nothing                                           *)
(*   SourceCatalog       a local file whose registration succeeded stays   *)
(*                       in the catalog                                    *)
(*   DeploymentApproval  the records of a deployment agree with each other *)
(*   CaseReviews         a case is as its reviewers have decided           *)
(*   ArtifactCache       a download is the artifact that was asked for     *)
(*   Connectors          a status tells the health that was measured with  *)
(*                       the settings it stands for                        *)
(*   Investigation       the evidence of an investigation is sound         *)
(*   WarehouseData       a source is read as it was validated              *)
(*   LlmBudget           neither the month's budget nor a run's is         *)
(*                       exceeded by what was sent                         *)
(*   ExecutionGraphs     the search for cycles accepts what can be executed*)
(***************************************************************************)
EXTENDS ToolPolicy, SourceCatalog, DeploymentApproval, ArtifactCache, CaseReviews,
        WarehouseData, Investigation, LlmBudget, ExecutionGraphs, FiniteSetTheorems,
        SequenceTheorems, WellFoundedInduction, TLAPS

-----------------------------------------------------------------------------
(* Tool policies.                                                          *)


\* A rule that demands nothing but its tools, levels or risks is matched
\* whatever the context is.
LEMMA PlainMatches ==
    ASSUME NEW ctx \in Context, NEW tool, NEW rule,
           rule.keys = {}, rule.sensitive = BOOLEAN, rule.places = {}, rule.risks = {},
           tool \in rule.tools, rule.levels = {} \/ Level(tool) \in rule.levels
    PROVE  Matches(rule, tool, ctx)
BY DEF Matches, Unless, Sensitivity, Context

\* The default rules block what the permissions block.
LEMMA BlockedAreBlocked ==
    ASSUME NEW ctx \in Context, NEW tool \in Blocked
    PROVE  Says(DefaultRules, "block", tool, ctx)
<1> DEFINE rule == Plain("destructive-action-deny", "block", Blocked)
<1>1. rule \in DefaultRules /\ rule.decision = "block"
  BY DEF DefaultRules, Plain
<1>2. Matches(rule, tool, ctx)
  <2>1. /\ rule.keys = {} /\ rule.sensitive = BOOLEAN /\ rule.places = {}
        /\ rule.risks = {} /\ rule.levels = {} /\ tool \in rule.tools
    BY DEF Plain
  <2> HIDE DEF rule
  <2> QED  BY <2>1, PlainMatches
<1> QED
  BY <1>1, <1>2 DEF Says

\* They want an approval of every other tool whose permission wants one.
LEMMA HighRiskIsGated ==
    ASSUME NEW ctx \in Context, NEW tool \in Tools \ Blocked, Risk(tool) = "high"
    PROVE  \/ Says(DefaultRules, "escalate", tool, ctx)
           \/ Says(DefaultRules, "approval_required", tool, ctx)
<1>1. tool \in External \/ tool = "deploy_artifact"
  BY DEF Tools, Risk
<1>2. CASE tool \in External
  <2> DEFINE rule == [Plain("external-connector-escalation", "escalate", Tools)
                        EXCEPT !.levels = {"external_network"}]
  <2>1. rule \in DefaultRules /\ rule.decision = "escalate"
    BY DEF DefaultRules, Plain
  <2>2. Level(tool) = "external_network"
    BY <1>2 DEF Level, External, ReadOnly, Writers
  <2>3. /\ rule.keys = {} /\ rule.sensitive = BOOLEAN /\ rule.places = {}
        /\ rule.risks = {} /\ rule.levels = {"external_network"} /\ rule.tools = Tools
    BY DEF Plain
  <2> HIDE DEF rule
  <2> QED  BY <2>1, <2>2, <2>3, PlainMatches DEF Says
<1>3. CASE tool = "deploy_artifact"
  <2> DEFINE rule == [Plain("deployment-promotion-approval", "approval_required", Tools)
                        EXCEPT !.levels = {"deployment"}]
  <2>1. rule \in DefaultRules /\ rule.decision = "approval_required"
    BY DEF DefaultRules, Plain
  <2>2. Level(tool) = "deployment"
    BY <1>3 DEF Level, External, ReadOnly, Writers
  <2>3. /\ rule.keys = {} /\ rule.sensitive = BOOLEAN /\ rule.places = {}
        /\ rule.risks = {} /\ rule.levels = {"deployment"} /\ rule.tools = Tools
    BY DEF Plain
  <2> HIDE DEF rule
  <2> QED  BY <2>1, <2>2, <2>3, PlainMatches DEF Says
<1> QED
  BY <1>1, <1>2, <1>3

\* A default rule asks for a block, for an escalation or for an approval.
LEMMA DefaultsOnlyClose ==
    \A rule \in DefaultRules : rule.decision \in {"block", "escalate", "approval_required"}
<1> SUFFICES ASSUME NEW rule \in DefaultRules
             PROVE  rule.decision \in {"block", "escalate", "approval_required"}
  OBVIOUS
<1>1. CASE rule = Plain("code-execution-approval", "approval_required", {})
  BY <1>1 DEF Plain
<1>2. CASE rule = [Plain("deployment-promotion-approval", "approval_required", Tools)
                     EXCEPT !.levels = {"deployment"}]
  BY <1>2 DEF Plain
<1>3. CASE rule = [Plain("external-connector-escalation", "escalate", Tools)
                     EXCEPT !.levels = {"external_network"}]
  BY <1>3 DEF Plain
<1>4. CASE rule = [Plain("sensitive-artifact-approval", "approval_required",
                         {"artifact_reader", "dataset_reader"})
                     EXCEPT !.sensitive = {TRUE}, !.keys = MetadataKeys]
  BY <1>4 DEF Plain
<1>5. CASE rule = Plain("destructive-action-deny", "block", Blocked)
  BY <1>5 DEF Plain
<1> QED
  BY <1>1, <1>2, <1>3, <1>4, <1>5 DEF DefaultRules

\* More rules say more.
LEMMA MoreRulesSayMore ==
    ASSUME NEW rules, NEW more, rules \subseteq more, NEW decision, NEW tool, NEW ctx,
           Says(rules, decision, tool, ctx)
    PROVE  Says(more, decision, tool, ctx)
BY DEF Says

\* Whatever a registry that includes the default rules allows, the defaults
\* allow: evaluate takes the rules in the order block, retry, escalate,
\* approval, allow, so that a rule that allows never comes before a default.
LEMMA NeverLooser ==
    ASSUME NEW rules, DefaultRules \subseteq rules, NEW tool \in Tools, NEW ctx \in Context,
           Evaluate(rules, tool, ctx) = "allow"
    PROVE  Evaluate(DefaultRules, tool, ctx) = "allow"
<1> DEFINE D(decision) == Says(DefaultRules, decision, tool, ctx)
           R(decision) == Says(rules, decision, tool, ctx)
<1>1. /\ ~R("block") /\ ~R("retry")
      /\ R("escalate") \/ R("approval_required") => ctx.approved
  BY DEF Evaluate, Approvable
<1>2. D("block") => R("block")
  BY MoreRulesSayMore
<1>3. D("escalate") => R("escalate")
  BY MoreRulesSayMore
<1>4. D("approval_required") => R("approval_required")
  BY MoreRulesSayMore
<1>5. ~D("retry") /\ ~D("allow")
  BY DefaultsOnlyClose DEF Says
<1>6. tool \notin Blocked
  BY <1>1, <1>2, BlockedAreBlocked
<1>7. Risk(tool) = "high" => D("escalate") \/ D("approval_required")
  BY <1>6, HighRiskIsGated
<1> HIDE DEF D, R
<1>8. CASE D("escalate") \/ D("approval_required")
  BY <1>1, <1>2, <1>3, <1>4, <1>5, <1>8 DEF Evaluate, Approvable, D
<1>9. CASE ~D("escalate") /\ ~D("approval_required")
  BY <1>1, <1>2, <1>5, <1>6, <1>7, <1>9 DEF Evaluate, ByPermission, D
<1> QED
  BY <1>8, <1>9

-----------------------------------------------------------------------------
\* The default rules are never taken away.
PolicyInv == DefaultRules \subseteq registered /\ ExtensionNeverLoosens

LEMMA StepPolicyInv == PolicyInv /\ [PolicyNext]_policyVars => PolicyInv'
<1> SUFFICES ASSUME PolicyInv, [PolicyNext]_policyVars
             PROVE  PolicyInv'
  OBVIOUS
<1>1. ASSUME NEW rule \in Extensions, RegisterRule(rule)
      PROVE  PolicyInv'
  <2>1. DefaultRules \subseteq registered' /\ asked' = NotAsked
    BY <1>1 DEF RegisterRule, PolicyInv
  <2> QED
    BY <2>1 DEF PolicyInv, ExtensionNeverLoosens, NotAsked
<1>2. ASSUME NEW tool \in Tools, NEW ctx \in Context, Ask(tool, ctx)
      PROVE  PolicyInv'
  <2>1. /\ registered' = registered /\ asked'.tool = tool /\ asked'.ctx = ctx
        /\ asked'.verdict = Evaluate(registered, tool, ctx)
    BY <1>2 DEF Ask
  <2>2. DefaultRules \subseteq registered'
    BY <2>1 DEF PolicyInv
  <2>3. asked'.verdict = "allow" => Evaluate(DefaultRules, tool, ctx) = "allow"
    BY <2>1, NeverLooser DEF PolicyInv
  <2> QED
    BY <2>1, <2>2, <2>3 DEF PolicyInv, ExtensionNeverLoosens
<1>3. CASE UNCHANGED policyVars
  BY <1>3 DEF policyVars, PolicyInv, ExtensionNeverLoosens
<1> QED
  BY <1>1, <1>2, <1>3 DEF PolicyNext

\* No rule that a deployment may add, of any decision and any conditions, and
\* in whatever order rules are added, allows a tool in a context in which the
\* default registry does not (evaluate).
THEOREM ExtensionsNeverLoosen == PolicySpec => []ExtensionNeverLoosens
<1>1. PolicyInit => PolicyInv
  BY DEF PolicyInit, PolicyInv, ExtensionNeverLoosens, NotAsked
<1>2. PolicyInv => ExtensionNeverLoosens
  BY DEF PolicyInv
<1> QED
  BY <1>1, <1>2, StepPolicyInv, PTL DEF PolicySpec
-----------------------------------------------------------------------------
(* The catalog of data sources.  What makes the property inductive, for an *)
(* id that was never registered by two threads at once: the API's memory,  *)
(* its threads and the catalog agree about it.                             *)

\* One thread at most is registering the id, and it is free until then.
RegistersAlone(id) ==
    \A t \in Threads :
        (tasks[t].pc = "registering" /\ tasks[t].id = id) =>
            /\ memory["api"][id] = Unknown
            /\ tasks[t].kind \in SourceKinds
            /\ \A u \in Threads :
                  (tasks[u].pc = "registering" /\ tasks[u].id = id) => u = t

\* What a thread will write back is what the registry says still.
ReadsCurrent(id) ==
    \A t \in Threads :
        (tasks[t].pc = "executing" /\ tasks[t].id = id) =>
            tasks[t].kind = memory["api"][id]

\* What was acknowledged is in memory and in the file.
KeptTwice(id) ==
    id \in acknowledged => memory["api"][id] = "local" /\ id \in catalog

\* A task that is at work is at work on a source, of a known kind.
TasksNamed ==
    \A a \in Agents :
        tasks[a].pc # "idle" => tasks[a].id \in Sources /\ tasks[a].kind \in SourceKinds

CatalogInv ==
    /\ CatalogTypeOK
    /\ TasksNamed
    /\ \A id \in Sources \ raced : RegistersAlone(id) /\ ReadsCurrent(id) /\ KeptTwice(id)

-----------------------------------------------------------------------------
\* The catalog that Saved writes, and the one that a failed write leaves, are
\* sets of sources.
LEMMA LocalInSources ==
    ASSUME NEW store
    PROVE  LocalIn(store) \subseteq Sources
BY DEF LocalIn

\* The invariant tells the property.
LEMMA InvImpliesSurvive == CatalogInv => AcknowledgedSurvive
BY DEF CatalogInv, AcknowledgedSurvive, CatalogTypeOK, KeptTwice

LEMMA InitCatalogInv == CatalogInit => CatalogInv
<1> SUFFICES ASSUME CatalogInit PROVE CatalogInv
  OBVIOUS
<1>1. \A a \in Agents : tasks[a] = NoTask /\ tasks[a].pc = "idle"
  BY DEF CatalogInit, NoTask
<1>2. CatalogTypeOK
  BY DEF CatalogInit, CatalogTypeOK, NoTask
<1>3. \A id \in Sources \ raced : RegistersAlone(id) /\ ReadsCurrent(id) /\ KeptTwice(id)
  BY <1>1 DEF CatalogInit, RegistersAlone, ReadsCurrent, KeptTwice, Agents
<1> QED
  BY <1>1, <1>2, <1>3 DEF CatalogInv, TasksNamed

-----------------------------------------------------------------------------
(* The steps.  The threads are no worker, so that they all work on the     *)
(* API's registry.                                                         *)

LEMMA ThreadsAreHome ==
    /\ \A t \in Threads : t # Watcher /\ Home(t) = "api" /\ t \in Agents
    /\ Home(Watcher) = "watcher" /\ Watcher \in Agents
BY CatalogAssumption DEF Home, Agents

LEMMA CheckFreeInv ==
    ASSUME CatalogInv, NEW t \in Threads, NEW id \in Sources, NEW form \in SourceKinds,
           CheckFree(t, id, form)
    PROVE  CatalogInv'
<1> USE ThreadsAreHome
<1>1. /\ tasks[t].pc = "idle" /\ memory["api"][id] = Unknown
      /\ UNCHANGED <<memory, catalog, acknowledged>>
      /\ tasks \in [Agents -> [pc : {"idle", "registering", "executing"},
                               id : Sources \cup {Unknown}, kind : SourceKinds \cup {Unknown}]]
      /\ tasks' = [tasks EXCEPT ![t] = Task("registering", id, form)]
  BY DEF CheckFree, CatalogInv, CatalogTypeOK
<1>2. /\ tasks'[t].pc = "registering" /\ tasks'[t].id = id /\ tasks'[t].kind = form
      /\ \A a \in Agents \ {t} : tasks'[a] = tasks[a]
  BY <1>1 DEF Task
<1>3. raced \subseteq raced' /\ raced' \subseteq Sources
  BY DEF CheckFree, CatalogInv, CatalogTypeOK
<1>4. CatalogTypeOK'
  BY <1>1, <1>3 DEF CatalogInv, CatalogTypeOK, Task
<1>5. TasksNamed'
  BY <1>2 DEF CatalogInv, TasksNamed
<1>6. ASSUME NEW k \in Sources \ raced'
      PROVE  RegistersAlone(k)' /\ ReadsCurrent(k)' /\ KeptTwice(k)'
  <2>1. RegistersAlone(k) /\ ReadsCurrent(k) /\ KeptTwice(k)
    BY <1>3, <1>6 DEF CatalogInv
  <2>2. k = id => \A u \in Threads : ~(tasks[u].pc = "registering" /\ tasks[u].id = k)
    BY <1>6 DEF CheckFree
  <2>3. RegistersAlone(k)'
    BY <2>1, <2>2, <1>1, <1>2 DEF RegistersAlone
  <2>4. ReadsCurrent(k)'
    BY <2>1, <1>1, <1>2 DEF ReadsCurrent
  <2> QED
    BY <2>1, <2>3, <2>4, <1>1 DEF KeptTwice
<1> QED
  BY <1>4, <1>5, <1>6 DEF CatalogInv

\* The task of a thread ends: nothing else changes.
LEMMA RejectInv ==
    ASSUME CatalogInv, NEW a \in Agents, Reject(a)
    PROVE  CatalogInv'
<1>1. /\ tasks \in [Agents -> [pc : {"idle", "registering", "executing"},
                               id : Sources \cup {Unknown}, kind : SourceKinds \cup {Unknown}]]
      /\ tasks' = [tasks EXCEPT ![a] = NoTask]
      /\ UNCHANGED <<memory, catalog, acknowledged, raced>>
  BY DEF Reject, CatalogInv, CatalogTypeOK
<1>2. tasks'[a].pc = "idle" /\ \A b \in Agents \ {a} : tasks'[b] = tasks[b]
  BY <1>1 DEF NoTask
<1>3. CatalogTypeOK'
  BY <1>1 DEF CatalogInv, CatalogTypeOK, NoTask
<1>4. TasksNamed'
  BY <1>2 DEF CatalogInv, TasksNamed
<1>5. \A id \in Sources \ raced' : RegistersAlone(id)' /\ ReadsCurrent(id)' /\ KeptTwice(id)'
  BY <1>1, <1>2, ThreadsAreHome
     DEF CatalogInv, RegistersAlone, ReadsCurrent, KeptTwice
<1> QED
  BY <1>3, <1>4, <1>5 DEF CatalogInv

\* The step that acknowledges: the id was free, so that no thread holds an
\* older record of it, and every source acknowledged before is in the registry
\* from which the file is written.
LEMMA InsertInv ==
    ASSUME CatalogInv, NEW t \in Threads, Insert(t)
    PROVE  CatalogInv'
<1> USE ThreadsAreHome
<1> DEFINE id == tasks[t].id
           form == tasks[t].kind
           store == [memory["api"] EXCEPT ![id] = form]
<1>1. /\ tasks \in [Agents -> [pc : {"idle", "registering", "executing"},
                               id : Sources \cup {Unknown}, kind : SourceKinds \cup {Unknown}]]
      /\ memory \in [Processes -> [Sources -> SourceKinds \cup {Unknown}]]
      /\ tasks[t].pc = "registering" /\ id \in Sources /\ form \in SourceKinds
      /\ tasks' = [tasks EXCEPT ![t] = NoTask]
      /\ memory' = [memory EXCEPT !["api"] = store]
      /\ raced' = raced
  BY DEF Insert, CatalogInv, CatalogTypeOK, TasksNamed
<1>2. tasks'[t].pc = "idle" /\ \A b \in Agents \ {t} : tasks'[b] = tasks[b]
  BY <1>1 DEF NoTask
<1>3. /\ memory'["api"] = store
      /\ store \in [Sources -> SourceKinds \cup {Unknown}]
      /\ store[id] = form /\ \A k \in Sources \ {id} : store[k] = memory["api"][k]
  BY <1>1 DEF Processes
<1>4. \/ /\ catalog' = LocalIn(store)
         /\ acknowledged' = IF form = "local" THEN acknowledged \cup {id} ELSE acknowledged
      \/ catalog' = catalog /\ acknowledged' = acknowledged
  BY DEF Insert, Saved, SaveFails
<1>5. CatalogTypeOK'
  <2>1. catalog' \subseteq Sources /\ acknowledged' \subseteq Sources
    <3> HIDE DEF store, id, form
    <3> QED  BY <1>1, <1>4, LocalInSources DEF CatalogInv, CatalogTypeOK
  <2>2. memory' \in [Processes -> [Sources -> SourceKinds \cup {Unknown}]]
    BY <1>1, <1>3
  <2>3. tasks' \in [Agents -> [pc : {"idle", "registering", "executing"},
                               id : Sources \cup {Unknown}, kind : SourceKinds \cup {Unknown}]]
    BY <1>1 DEF NoTask
  <2> QED  BY <2>1, <2>2, <2>3, <1>1 DEF CatalogInv, CatalogTypeOK
<1>6. TasksNamed'
  BY <1>2 DEF CatalogInv, TasksNamed
<1>7. ASSUME NEW k \in Sources \ raced'
      PROVE  RegistersAlone(k)' /\ ReadsCurrent(k)' /\ KeptTwice(k)'
  <2>1. RegistersAlone(k) /\ ReadsCurrent(k) /\ KeptTwice(k)
    BY <1>1, <1>7 DEF CatalogInv
  <2>2. k = id =>
          /\ memory["api"][k] = Unknown
          /\ \A u \in Threads : ~(tasks'[u].pc = "registering" /\ tasks'[u].id = k)
    BY <2>1, <1>1, <1>2 DEF RegistersAlone
  <2>3. RegistersAlone(k)'
    <3> HIDE DEF store, id
    <3> QED  BY <2>1, <2>2, <1>2, <1>3, <1>7 DEF RegistersAlone
  <2>4. ReadsCurrent(k)'
    <3>1. k = id => \A u \in Threads : ~(tasks'[u].pc = "executing" /\ tasks'[u].id = k)
      BY <2>1, <2>2, <1>2 DEF ReadsCurrent, CatalogInv, TasksNamed, SourceKinds, Unknown
    <3> HIDE DEF store, id
    <3> QED  BY <3>1, <2>1, <1>2, <1>3, <1>7 DEF ReadsCurrent
  <2>5. KeptTwice(k)'
    <3>1. k = id => k \notin acknowledged
      BY <2>1, <2>2 DEF KeptTwice, Unknown
    <3>2. k \in acknowledged' => memory'["api"][k] = "local"
      BY <3>1, <2>1, <1>1, <1>3, <1>4 DEF KeptTwice
    <3>3. k \in acknowledged' => k \in catalog'
      <4> HIDE DEF store, id, form
      <4> QED  BY <3>1, <3>2, <2>1, <1>3, <1>4, <1>7 DEF KeptTwice, LocalIn
    <3> QED  BY <3>2, <3>3 DEF KeptTwice
  <2> QED  BY <2>3, <2>4, <2>5
<1> QED
  BY <1>5, <1>6, <1>7 DEF CatalogInv

LEMMA ValidateInv ==
    ASSUME CatalogInv, NEW id \in Sources, Validate(id)
    PROVE  CatalogInv'
<1>1. catalog' = LocalIn(memory["api"]) /\ UNCHANGED <<memory, tasks, acknowledged, raced>>
  BY DEF Validate, Saved
<1>2. CatalogTypeOK' /\ TasksNamed'
  BY <1>1, LocalInSources DEF CatalogInv, CatalogTypeOK, TasksNamed
<1>3. \A k \in Sources \ raced' : RegistersAlone(k)' /\ ReadsCurrent(k)'
  BY <1>1 DEF CatalogInv, RegistersAlone, ReadsCurrent
<1>4. \A k \in Sources \ raced' : KeptTwice(k)'
  BY <1>1 DEF CatalogInv, KeptTwice, LocalIn
<1> QED
  BY <1>2, <1>3, <1>4 DEF CatalogInv

LEMMA ReadForExecutionInv ==
    ASSUME CatalogInv, NEW a \in Agents, NEW id \in Sources, ReadForExecution(a, id)
    PROVE  CatalogInv'
<1> USE ThreadsAreHome
<1> DEFINE form == memory[Home(a)][id]
<1>1. /\ tasks \in [Agents -> [pc : {"idle", "registering", "executing"},
                               id : Sources \cup {Unknown}, kind : SourceKinds \cup {Unknown}]]
      /\ form \in SourceKinds
      /\ tasks' = [tasks EXCEPT ![a] = Task("executing", id, form)]
      /\ UNCHANGED <<memory, catalog, acknowledged, raced>>
  BY DEF ReadForExecution, CatalogInv, CatalogTypeOK, Home, Processes
<1>2. /\ tasks'[a].pc = "executing" /\ tasks'[a].id = id /\ tasks'[a].kind = form
      /\ \A b \in Agents \ {a} : tasks'[b] = tasks[b]
  BY <1>1 DEF Task
<1>3. CatalogTypeOK'
  <2> HIDE DEF form
  <2> QED  BY <1>1 DEF CatalogInv, CatalogTypeOK, Task
<1>4. TasksNamed'
  BY <1>1, <1>2 DEF CatalogInv, TasksNamed
<1>5. ASSUME NEW k \in Sources \ raced'
      PROVE  RegistersAlone(k)' /\ ReadsCurrent(k)' /\ KeptTwice(k)'
  <2>1. RegistersAlone(k) /\ ReadsCurrent(k) /\ KeptTwice(k)
    BY <1>1, <1>5 DEF CatalogInv
  <2>2. a \in Threads => form = memory["api"][id]
    OBVIOUS
  <2> HIDE DEF form
  <2>3. RegistersAlone(k)'
    BY <2>1, <1>1, <1>2 DEF RegistersAlone
  <2>4. ReadsCurrent(k)'
    BY <2>1, <2>2, <1>1, <1>2 DEF ReadsCurrent
  <2> QED
    BY <2>1, <2>3, <2>4, <1>1 DEF KeptTwice
<1> QED
  BY <1>3, <1>4, <1>5 DEF CatalogInv

\* A record that a thread writes back is the one the registry has; what the
\* worker writes back goes to its own registry.
LEMMA WriteBackInv ==
    ASSUME CatalogInv, NEW a \in Agents, WriteBack(a)
    PROVE  CatalogInv'
<1> USE ThreadsAreHome
<1> DEFINE id == tasks[a].id
           form == tasks[a].kind
<1>1. /\ tasks \in [Agents -> [pc : {"idle", "registering", "executing"},
                               id : Sources \cup {Unknown}, kind : SourceKinds \cup {Unknown}]]
      /\ memory \in [Processes -> [Sources -> SourceKinds \cup {Unknown}]]
      /\ tasks[a].pc = "executing" /\ id \in Sources /\ form \in SourceKinds
      /\ tasks' = [tasks EXCEPT ![a] = NoTask]
      /\ memory' = [memory EXCEPT ![Home(a)][id] = form]
      /\ UNCHANGED <<catalog, acknowledged, raced>>
  BY DEF WriteBack, CatalogInv, CatalogTypeOK, TasksNamed
<1>2. tasks'[a].pc = "idle" /\ \A b \in Agents \ {a} : tasks'[b] = tasks[b]
  BY <1>1 DEF NoTask
<1>3. ASSUME NEW k \in Sources
      PROVE  memory'["api"][k] = IF a \in Threads /\ k = id THEN form ELSE memory["api"][k]
  BY <1>1 DEF Processes, Home, Agents
<1>4. CatalogTypeOK'
  <2>1. memory' \in [Processes -> [Sources -> SourceKinds \cup {Unknown}]]
    BY <1>1 DEF Processes, Home
  <2> QED
    BY <2>1, <1>1 DEF CatalogInv, CatalogTypeOK, NoTask
<1>5. TasksNamed'
  BY <1>2 DEF CatalogInv, TasksNamed
<1>6. ASSUME NEW k \in Sources \ raced'
      PROVE  RegistersAlone(k)' /\ ReadsCurrent(k)' /\ KeptTwice(k)'
  <2>1. RegistersAlone(k) /\ ReadsCurrent(k) /\ KeptTwice(k)
    BY <1>1, <1>6 DEF CatalogInv
  <2>2. memory'["api"][k] = memory["api"][k]
    BY <2>1, <1>1, <1>3 DEF ReadsCurrent
  <2> HIDE DEF id, form
  <2> QED
    BY <2>1, <2>2, <1>1, <1>2 DEF RegistersAlone, ReadsCurrent, KeptTwice
<1> QED
  BY <1>4, <1>5, <1>6 DEF CatalogInv

\* The worker's registry and its task are of no concern to the API's.
LEMMA ReloadInv ==
    ASSUME CatalogInv, Reload
    PROVE  CatalogInv'
<1>1. Loaded \in [Sources -> SourceKinds \cup {Unknown}]
  BY DEF Loaded, SourceKinds
<1>2. /\ memory'["api"] = memory["api"]
      /\ \A t \in Threads : tasks'[t] = tasks[t]
      /\ UNCHANGED <<catalog, acknowledged, raced>>
  BY ThreadsAreHome DEF Reload, CatalogInv, CatalogTypeOK, Processes
<1>3. CatalogTypeOK'
  BY <1>1 DEF Reload, CatalogInv, CatalogTypeOK, NoTask
<1>4. TasksNamed'
  BY <1>2 DEF Reload, CatalogInv, CatalogTypeOK, TasksNamed, Agents, NoTask
<1>5. \A k \in Sources \ raced' : RegistersAlone(k)' /\ ReadsCurrent(k)' /\ KeptTwice(k)'
  BY <1>2 DEF CatalogInv, RegistersAlone, ReadsCurrent, KeptTwice
<1> QED
  BY <1>3, <1>4, <1>5 DEF CatalogInv

\* What was acknowledged is read back from the file.
LEMMA RestartInv ==
    ASSUME CatalogInv, RestartApi
    PROVE  CatalogInv'
<1>1. Loaded \in [Sources -> SourceKinds \cup {Unknown}]
  BY DEF Loaded, SourceKinds
<1>2. /\ memory'["api"] = Loaded
      /\ \A t \in Threads : tasks'[t].pc = "idle"
      /\ UNCHANGED <<catalog, acknowledged, raced>>
  BY ThreadsAreHome DEF RestartApi, CatalogInv, CatalogTypeOK, Processes, NoTask
<1>3. CatalogTypeOK'
  BY <1>1 DEF RestartApi, CatalogInv, CatalogTypeOK, NoTask
<1>4. TasksNamed'
  BY <1>2, ThreadsAreHome DEF RestartApi, CatalogInv, TasksNamed, Agents
<1>5. ASSUME NEW k \in Sources \ raced'
      PROVE  RegistersAlone(k)' /\ ReadsCurrent(k)' /\ KeptTwice(k)'
  <2>1. KeptTwice(k)
    BY <1>2, <1>5 DEF CatalogInv
  <2> QED
    BY <2>1, <1>2 DEF RegistersAlone, ReadsCurrent, KeptTwice, Loaded
<1> QED
  BY <1>3, <1>4, <1>5 DEF CatalogInv

LEMMA StepCatalogInv == CatalogInv /\ [CatalogNext]_catalogVars => CatalogInv'
<1> SUFFICES ASSUME CatalogInv, [CatalogNext]_catalogVars
             PROVE  CatalogInv'
  OBVIOUS
<1>1. ASSUME NEW t \in Threads, NEW id \in Sources, NEW form \in SourceKinds,
             CheckFree(t, id, form)
      PROVE  CatalogInv'
  BY <1>1, CheckFreeInv
<1>2. ASSUME NEW t \in Threads, Insert(t)  PROVE CatalogInv'
  BY <1>2, InsertInv
<1>3. ASSUME NEW id \in Sources, Validate(id)  PROVE CatalogInv'
  BY <1>3, ValidateInv
<1>4. ASSUME NEW a \in Agents, Reject(a) \/ WriteBack(a)  PROVE CatalogInv'
  BY <1>4, RejectInv, WriteBackInv
<1>5. ASSUME NEW a \in Agents, NEW id \in Sources, ReadForExecution(a, id)
      PROVE  CatalogInv'
  BY <1>5, ReadForExecutionInv
<1>6. CASE Reload
  BY <1>6, ReloadInv
<1>7. CASE RestartApi
  BY <1>7, RestartInv
<1>8. CASE UNCHANGED catalogVars
  BY <1>8 DEF catalogVars, CatalogInv, CatalogTypeOK, TasksNamed, RegistersAlone,
              ReadsCurrent, KeptTwice
<1> QED
  BY <1>1, <1>2, <1>3, <1>4, <1>5, <1>6, <1>7, <1>8 DEF CatalogNext

-----------------------------------------------------------------------------
\* Every reachable state of the registry, its threads and the file is well
\* typed (register, validate and validate_for_execution).
THEOREM CatalogTypeCorrect == CatalogSpec => []CatalogTypeOK
<1>1. CatalogInv => CatalogTypeOK
  BY DEF CatalogInv
<1> QED
  BY <1>1, InitCatalogInv, StepCatalogInv, PTL DEF CatalogSpec

\* A local file whose registration succeeded is in the catalog from then on,
\* for any number of sources, threads and records: neither a record written
\* back by validate_for_execution, nor a failed write, nor a restart loses it.
THEOREM AcknowledgedSourcesSurvive == CatalogSpec => []AcknowledgedSurvive
BY InitCatalogInv, StepCatalogInv, InvImpliesSurvive, PTL DEF CatalogSpec
-----------------------------------------------------------------------------
(* Deployment approvals.  The artifacts and events of a deployment that no *)
(* two calls were at, and at which none broke off, are those its call has  *)
(* come to.                                                                *)

\* How often x is in a sequence.
Count(s, x) == Cardinality({i \in DOMAIN s : s[i] = x})

\* What the tables r and j, of artifacts and of events, have of the deployment d.
Tally(r, j, d, requested, released, completed, failed) ==
    /\ Count(j, <<d, "requested">>) = requested
    /\ Count(r, d) = released
    /\ Count(j, <<d, "completed">>) = completed
    /\ Count(j, <<d, "failed">>) = failed

\* The story of a deployment at which no call is,
Settled(r, j, d, status) ==
    /\ status = "absent" => Tally(r, j, d, 0, 0, 0, 0)
    /\ status = "waiting" => Tally(r, j, d, 1, 0, 0, 0)
    /\ status = "completed" => Tally(r, j, d, 1, 1, 1, 0)
    /\ status = "failed" => Tally(r, j, d, 1, 0, 0, 1)

\* and of one at which one is.
UnderWay(r, j, d, status, call) ==
    /\ call.pc \in {"pausing", "announcing"} => status = "waiting" /\ Tally(r, j, d, 0, 0, 0, 0)
    /\ call.pc = "registering" => status = "waiting" /\ Tally(r, j, d, 1, 0, 0, 0)
    /\ call.pc \in {"settling run", "settling job"} =>
          /\ status = "waiting"
          /\ call.approved => Tally(r, j, d, 1, 1, 0, 0)
          /\ ~call.approved => Tally(r, j, d, 1, 0, 0, 0)
    /\ call.pc = "reporting" =>
          /\ call.approved => status = "completed" /\ Tally(r, j, d, 1, 1, 0, 0)
          /\ ~call.approved => status = "failed" /\ Tally(r, j, d, 1, 0, 0, 0)

\* A call knows its job, which is there, and an approval its artifact.
CallKnown(r, jobs, call) ==
    /\ call.pc \in {"idle", "requesting"} => call.job = "none"
    /\ call.pc \notin {"idle", "requesting"} =>
          call.job \in Deployments /\ jobs[call.job].status # "absent"
    /\ call.pc = "registering" => call.approved
    /\ call.approved /\ call.pc \in {"settling run", "settling job", "reporting"} =>
          call.artifact \in DOMAIN r /\ r[call.artifact] = call.job

\* One call at most is at a deployment that was never disturbed.
OneCall(all, d) == \A a, b \in Approvers : all[a].job = d /\ all[b].job = d => a = b

Agreed(r, j, jobs, all, d) ==
    /\ OneCall(all, d)
    /\ (\A a \in Approvers : all[a].job # d) => Settled(r, j, d, jobs[d].status)
    /\ \A a \in Approvers : all[a].job = d => UnderWay(r, j, d, jobs[d].status, all[a])

ApprovalInv ==
    /\ ApprovalTypeOK
    /\ \A a \in Approvers : CallKnown(releases, jobOf, calls[a])
    /\ CompletedIsReleased
    /\ \A d \in Deployments \ disturbed : Agreed(releases, journal, jobOf, calls, d)

\* What an insert at the end makes of the count.
LEMMA CountAppend ==
    ASSUME NEW S, NEW s \in Seq(S), NEW y \in S, NEW x
    PROVE  /\ Count(s, x) \in Nat
           /\ y = x => Count(Append(s, y), x) = Count(s, x) + 1
           /\ y # x => Count(Append(s, y), x) = Count(s, x)
<1> DEFINE t == Append(s, y)
           at == {i \in DOMAIN s : s[i] = x}
           new == {i \in DOMAIN t : t[i] = x}
<1>1. /\ DOMAIN s = 1 .. Len(s) /\ Len(s) \in Nat
      /\ DOMAIN t = 1 .. (Len(s) + 1) /\ t[Len(s) + 1] = y
      /\ \A i \in 1 .. Len(s) : t[i] = s[i]
  OBVIOUS
<1>2. IsFiniteSet(at) /\ Cardinality(at) \in Nat
  <2>1. IsFiniteSet(1 .. Len(s))
    <3>1. 1 \in Int /\ Len(s) \in Int
      BY <1>1
    <3>2. QED
      BY ONLY <3>1, FS_Interval
  <2>2. at \in SUBSET (1 .. Len(s))
    BY <1>1
  <2>3. QED
    BY <2>1, <2>2, FS_Subset, FS_CardinalityType
<1> HIDE DEF t
<1>3. /\ y = x => new = at \cup {Len(s) + 1}
      /\ y # x => new = at
  BY <1>1
<1>4. Len(s) + 1 \notin at
  BY <1>1
<1> HIDE DEF at, new
<1>5. Cardinality(at \cup {Len(s) + 1}) = Cardinality(at) + 1
  BY <1>2, <1>4, FS_AddElement
<1>6. QED
  BY <1>2, <1>3, <1>5 DEF Count, at, new, t

\* Nothing is in a table that is empty.
LEMMA CountEmpty == \A x : Count(<<>>, x) = 0
<1>1. \A x : {i \in DOMAIN <<>> : <<>>[i] = x} = {}
  OBVIOUS
<1>2. QED
  BY <1>1, FS_EmptySet DEF Count

\* A step of the call c, at the deployment d, from calls[c] to k: what it owes.
LEMMA ApprovalCallStep ==
    ASSUME ApprovalInv, NEW c \in Approvers, NEW d \in Deployments, NEW k,
           ApprovalTypeOK',
           calls' = [calls EXCEPT ![c] = k],
           calls[c].job \in {d, "none"}, k.job \in {d, "none"},
           disturbed \subseteq disturbed',
           \A e \in Deployments \ {d} :
              /\ jobOf'[e] = jobOf[e]
              /\ Count(releases', e) = Count(releases, e)
              /\ \A what : Count(journal', <<e, what>>) = Count(journal, <<e, what>>),
           jobOf[d].status # "absent" => jobOf'[d].status # "absent",
           \A i \in DOMAIN releases : i \in DOMAIN releases' /\ releases'[i] = releases[i],
           CallKnown(releases', jobOf', k),
           jobOf'[d].status = "completed" =>
              jobOf'[d].artifact \in DOMAIN releases' /\ releases'[jobOf'[d].artifact] = d,
           d \notin disturbed' => Agreed(releases', journal', jobOf', calls', d)
    PROVE  ApprovalInv'
<1>1. /\ calls'[c] = k /\ \A a \in Approvers \ {c} : calls'[a] = calls[a]
      /\ "none" \notin Deployments
  BY ApprovalAssumption DEF ApprovalInv, ApprovalTypeOK
<1>2. ASSUME NEW a \in Approvers
      PROVE  CallKnown(releases', jobOf', calls'[a])
  <2>1. CASE a = c
    BY <1>1, <2>1
  <2>2. CASE a # c
    <3>1. CallKnown(releases, jobOf, calls[a]) /\ calls'[a] = calls[a]
      BY <1>1, <2>2 DEF ApprovalInv
    <3>2. \A e \in Deployments : jobOf[e].status # "absent" => jobOf'[e].status # "absent"
      OBVIOUS
    <3>3. QED
      BY <3>1, <3>2, ZenonT(40) DEF CallKnown
  <2>3. QED
    BY <2>1, <2>2
<1>3. CompletedIsReleased'
  <2>1. ASSUME NEW e \in Deployments, jobOf'[e].status = "completed"
        PROVE  jobOf'[e].artifact \in DOMAIN releases' /\ releases'[jobOf'[e].artifact] = e
    <3>1. CASE e = d
      BY <2>1, <3>1
    <3>2. CASE e # d
      <4>1. jobOf'[e] = jobOf[e]
        BY <3>2
      <4>2. jobOf[e].artifact \in DOMAIN releases /\ releases[jobOf[e].artifact] = e
        BY <2>1, <4>1 DEF ApprovalInv, CompletedIsReleased, ReleasesOf
      <4>3. QED
        BY <4>1, <4>2
    <3>3. QED
      BY <3>1, <3>2
  <2>2. QED
    BY <2>1 DEF CompletedIsReleased, ReleasesOf
<1>4. ASSUME NEW e \in Deployments \ disturbed'
      PROVE  Agreed(releases', journal', jobOf', calls', e)
  <2>1. CASE e = d
    BY <1>4, <2>1
  <2>2. CASE e # d
    <3>1. Agreed(releases, journal, jobOf, calls, e)
      BY <1>4 DEF ApprovalInv
    <3>2. /\ jobOf'[e] = jobOf[e] /\ Count(releases', e) = Count(releases, e)
          /\ \A what : Count(journal', <<e, what>>) = Count(journal, <<e, what>>)
      BY <2>2
    <3>3. \A n1, n2, n3, n4 : Tally(releases, journal, e, n1, n2, n3, n4) =>
             Tally(releases', journal', e, n1, n2, n3, n4)
      BY <3>2 DEF Tally
    <3>4. \A a \in Approvers : /\ calls[a].job = e => calls'[a] = calls[a]
                               /\ calls'[a].job = e => calls'[a] = calls[a]
      BY <1>1, <2>2
    <3>5. OneCall(calls', e)
      BY <3>1, <3>4 DEF Agreed, OneCall
    <3>6. (\A a \in Approvers : calls'[a].job # e) =>
             Settled(releases', journal', e, jobOf'[e].status)
      BY <3>1, <3>2, <3>3, <3>4 DEF Agreed, Settled
    <3>7. ASSUME NEW a \in Approvers, calls'[a].job = e
          PROVE  UnderWay(releases', journal', e, jobOf'[e].status, calls'[a])
      <4>1. calls'[a] = calls[a] /\ UnderWay(releases, journal, e, jobOf[e].status, calls[a])
        BY <3>1, <3>4, <3>7 DEF Agreed
      <4>2. QED
        BY <3>2, <3>3, <4>1 DEF UnderWay
    <3>8. QED
      BY <3>5, <3>6, <3>7 DEF Agreed
  <2>3. QED
    BY <2>1, <2>2
<1>5. QED
  BY <1>2, <1>3, <1>4 DEF ApprovalInv

\* Of the deployment of a call under way nothing else is told.
LEMMA AloneAt ==
    ASSUME ApprovalInv, NEW c \in Approvers, calls[c].pc \notin {"idle", "requesting"}
    PROVE  /\ calls[c].job \in Deployments
           /\ jobOf[calls[c].job].status # "absent"
           /\ calls[c].job \notin disturbed =>
                 /\ \A a \in Approvers \ {c} : calls[a].job # calls[c].job
                 /\ UnderWay(releases, journal, calls[c].job, jobOf[calls[c].job].status, calls[c])
<1>1. CallKnown(releases, jobOf, calls[c])
  BY DEF ApprovalInv
<1>2. calls[c].job \in Deployments /\ jobOf[calls[c].job].status # "absent"
  BY <1>1 DEF CallKnown
<1>3. ASSUME calls[c].job \notin disturbed
      PROVE  Agreed(releases, journal, jobOf, calls, calls[c].job)
  BY <1>2, <1>3 DEF ApprovalInv
<1>4. QED
  BY <1>2, <1>3 DEF Agreed, OneCall

CallRecords == [pc : {"idle", "requesting", "pausing", "announcing", "registering",
                      "settling run", "settling job", "reporting"},
                job : Deployments \cup {"none"}, approved : BOOLEAN, artifact : Nat]

\* A call that ends knows no job.
LEMMA NoCallKnown ==
    /\ NoCall \in CallRecords /\ NoCall.job = "none"
    /\ \A r, jobs : CallKnown(r, jobs, NoCall)
BY DEF NoCall, CallRecords, NoArtifact, CallKnown

\* A request is looked at.
LEMMA CheckRequestStep ==
    ASSUME ApprovalInv, NEW c \in Approvers, CheckRequest(c)
    PROVE  ApprovalInv'
<1> DEFINE k == [calls[c] EXCEPT !.pc = "requesting"]
<1>1. /\ calls[c].pc = "idle" /\ calls' = [calls EXCEPT ![c] = k]
      /\ jobOf' = jobOf /\ runStatus' = runStatus /\ releases' = releases /\ journal' = journal
      /\ decisions' = decisions /\ breaks' = breaks /\ disturbed' = disturbed
  BY DEF CheckRequest
<1>2. PICK d \in Deployments : jobOf[d].status = "absent"
  BY DEF CheckRequest
<1>3. /\ calls \in [Approvers -> CallRecords] /\ CallKnown(releases, jobOf, calls[c])
  BY DEF ApprovalInv, ApprovalTypeOK, CallRecords
<1>4. calls[c].job = "none" /\ "none" \notin Deployments
  BY <1>1, <1>3, ApprovalAssumption DEF CallKnown
<1>5. k \in CallRecords /\ k.pc = "requesting" /\ k.job = "none"
  BY <1>3, <1>4 DEF CallRecords
<1> HIDE DEF k
<1>6. ApprovalTypeOK'
  BY <1>1, <1>3, <1>5 DEF ApprovalInv, ApprovalTypeOK, CallRecords
<1>7. CallKnown(releases, jobOf, k)
  BY <1>5 DEF CallKnown
<1>8. ASSUME d \notin disturbed
      PROVE  Agreed(releases, journal, jobOf, calls', d)
  <2>1. Agreed(releases, journal, jobOf, calls, d)
    BY <1>8 DEF ApprovalInv
  <2>2. \A a \in Approvers : /\ calls'[a].job = calls[a].job
                             /\ calls[a].job = d => calls'[a] = calls[a]
    BY <1>1, <1>3, <1>4, <1>5
  <2>3. QED
    BY <2>1, <2>2 DEF Agreed, OneCall
<1>9. jobOf[d].status = "completed" =>
         jobOf[d].artifact \in DOMAIN releases /\ releases[jobOf[d].artifact] = d
  BY <1>2
<1>10. QED
  BY <1>1, <1>4, <1>5, <1>6, <1>7, <1>8, <1>9, ApprovalCallStep

\* Its job is enqueued: nobody can have been at it before.
LEMMA EnqueueStep ==
    ASSUME ApprovalInv, NEW c \in Approvers, EnqueueWaiting(c)
    PROVE  ApprovalInv'
<1>1. PICK d \in Deployments :
         /\ jobOf[d].status = "absent"
         /\ jobOf' = [jobOf EXCEPT ![d] = [jobOf[d] EXCEPT !.status = "waiting"]]
         /\ calls' = [calls EXCEPT ![c] = [calls[c] EXCEPT !.pc = "pausing", !.job = d]]
  BY DEF EnqueueWaiting
<1>2. /\ calls[c].pc = "requesting"
      /\ runStatus' = runStatus /\ releases' = releases /\ journal' = journal
      /\ decisions' = decisions /\ breaks' = breaks /\ disturbed' = disturbed
  BY DEF EnqueueWaiting
<1> DEFINE k == [calls[c] EXCEPT !.pc = "pausing", !.job = d]
           Records == [status : {"absent", "waiting", "completed", "failed"}, artifact : Nat]
           new == [jobOf[d] EXCEPT !.status = "waiting"]
<1>3. /\ calls \in [Approvers -> CallRecords] /\ CallKnown(releases, jobOf, calls[c])
      /\ jobOf \in [Deployments -> Records]
  BY DEF ApprovalInv, ApprovalTypeOK, CallRecords
<1>4. calls[c].job = "none" /\ "none" \notin Deployments
  BY <1>2, <1>3, ApprovalAssumption DEF CallKnown
<1>5. k \in CallRecords /\ k.pc = "pausing" /\ k.job = d
  BY <1>3 DEF CallRecords
<1>6. new \in Records /\ new.status = "waiting"
  BY <1>3
<1> HIDE DEF k, Records, new
<1>7. calls' = [calls EXCEPT ![c] = k] /\ jobOf' = [jobOf EXCEPT ![d] = new]
  BY <1>1 DEF k, new
<1>8. /\ jobOf'[d] = new /\ \A e \in Deployments \ {d} : jobOf'[e] = jobOf[e]
      /\ calls'[c] = k /\ \A a \in Approvers \ {c} : calls'[a] = calls[a]
      /\ jobOf' \in [Deployments -> Records]
  BY <1>3, <1>6, <1>7
<1>9. ApprovalTypeOK'
  BY <1>2, <1>3, <1>5, <1>7, <1>8 DEF ApprovalInv, ApprovalTypeOK, CallRecords, Records
<1>10. CallKnown(releases, jobOf', k)
  BY <1>5, <1>6, <1>8 DEF CallKnown
<1>11. \A a \in Approvers : calls[a].job # d
  <2>1. ASSUME NEW a \in Approvers, calls[a].job = d
        PROVE  FALSE
    <3>1. CallKnown(releases, jobOf, calls[a])
      BY DEF ApprovalInv
    <3>2. QED
      BY <1>1, <1>4, <2>1, <3>1 DEF CallKnown
  <2>2. QED
    BY <2>1
<1>12. ASSUME d \notin disturbed
       PROVE  Agreed(releases, journal, jobOf', calls', d)
  <2>1. Settled(releases, journal, d, "absent")
    BY <1>1, <1>11, <1>12 DEF ApprovalInv, Agreed
  <2>2. UnderWay(releases, journal, d, "waiting", k)
    BY <1>5, <2>1 DEF Settled, UnderWay
  <2>3. QED
    BY <1>5, <1>6, <1>8, <1>11, <2>2 DEF Agreed, OneCall
<1>13. QED
  BY <1>2, <1>4, <1>5, <1>6, <1>7, <1>8, <1>9, <1>10, <1>12, ApprovalCallStep

\* A call goes on, k, without anything being written that is told of a deployment.
LEMMA GoesOnStep ==
    ASSUME ApprovalInv, NEW c \in Approvers, NEW k \in CallRecords,
           calls[c].pc \notin {"idle", "requesting"},
           calls' = [calls EXCEPT ![c] = k], k.job = calls[c].job,
           k.pc \notin {"idle", "requesting"}, k.approved = calls[c].approved,
           k.artifact = calls[c].artifact,
           \/ calls[c].pc = "pausing" /\ k.pc = "announcing"
           \/ calls[c].pc = "settling run" /\ k.pc = "settling job",
           runStatus' \in {"pending", "running", "waiting", "completed", "failed"},
           jobOf' = jobOf, releases' = releases, journal' = journal, decisions' = decisions,
           breaks' = breaks, disturbed' = disturbed
    PROVE  ApprovalInv'
<1> DEFINE d == calls[c].job
<1>1. /\ d \in Deployments /\ jobOf[d].status # "absent"
      /\ d \notin disturbed =>
            /\ \A a \in Approvers \ {c} : calls[a].job # d
            /\ UnderWay(releases, journal, d, jobOf[d].status, calls[c])
  BY AloneAt
<1>2. calls \in [Approvers -> CallRecords] /\ CallKnown(releases, jobOf, calls[c])
  BY DEF ApprovalInv, ApprovalTypeOK, CallRecords
<1>3. ApprovalTypeOK'
  BY <1>2 DEF ApprovalInv, ApprovalTypeOK, CallRecords
<1>4. CallKnown(releases, jobOf, k)
  BY <1>2 DEF CallKnown
<1>5. ASSUME d \notin disturbed
      PROVE  Agreed(releases, journal, jobOf, calls', d)
  <2>1. UnderWay(releases, journal, d, jobOf[d].status, k)
    BY <1>1, <1>5 DEF UnderWay
  <2>2. /\ calls'[c] = k /\ k.job = d
        /\ \A a \in Approvers \ {c} : calls'[a] = calls[a] /\ calls[a].job # d
    BY <1>1, <1>2, <1>5
  <2>3. QED
    BY <2>1, <2>2 DEF Agreed, OneCall
<1>6. jobOf[d].status = "completed" =>
         jobOf[d].artifact \in DOMAIN releases /\ releases[jobOf[d].artifact] = d
  BY <1>1 DEF ApprovalInv, CompletedIsReleased, ReleasesOf
<1> HIDE DEF d
<1>7. calls[c].job = d
  BY DEF d
<1>8. QED
  BY <1>1, <1>3, <1>4, <1>5, <1>6, <1>7, ApprovalCallStep

\* The run is paused, or settled: the story of the deployment stays.
LEMMA RunStatusStep ==
    ASSUME ApprovalInv, NEW c \in Approvers, PauseRun(c) \/ SettleRun(c)
    PROVE  ApprovalInv'
<1>1. calls \in [Approvers -> CallRecords]
  BY DEF ApprovalInv, ApprovalTypeOK, CallRecords
<1>2. CASE PauseRun(c)
  <2> DEFINE k == [calls[c] EXCEPT !.pc = "announcing"]
  <2>1. /\ calls[c].pc = "pausing" /\ calls' = [calls EXCEPT ![c] = k] /\ runStatus' = "waiting"
        /\ jobOf' = jobOf /\ releases' = releases /\ journal' = journal
        /\ decisions' = decisions /\ breaks' = breaks /\ disturbed' = disturbed
    BY <1>2 DEF PauseRun
  <2>2. /\ k \in CallRecords /\ k.pc = "announcing" /\ k.job = calls[c].job
        /\ k.approved = calls[c].approved /\ k.artifact = calls[c].artifact
    BY <1>1 DEF CallRecords
  <2> HIDE DEF k
  <2>3. QED
    BY <2>1, <2>2, GoesOnStep
<1>3. CASE SettleRun(c)
  <2> DEFINE k == [calls[c] EXCEPT !.pc = "settling job"]
  <2>1. /\ calls[c].pc = "settling run" /\ calls' = [calls EXCEPT ![c] = k]
        /\ runStatus' \in {"completed", "failed"}
        /\ jobOf' = jobOf /\ releases' = releases /\ journal' = journal
        /\ decisions' = decisions /\ breaks' = breaks /\ disturbed' = disturbed
    BY <1>3 DEF SettleRun, Verdict
  <2>2. /\ k \in CallRecords /\ k.pc = "settling job" /\ k.job = calls[c].job
        /\ k.approved = calls[c].approved /\ k.artifact = calls[c].artifact
    BY <1>1 DEF CallRecords
  <2> HIDE DEF k
  <2>3. QED
    BY <2>1, <2>2, GoesOnStep
<1>4. QED
  BY <1>2, <1>3

\* A call reports what it has come to, and ends.
LEMMA ReportsStep ==
    ASSUME ApprovalInv, NEW c \in Approvers,
           NEW what \in {"requested", "completed", "failed"},
           \/ calls[c].pc = "announcing" /\ what = "requested"
           \/ /\ calls[c].pc = "reporting"
              /\ what = IF calls[c].approved THEN "completed" ELSE "failed",
           journal' = Append(journal, <<calls[c].job, what>>),
           calls' = [calls EXCEPT ![c] = NoCall],
           jobOf' = jobOf, runStatus' = runStatus, releases' = releases,
           decisions' = decisions, breaks' = breaks, disturbed' = disturbed
    PROVE  ApprovalInv'
<1> DEFINE d == calls[c].job
           Events == Deployments \X {"requested", "completed", "failed"}
<1>1. /\ d \in Deployments /\ jobOf[d].status # "absent"
      /\ d \notin disturbed =>
            /\ \A a \in Approvers \ {c} : calls[a].job # d
            /\ UnderWay(releases, journal, d, jobOf[d].status, calls[c])
  BY AloneAt
<1>2. calls \in [Approvers -> CallRecords] /\ journal \in Seq(Events)
      /\ "none" \notin Deployments
  BY ApprovalAssumption DEF ApprovalInv, ApprovalTypeOK, CallRecords
<1>3. <<d, what>> \in Events
  BY <1>1
<1> HIDE DEF Events
<1>4. journal' \in Seq(Events)
  BY <1>2, <1>3
<1>5. ApprovalTypeOK'
  BY <1>2, <1>4, NoCallKnown DEF ApprovalInv, ApprovalTypeOK, CallRecords, Events
<1>6. \A x : /\ Count(journal, x) \in Nat
             /\ x = <<d, what>> => Count(journal', x) = Count(journal, x) + 1
             /\ x # <<d, what>> => Count(journal', x) = Count(journal, x)
  BY <1>2, <1>3, CountAppend
<1>7. CallKnown(releases, jobOf, NoCall) /\ NoCall.job = "none"
  BY NoCallKnown
<1>8. /\ calls'[c] = NoCall /\ \A a \in Approvers \ {c} : calls'[a] = calls[a]
  BY <1>2
<1>9. ASSUME d \notin disturbed
      PROVE  Agreed(releases, journal', jobOf, calls', d)
  <2>1. UnderWay(releases, journal, d, jobOf[d].status, calls[c])
    BY <1>1, <1>9
  <2>2. /\ what # "requested" => Count(journal', <<d, "requested">>) = Count(journal, <<d, "requested">>)
        /\ what # "completed" => Count(journal', <<d, "completed">>) = Count(journal, <<d, "completed">>)
        /\ what # "failed" => Count(journal', <<d, "failed">>) = Count(journal, <<d, "failed">>)
        /\ Count(journal', <<d, what>>) = Count(journal, <<d, what>>) + 1
    BY <1>6
  <2>3. Settled(releases, journal', d, jobOf[d].status)
    <3>1. CASE calls[c].pc = "announcing" /\ what = "requested"
      BY <2>1, <2>2, <3>1 DEF UnderWay, Settled, Tally
    <3>2. CASE calls[c].pc = "reporting" /\ calls[c].approved /\ what = "completed"
      BY <2>1, <2>2, <3>2 DEF UnderWay, Settled, Tally
    <3>3. CASE calls[c].pc = "reporting" /\ ~calls[c].approved /\ what = "failed"
      BY <2>1, <2>2, <3>3 DEF UnderWay, Settled, Tally
    <3>4. QED
      BY <3>1, <3>2, <3>3
  <2>4. \A a \in Approvers : calls'[a].job # d
    BY <1>1, <1>2, <1>7, <1>8, <1>9
  <2>5. QED
    BY <2>3, <2>4 DEF Agreed, OneCall
<1>10. jobOf[d].status = "completed" =>
         jobOf[d].artifact \in DOMAIN releases /\ releases[jobOf[d].artifact] = d
  BY <1>1 DEF ApprovalInv, CompletedIsReleased, ReleasesOf
<1>11. \A e \in Deployments \ {d} : \A x :
          Count(journal', <<e, x>>) = Count(journal, <<e, x>>)
  BY <1>6
<1> HIDE DEF d
<1>12. calls[c].job = d
  BY DEF d
<1>13. QED
  BY <1>1, <1>5, <1>7, <1>9, <1>10, <1>11, <1>12, ApprovalCallStep

\* A decision begins: of a deployment at which a call is, it disturbs the story.
LEMMA DecidesStep ==
    ASSUME ApprovalInv, NEW c \in Approvers, NEW d \in Deployments, NEW approved \in BOOLEAN,
           ReadDecidable(c, d, approved)
    PROVE  ApprovalInv'
<1> DEFINE pc == IF approved THEN "registering" ELSE "settling run"
           k == [NoCall EXCEPT !.pc = pc, !.job = d, !.approved = approved]
<1>1. /\ calls[c].pc = "idle" /\ jobOf[d].status = "waiting"
      /\ calls' = [calls EXCEPT ![c] = k]
      /\ decisions < MaxDecisions /\ decisions' = decisions + 1
      /\ disturbed' = IF Busy(d) THEN disturbed \cup {d} ELSE disturbed
      /\ jobOf' = jobOf /\ runStatus' = runStatus /\ releases' = releases /\ journal' = journal
      /\ breaks' = breaks
  BY DEF ReadDecidable, BeginDecision
<1>2. /\ calls \in [Approvers -> CallRecords] /\ CallKnown(releases, jobOf, calls[c])
      /\ decisions \in 0 .. MaxDecisions /\ MaxDecisions \in Nat /\ "none" \notin Deployments
  BY ApprovalAssumption DEF ApprovalInv, ApprovalTypeOK, CallRecords
<1>3. calls[c].job = "none"
  BY <1>1, <1>2 DEF CallKnown
<1>4. /\ pc \in {"registering", "settling run"} /\ (pc = "registering" <=> approved)
  OBVIOUS
<1> HIDE DEF pc
<1>5. k \in CallRecords /\ k.pc = pc /\ k.job = d /\ k.approved = approved
  BY <1>4 DEF CallRecords, NoCall, NoArtifact
<1> HIDE DEF k
<1>6. ApprovalTypeOK'
  <2>1. calls' \in [Approvers -> CallRecords] /\ decisions' \in 0 .. MaxDecisions
    BY <1>1, <1>2, <1>5
  <2>2. disturbed' \subseteq Deployments
    BY <1>1 DEF ApprovalInv, ApprovalTypeOK
  <2>3. QED
    BY <1>1, <2>1, <2>2 DEF ApprovalInv, ApprovalTypeOK, CallRecords
<1>7. disturbed \subseteq disturbed' /\ (d \notin disturbed' => ~Busy(d) /\ d \notin disturbed)
  BY <1>1
<1>8. ASSUME d \notin disturbed'
      PROVE  Agreed(releases, journal, jobOf, calls', d)
  <2>1. Agreed(releases, journal, jobOf, calls, d)
    BY <1>7, <1>8 DEF ApprovalInv
  <2>2. \A a \in Approvers : calls[a].job # d
    <3>1. ASSUME NEW a \in Approvers, calls[a].job = d
          PROVE  FALSE
      <4>1. CallKnown(releases, jobOf, calls[a])
        BY DEF ApprovalInv
      <4>2. calls[a].pc # "idle"
        BY <1>2, <3>1, <4>1 DEF CallKnown
      <4>3. QED
        BY <1>7, <1>8, <3>1, <4>2 DEF Busy
    <3>2. QED
      BY <3>1
  <2>3. Settled(releases, journal, d, "waiting")
    BY <1>1, <2>1, <2>2 DEF Agreed
  <2>4. UnderWay(releases, journal, d, "waiting", k)
    BY <1>4, <1>5, <2>3 DEF Settled, UnderWay
  <2>5. calls'[c] = k /\ \A a \in Approvers \ {c} : calls'[a] = calls[a]
    BY <1>1, <1>2
  <2>6. QED
    BY <1>1, <1>5, <2>2, <2>4, <2>5 DEF Agreed, OneCall
<1>9. CallKnown(releases, jobOf, k)
  BY <1>1, <1>4, <1>5 DEF CallKnown
<1>10. jobOf[d].status # "completed" /\ jobOf[d].status # "absent"
  BY <1>1
<1>11. /\ calls' = [calls EXCEPT ![c] = k] /\ jobOf' = jobOf /\ releases' = releases
       /\ journal' = journal /\ disturbed \subseteq disturbed'
  BY <1>1, <1>7
<1>12. QED
  BY <1>3, <1>5, <1>6, <1>8, <1>9, <1>10, <1>11, ApprovalCallStep

\* The artifact of an approval is registered, as the last one there is.
LEMMA RegisterStep ==
    ASSUME ApprovalInv, NEW c \in Approvers, RegisterRelease(c)
    PROVE  ApprovalInv'
<1> DEFINE d == calls[c].job
           k == [calls[c] EXCEPT !.pc = "settling run", !.artifact = Len(releases) + 1]
<1>1. /\ calls[c].pc = "registering" /\ releases' = Append(releases, d)
      /\ calls' = [calls EXCEPT ![c] = k]
      /\ jobOf' = jobOf /\ runStatus' = runStatus /\ journal' = journal
      /\ decisions' = decisions /\ breaks' = breaks /\ disturbed' = disturbed
  BY DEF RegisterRelease
<1>2. /\ d \in Deployments /\ jobOf[d].status # "absent"
      /\ d \notin disturbed =>
            /\ \A a \in Approvers \ {c} : calls[a].job # d
            /\ UnderWay(releases, journal, d, jobOf[d].status, calls[c])
  BY <1>1, AloneAt
<1>3. /\ calls \in [Approvers -> CallRecords] /\ releases \in Seq(Deployments)
      /\ CallKnown(releases, jobOf, calls[c])
  BY DEF ApprovalInv, ApprovalTypeOK, CallRecords
<1>4. /\ k \in CallRecords /\ k.pc = "settling run" /\ k.job = d
      /\ k.approved = calls[c].approved /\ k.artifact = Len(releases) + 1
  <2>1. Len(releases) + 1 \in Nat
    BY <1>3
  <2>2. QED
    BY <1>3, <2>1 DEF CallRecords
<1>5. /\ releases' \in Seq(Deployments) /\ Len(releases) + 1 \in DOMAIN releases'
      /\ releases'[Len(releases) + 1] = d
      /\ \A i \in DOMAIN releases : i \in DOMAIN releases' /\ releases'[i] = releases[i]
  BY <1>1, <1>2, <1>3
<1>6. \A x : /\ Count(releases, x) \in Nat
             /\ x = d => Count(releases', x) = Count(releases, x) + 1
             /\ x # d => Count(releases', x) = Count(releases, x)
  BY <1>1, <1>2, <1>3, CountAppend
<1> HIDE DEF k
<1>7. ApprovalTypeOK'
  BY <1>1, <1>3, <1>4, <1>5 DEF ApprovalInv, ApprovalTypeOK, CallRecords
<1>8. calls[c].approved
  BY <1>1, <1>3 DEF CallKnown
<1>9. CallKnown(releases', jobOf, k)
  <2>1. k.artifact \in DOMAIN releases' /\ releases'[k.artifact] = k.job
    BY <1>4, <1>5
  <2>2. k.job \in Deployments /\ jobOf[k.job].status # "absent"
    BY <1>2, <1>4
  <2>3. QED
    BY <1>4, <2>1, <2>2 DEF CallKnown
<1>10. ASSUME d \notin disturbed
       PROVE  Agreed(releases', journal, jobOf, calls', d)
  <2>1. UnderWay(releases, journal, d, jobOf[d].status, calls[c])
    BY <1>2, <1>10
  <2>2. jobOf[d].status = "waiting" /\ Tally(releases, journal, d, 1, 0, 0, 0)
    BY <1>1, <2>1 DEF UnderWay
  <2>3. Tally(releases', journal, d, 1, 1, 0, 0)
    BY <1>6, <2>2 DEF Tally
  <2>4. UnderWay(releases', journal, d, jobOf[d].status, k)
    BY <1>4, <1>8, <2>2, <2>3 DEF UnderWay
  <2>5. calls'[c] = k /\ \A a \in Approvers \ {c} : calls'[a] = calls[a] /\ calls[a].job # d
    BY <1>1, <1>2, <1>3, <1>10
  <2>6. QED
    BY <1>4, <2>4, <2>5 DEF Agreed, OneCall
<1>11. jobOf[d].status = "completed" =>
         jobOf[d].artifact \in DOMAIN releases' /\ releases'[jobOf[d].artifact] = d
  BY <1>2, <1>5 DEF ApprovalInv, CompletedIsReleased, ReleasesOf
<1> HIDE DEF d
<1>12. calls[c].job = d
  BY DEF d
<1>13. QED
  BY <1>1, <1>2, <1>4, <1>5, <1>6, <1>7, <1>9, <1>10, <1>11, <1>12, ApprovalCallStep

\* The record of the job is settled, with the artifact that its call has registered.
LEMMA SettleJobStep ==
    ASSUME ApprovalInv, NEW c \in Approvers, SettleJob(c)
    PROVE  ApprovalInv'
<1> DEFINE d == calls[c].job
           k == [calls[c] EXCEPT !.pc = "reporting"]
           Records == [status : {"absent", "waiting", "completed", "failed"}, artifact : Nat]
           ruling == IF calls[c].approved THEN "completed" ELSE "failed"
           new == [status |-> ruling, artifact |-> calls[c].artifact]
<1>1. /\ calls[c].pc = "settling job" /\ jobOf' = [jobOf EXCEPT ![d] = new]
      /\ calls' = [calls EXCEPT ![c] = k]
      /\ releases' = releases /\ runStatus' = runStatus /\ journal' = journal
      /\ decisions' = decisions /\ breaks' = breaks /\ disturbed' = disturbed
  BY DEF SettleJob, Verdict
<1>2. /\ d \in Deployments /\ jobOf[d].status # "absent"
      /\ d \notin disturbed =>
            /\ \A a \in Approvers \ {c} : calls[a].job # d
            /\ UnderWay(releases, journal, d, jobOf[d].status, calls[c])
  BY <1>1, AloneAt
<1>3. /\ calls \in [Approvers -> CallRecords] /\ jobOf \in [Deployments -> Records]
      /\ CallKnown(releases, jobOf, calls[c])
  BY DEF ApprovalInv, ApprovalTypeOK, CallRecords
<1>4. /\ k \in CallRecords /\ k.pc = "reporting" /\ k.job = d
      /\ k.approved = calls[c].approved /\ k.artifact = calls[c].artifact
  BY <1>3 DEF CallRecords
<1>5. /\ ruling \in {"completed", "failed"} /\ calls[c].artifact \in Nat
      /\ (ruling = "completed" <=> calls[c].approved)
  BY <1>3 DEF CallRecords
<1> HIDE DEF ruling
<1>6. new \in Records /\ new.status = ruling /\ new.artifact = calls[c].artifact
  BY <1>5
<1> HIDE DEF k, new, Records
<1>7. /\ jobOf'[d] = new /\ \A e \in Deployments \ {d} : jobOf'[e] = jobOf[e]
      /\ jobOf' \in [Deployments -> Records]
      /\ calls'[c] = k /\ \A a \in Approvers \ {c} : calls'[a] = calls[a]
  BY <1>1, <1>2, <1>3, <1>6
<1>8. ApprovalTypeOK'
  BY <1>1, <1>3, <1>4, <1>7 DEF ApprovalInv, ApprovalTypeOK, CallRecords, Records
<1>9. calls[c].approved => calls[c].artifact \in DOMAIN releases /\ releases[calls[c].artifact] = d
  BY <1>1, <1>3 DEF CallKnown
<1>10. CallKnown(releases, jobOf', k)
  BY <1>2, <1>4, <1>5, <1>6, <1>7, <1>9 DEF CallKnown
<1>11. ASSUME d \notin disturbed
       PROVE  Agreed(releases, journal, jobOf', calls', d)
  <2>1. UnderWay(releases, journal, d, jobOf[d].status, calls[c])
    BY <1>2, <1>11
  <2>2. UnderWay(releases, journal, d, new.status, k)
    BY <1>1, <1>4, <1>5, <1>6, <2>1 DEF UnderWay
  <2>3. calls'[c] = k /\ \A a \in Approvers \ {c} : calls'[a] = calls[a] /\ calls[a].job # d
    BY <1>2, <1>7, <1>11
  <2>4. QED
    BY <1>4, <1>7, <2>2, <2>3 DEF Agreed, OneCall
<1>12. new.status = "completed" => new.artifact \in DOMAIN releases /\ releases[new.artifact] = d
  BY <1>5, <1>6, <1>9
<1> HIDE DEF d
<1>13. calls[c].job = d /\ jobOf'[d].status # "absent"
  BY <1>5, <1>6, <1>7 DEF d
<1>14. QED
  BY <1>1, <1>2, <1>4, <1>7, <1>8, <1>10, <1>11, <1>12, <1>13, ApprovalCallStep

\* A call breaks off: of its deployment the story is no longer told.
LEMMA ApprovalBreaksStep ==
    ASSUME ApprovalInv, NEW c \in Approvers, BreakOff(c)
    PROVE  ApprovalInv'
<1>1. /\ calls[c].pc # "idle" /\ breaks < MaxBreaks /\ breaks' = breaks + 1
      /\ disturbed' = disturbed \cup (Deployments \cap {calls[c].job})
      /\ calls' = [calls EXCEPT ![c] = NoCall]
      /\ releases' = releases /\ runStatus' = runStatus /\ journal' = journal
      /\ jobOf' = jobOf /\ decisions' = decisions
  BY DEF BreakOff
<1>2. /\ calls \in [Approvers -> CallRecords] /\ breaks \in 0 .. MaxBreaks /\ MaxBreaks \in Nat
      /\ CallKnown(releases, jobOf, calls[c]) /\ "none" \notin Deployments
      /\ disturbed \subseteq Deployments
  BY ApprovalAssumption DEF ApprovalInv, ApprovalTypeOK, CallRecords
<1>3. ApprovalTypeOK'
  <2>1. calls' \in [Approvers -> CallRecords] /\ breaks' \in 0 .. MaxBreaks
        /\ disturbed' \subseteq Deployments
    BY <1>1, <1>2, NoCallKnown
  <2>2. QED
    BY <1>1, <2>1 DEF ApprovalInv, ApprovalTypeOK, CallRecords
<1>4. CallKnown(releases, jobOf, NoCall) /\ NoCall.job = "none"
  BY NoCallKnown
<1>5. ASSUME NEW d \in Deployments, calls[c].job \in {d, "none"}, calls[c].job = "none" \/ d \in disturbed'
      PROVE  ApprovalInv'
  <2>1. ASSUME d \notin disturbed'
        PROVE  Agreed(releases, journal, jobOf, calls', d)
    <3>1. Agreed(releases, journal, jobOf, calls, d) /\ calls[c].job = "none"
      BY <1>1, <1>5, <2>1 DEF ApprovalInv
    <3>2. \A a \in Approvers : /\ calls'[a].job = calls[a].job
                               /\ calls[a].job = d => calls'[a] = calls[a]
      BY <1>1, <1>2, <1>4, <3>1
    <3>3. QED
      BY <3>1, <3>2 DEF Agreed, OneCall
  <2>2. jobOf[d].status = "completed" =>
           jobOf[d].artifact \in DOMAIN releases /\ releases[jobOf[d].artifact] = d
    BY DEF ApprovalInv, CompletedIsReleased, ReleasesOf
  <2>3. disturbed \subseteq disturbed'
    BY <1>1
  <2>4. QED
    BY <1>1, <1>3, <1>4, <1>5, <2>1, <2>2, <2>3, ApprovalCallStep
<1>6. CASE calls[c].job \in Deployments
  BY <1>1, <1>5, <1>6
<1>7. CASE calls[c].job \notin Deployments
  <2>1. calls[c].job = "none"
    BY <1>2, <1>7 DEF CallRecords
  <2>2. CASE Deployments # {}
    BY <1>5, <2>1, <2>2
  <2>3. CASE Deployments = {}
    <3>1. \A a \in Approvers : CallKnown(releases, jobOf, calls'[a])
      BY <1>1, <1>2, <1>4 DEF ApprovalInv
    <3>2. QED
      BY <1>1, <1>3, <2>3, <3>1 DEF ApprovalInv, CompletedIsReleased
  <2>4. QED
    BY <2>2, <2>3
<1>8. QED
  BY <1>6, <1>7

\* Every step keeps the invariant.
LEMMA ApprovalStep == ApprovalInv /\ [ApprovalNext]_approvalVars => ApprovalInv'
<1>1. ASSUME ApprovalInv, UNCHANGED approvalVars
      PROVE  ApprovalInv'
  <2>1. ApprovalTypeOK' /\ CompletedIsReleased'
    BY <1>1 DEF approvalVars, ApprovalInv, ApprovalTypeOK, CompletedIsReleased, ReleasesOf
  <2>2. QED
    BY <1>1, <2>1 DEF approvalVars, ApprovalInv
<1>2. ASSUME ApprovalInv, NEW c \in Approvers, CallStep(c)
      PROVE  ApprovalInv'
  <2>1. CheckRequest(c) => ApprovalInv'
    BY <1>2, CheckRequestStep
  <2>2. EnqueueWaiting(c) => ApprovalInv'
    BY <1>2, EnqueueStep
  <2>3. PauseRun(c) \/ SettleRun(c) => ApprovalInv'
    BY <1>2, RunStatusStep
  <2>4. AnnounceRequest(c) => ApprovalInv'
    BY <1>2, ReportsStep DEF AnnounceRequest
  <2>5. ASSUME NEW d \in Deployments, NEW approved \in BOOLEAN, ReadDecidable(c, d, approved)
        PROVE  ApprovalInv'
    BY <1>2, <2>5, DecidesStep
  <2>6. RegisterRelease(c) => ApprovalInv'
    BY <1>2, RegisterStep
  <2>7. SettleJob(c) => ApprovalInv'
    BY <1>2, SettleJobStep
  <2>8. ReportDecision(c) => ApprovalInv'
    <3>1. Verdict(c) \in {"requested", "completed", "failed"}
      BY DEF Verdict
    <3>2. QED
      BY <1>2, <3>1, ReportsStep DEF ReportDecision, Verdict
  <2>9. BreakOff(c) => ApprovalInv'
    BY <1>2, ApprovalBreaksStep
  <2>10. QED
    BY <1>2, <2>1, <2>2, <2>3, <2>4, <2>5, <2>6, <2>7, <2>8, <2>9 DEF CallStep
<1>3. QED
  BY <1>1, <1>2 DEF ApprovalNext

\* Nothing has been requested yet.
LEMMA ApprovalBegins == ApprovalInit => ApprovalInv
<1>1. SUFFICES ASSUME ApprovalInit
               PROVE  ApprovalInv
  OBVIOUS
<1>2. /\ calls = [c \in Approvers |-> NoCall] /\ releases = <<>> /\ journal = <<>>
      /\ jobOf = [d \in Deployments |-> [status |-> "absent", artifact |-> NoArtifact]]
      /\ "none" \notin Deployments /\ MaxDecisions \in Nat /\ MaxBreaks \in Nat
  BY <1>1, ApprovalAssumption DEF ApprovalInit
<1>3. /\ \A a \in Approvers : calls[a] = NoCall
      /\ \A d \in Deployments : jobOf[d].status = "absent"
  BY <1>2
<1>4. ApprovalTypeOK
  <2>1. /\ jobOf \in [Deployments -> [status : {"absent", "waiting", "completed", "failed"},
                                      artifact : Nat]]
        /\ calls \in [Approvers -> CallRecords]
    BY <1>2, NoCallKnown DEF NoArtifact
  <2>2. /\ releases \in Seq(Deployments)
        /\ journal \in Seq(Deployments \X {"requested", "completed", "failed"})
    BY <1>2
  <2>3. /\ runStatus \in {"pending", "running", "waiting", "completed", "failed"}
        /\ decisions \in 0 .. MaxDecisions /\ breaks \in 0 .. MaxBreaks
        /\ disturbed \subseteq Deployments
    BY <1>1, <1>2 DEF ApprovalInit
  <2>4. QED
    BY <2>1, <2>2, <2>3 DEF ApprovalTypeOK, CallRecords
<1>5. \A a \in Approvers : CallKnown(releases, jobOf, calls[a]) /\ calls[a].job = "none"
  BY <1>3, NoCallKnown
<1>6. CompletedIsReleased
  BY <1>3 DEF CompletedIsReleased
<1>7. \A d : Tally(<<>>, <<>>, d, 0, 0, 0, 0)
  BY CountEmpty DEF Tally
<1>8. \A d \in Deployments : Agreed(releases, journal, jobOf, calls, d)
  BY <1>2, <1>3, <1>5, <1>7 DEF Agreed, OneCall, Settled
<1>9. QED
  BY <1>4, <1>5, <1>6, <1>8 DEF ApprovalInv

\* The approvals stay of their types, whatever overlaps and breaks off.
THEOREM ApprovalTypes == ApprovalSpec => []ApprovalTypeOK
<1>1. ApprovalInv => ApprovalTypeOK
  BY DEF ApprovalInv
<1>2. QED
  BY <1>1, ApprovalBegins, ApprovalStep, PTL DEF ApprovalSpec

\* A completed deployment names an artifact registered for it, whatever decisions overlapped
\* and wherever calls broke off; and one that was never disturbed was requested once, decided at
\* most once, and has an artifact exactly if it was approved.
THEOREM ApprovalRecordsAgree == ApprovalSpec => []RecordsAgree
<1>1. ASSUME ApprovalInv
      PROVE  RecordsAgree
  <2>1. ASSUME NEW d \in Deployments, d \notin disturbed, ~Busy(d)
        PROVE  Settled(releases, journal, d, jobOf[d].status)
    <3>1. \A a \in Approvers : calls[a].job # d
      <4>1. ASSUME NEW a \in Approvers, calls[a].job = d
            PROVE  FALSE
        <5>1. CallKnown(releases, jobOf, calls[a]) /\ "none" \notin Deployments
          BY <1>1, ApprovalAssumption DEF ApprovalInv
        <5>2. calls[a].pc # "idle"
          BY <4>1, <5>1 DEF CallKnown
        <5>3. QED
          BY <2>1, <4>1, <5>2 DEF Busy
      <4>2. QED
        BY <4>1
    <3>2. QED
      BY <1>1, <2>1, <3>1 DEF ApprovalInv, Agreed
  <2>2. ASSUME NEW d \in Deployments
        PROVE  /\ Cardinality(ReleasesOf(d)) = Count(releases, d)
               /\ \A what : Cardinality(EventsOf(d, what)) = Count(journal, <<d, what>>)
    BY DEF ReleasesOf, EventsOf, Count
  <2>3. ASSUME NEW d \in Deployments, d \notin disturbed, ~Busy(d)
        PROVE  LET s == jobOf[d].status
               IN  /\ Cardinality(EventsOf(d, "requested")) = IF s = "absent" THEN 0 ELSE 1
                   /\ Cardinality(ReleasesOf(d)) = IF s = "completed" THEN 1 ELSE 0
                   /\ \A what \in {"completed", "failed"} :
                         Cardinality(EventsOf(d, what)) = IF s = what THEN 1 ELSE 0
    <3>1. jobOf[d].status \in {"absent", "waiting", "completed", "failed"}
      BY <1>1 DEF ApprovalInv, ApprovalTypeOK
    <3>2. Settled(releases, journal, d, jobOf[d].status)
      BY <2>1, <2>3
    <3>3. CASE jobOf[d].status = "absent"
      BY <2>2, <3>2, <3>3 DEF Settled, Tally
    <3>4. CASE jobOf[d].status = "waiting"
      BY <2>2, <3>2, <3>4 DEF Settled, Tally
    <3>5. CASE jobOf[d].status = "completed"
      BY <2>2, <3>2, <3>5 DEF Settled, Tally
    <3>6. CASE jobOf[d].status = "failed"
      BY <2>2, <3>2, <3>6 DEF Settled, Tally
    <3>7. QED
      BY <3>1, <3>3, <3>4, <3>5, <3>6
  <2>4. QED
    BY <1>1, <2>3 DEF ApprovalInv, RecordsAgree
<1>2. ApprovalInv => RecordsAgree
  BY <1>1
<1>3. QED
  BY <1>2, ApprovalBegins, ApprovalStep, PTL DEF ApprovalSpec

-----------------------------------------------------------------------------
(* The review of cases.  What a reviewer read of a case still stands when  *)
(* nobody else was at it, and what it repeats was decided once.  The       *)
(* operators of CaseReviews, of any sequence u of updates:                 *)

HistoryIn(u, row) == {i \in DOMAIN u : u[i].row = row}
AskedIn(u, row) == {i \in HistoryIn(u, row) : u[i].asked # Unasked}
StatusIn(u, row) == IF HistoryIn(u, row) = {} THEN "new" ELSE u[Latest(HistoryIn(u, row))].status
LastAskedIn(u, row) == IF AskedIn(u, row) = {} THEN "new" ELSE u[Latest(AskedIn(u, row))].asked

Statuses == Dispositions \cup {"new", "investigating"}
Asked == Dispositions \cup {"investigating", Unasked}
Updates == [row : Rows, asked : Asked, alone : BOOLEAN, status : Statuses, rationale : BOOLEAN]
Reading == [pc : {"read"}, row : Rows, request : [status : Asked, rationale : BOOLEAN],
            current : Statuses, alone : BOOLEAN]

\* A disposition that stands as a status was asked for, with a rationale.
Justified(u, row, status) ==
    status \in Dispositions =>
        \E i \in HistoryIn(u, row) : u[i].asked = status /\ u[i].rationale

\* Updates that did not overlap leave the status that was asked for last.
Decided(u, row) ==
    (\A i \in HistoryIn(u, row) : u[i].alone) => StatusIn(u, row) = LastAskedIn(u, row)

\* What reviewer r is at, among all reviewers.
ReviewKnown(u, all, r) ==
    all[r].pc = "read" =>
        /\ Admissible(all[r].request)
        /\ Justified(u, all[r].row, all[r].current)
        /\ all[r].alone =>
              /\ all[r].current = StatusIn(u, all[r].row)
              /\ \A q \in Reviewers \ {r} : ~(all[q].pc = "read" /\ all[q].row = all[r].row)

CaseInv ==
    /\ anomalies \in SUBSET Rows
    /\ updates \in Seq(Updates)
    /\ reviews \in [Reviewers -> Reading \cup {NoReview}]
    /\ \A row \in Rows : Justified(updates, row, StatusIn(updates, row)) /\ Decided(updates, row)
    /\ \A r \in Reviewers : ReviewKnown(updates, reviews, r)

\* The operators of the module are those of its updates.
LEMMA CaseOperators ==
    \A row : /\ History(row) = HistoryIn(updates, row)
             /\ Status(row) = StatusIn(updates, row)
             /\ LastAsked(row) = LastAskedIn(updates, row)
BY DEF History, HistoryIn, AskedIn, Status, StatusIn, LastAsked, LastAskedIn

\* Every set of numbers that is not empty has a least one.
LEMMA LeastNumber ==
    ASSUME NEW T, T \subseteq Nat, T # {}
    PROVE  \E i \in T : \A k \in T : i <= k
<1> DEFINE R == {ss \in Nat \X Nat : ss[1] < ss[2]}
<1>1. IsWellFoundedOn(R, Nat)
  BY NatLessThanWellFounded DEF OpToRel
<1>2. PICK i \in T : \A k \in T : <<k, i>> \notin R
  BY <1>1, WFMin
<1>3. ASSUME NEW k \in T
      PROVE  i <= k
  <2>1. i \in Nat /\ k \in Nat /\ ~(k < i)
    BY <1>2
  <2>2. QED
    BY <2>1
<1>4. QED
  BY <1>3

\* And one that is bounded a greatest, which is the latest of a history.
LEMMA LatestIs ==
    ASSUME NEW n \in Nat, NEW S, S \subseteq 1 .. n, S # {}
    PROVE  Latest(S) \in S /\ \A k \in S : k <= Latest(S)
<1> DEFINE T == {n - k : k \in S}
<1>1. T \subseteq Nat /\ T # {}
  <2>1. \A k \in S : k \in Nat /\ k <= n
    OBVIOUS
  <2>2. \A k \in S : n - k \in Nat
    BY <2>1
  <2>3. QED
    BY <2>2
<1>2. PICK m \in T : \A t \in T : m <= t
  BY <1>1, LeastNumber
<1>3. PICK i \in S : m = n - i
  BY <1>2
<1>4. ASSUME NEW k \in S
      PROVE  k <= i
  <2>1. n - k \in T /\ i \in Nat /\ k \in Nat
    OBVIOUS
  <2>2. n - i <= n - k
    BY <1>2, <1>3, <2>1
  <2>3. QED
    BY <2>1, <2>2
<1>5. QED
  BY <1>3, <1>4 DEF Latest

\* An update is the latest of its case.
LEMMA LatestIsLast ==
    ASSUME NEW n \in Nat, NEW S, S \subseteq 1 .. n
    PROVE  Latest(S \cup {n + 1}) = n + 1
<1> DEFINE U == S \cup {n + 1}
<1>1. U \subseteq 1 .. (n + 1) /\ U # {} /\ n + 1 \in Nat /\ n + 1 \in U
  OBVIOUS
<1> HIDE DEF U
<1>2. Latest(U) \in U /\ \A k \in U : k <= Latest(U)
  BY <1>1, LatestIs
<1>3. Latest(U) \in 1 .. (n + 1) /\ n + 1 <= Latest(U)
  BY <1>1, <1>2
<1>4. ASSUME NEW i \in 1 .. (n + 1), n + 1 <= i
      PROVE  i = n + 1
  BY <1>1, <1>4
<1>5. QED
  BY <1>3, <1>4 DEF U

\* An update of one case leaves the others as they are,
LEMMA OtherCases ==
    ASSUME NEW u \in Seq(Updates), NEW x \in Updates, NEW row \in Rows, x.row # row
    PROVE  /\ HistoryIn(Append(u, x), row) = HistoryIn(u, row)
           /\ StatusIn(Append(u, x), row) = StatusIn(u, row)
           /\ Decided(u, row) => Decided(Append(u, x), row)
           /\ \A status : Justified(u, row, status) => Justified(Append(u, x), row, status)
<1> DEFINE v == Append(u, x)
<1>1. /\ DOMAIN u = 1 .. Len(u) /\ Len(u) \in Nat
      /\ DOMAIN v = 1 .. (Len(u) + 1) /\ v[Len(u) + 1] = x
      /\ \A i \in 1 .. Len(u) : v[i] = u[i]
  OBVIOUS
<1> HIDE DEF v
<1>2. HistoryIn(v, row) = HistoryIn(u, row) /\ HistoryIn(u, row) \subseteq 1 .. Len(u)
  BY <1>1 DEF HistoryIn
<1>3. AskedIn(v, row) = AskedIn(u, row) /\ AskedIn(u, row) \subseteq 1 .. Len(u)
  BY <1>1, <1>2 DEF AskedIn
<1>4. StatusIn(v, row) = StatusIn(u, row)
  BY <1>1, <1>2, LatestIs DEF StatusIn
<1>5. LastAskedIn(v, row) = LastAskedIn(u, row)
  BY <1>1, <1>3, LatestIs DEF LastAskedIn
<1>6. Decided(u, row) => Decided(v, row)
  BY <1>1, <1>2, <1>4, <1>5 DEF Decided
<1>7. \A status : Justified(u, row, status) => Justified(v, row, status)
  BY <1>1, <1>2 DEF Justified
<1>8. QED
  BY <1>2, <1>4, <1>6, <1>7 DEF v

\* and of its own it says what it was asked, or repeats what it has read.
LEMMA OwnCase ==
    ASSUME NEW u \in Seq(Updates), NEW x \in Updates, NEW current,
           x.status = Kept(x.asked, current),
           x.asked \in Dispositions => x.rationale,
           Justified(u, x.row, current),
           x.alone => current = StatusIn(u, x.row),
           Decided(u, x.row)
    PROVE  /\ StatusIn(Append(u, x), x.row) = x.status
           /\ Justified(Append(u, x), x.row, x.status)
           /\ Decided(Append(u, x), x.row)
           /\ \A status : Justified(u, x.row, status) => Justified(Append(u, x), x.row, status)
<1> DEFINE v == Append(u, x)
           row == x.row
           n == Len(u)
<1>1. /\ DOMAIN u = 1 .. n /\ n \in Nat
      /\ DOMAIN v = 1 .. (n + 1) /\ v[n + 1] = x
      /\ \A i \in 1 .. n : v[i] = u[i]
  OBVIOUS
<1> HIDE DEF v, n
<1>2. HistoryIn(v, row) = HistoryIn(u, row) \cup {n + 1} /\ HistoryIn(u, row) \subseteq 1 .. n
  BY <1>1 DEF HistoryIn
<1>3. Latest(HistoryIn(v, row)) = n + 1
  BY <1>1, <1>2, LatestIsLast
<1>4. StatusIn(v, row) = x.status
  BY <1>1, <1>2, <1>3 DEF StatusIn
<1>5. \A status : Justified(u, row, status) => Justified(v, row, status)
  BY <1>1, <1>2 DEF Justified
<1>6. Justified(v, row, x.status)
  <2>1. CASE x.asked = Unasked
    BY <1>5, <2>1 DEF Kept
  <2>2. CASE x.asked # Unasked
    BY <1>1, <1>2, <2>2 DEF Kept, Justified
  <2>3. QED
    BY <2>1, <2>2
<1>7. ASSUME \A i \in HistoryIn(v, row) : v[i].alone
      PROVE  StatusIn(v, row) = LastAskedIn(v, row)
  <2>1. x.alone /\ \A i \in HistoryIn(u, row) : u[i].alone
    BY <1>1, <1>2, <1>7
  <2>2. StatusIn(u, row) = LastAskedIn(u, row) /\ current = StatusIn(u, row)
    BY <2>1 DEF Decided
  <2>3. AskedIn(u, row) \subseteq 1 .. n
    BY <1>2 DEF AskedIn
  <2>4. CASE x.asked = Unasked
    <3>1. AskedIn(v, row) = AskedIn(u, row)
      BY <1>1, <1>2, <2>4 DEF AskedIn
    <3>2. LastAskedIn(v, row) = LastAskedIn(u, row)
      BY <1>1, <2>3, <3>1, LatestIs DEF LastAskedIn
    <3>3. QED
      BY <1>4, <2>2, <2>4, <3>2 DEF Kept
  <2>5. CASE x.asked # Unasked
    <3>1. AskedIn(v, row) = AskedIn(u, row) \cup {n + 1}
      BY <1>1, <1>2, <2>5 DEF AskedIn
    <3>2. Latest(AskedIn(v, row)) = n + 1
      BY <1>1, <2>3, <3>1, LatestIsLast
    <3>3. LastAskedIn(v, row) = x.asked
      BY <1>1, <3>1, <3>2 DEF LastAskedIn
    <3>4. QED
      BY <1>4, <2>5, <3>3 DEF Kept
  <2>6. QED
    BY <2>4, <2>5
<1>8. QED
  BY <1>4, <1>5, <1>6, <1>7 DEF v, Decided

\* A case is read: what it says is its last update.
LEMMA ReadCaseStep ==
    ASSUME CaseInv, NEW r \in Reviewers, NEW row \in Rows, NEW request \in ReviewRequests,
           ReadCase(r, row, request)
    PROVE  CaseInv'
<1> DEFINE alone == ~Overlapped(r, row)
           new == [pc |-> "read", row |-> row, request |-> request,
                   current |-> StatusIn(updates, row), alone |-> alone]
<1>1. /\ Admissible(request) /\ anomalies' = anomalies /\ updates' = updates
      /\ reviews' = [q \in Reviewers |->
            IF q = r THEN new
            ELSE IF reviews[q].pc = "read" /\ reviews[q].row = row
            THEN [reviews[q] EXCEPT !.alone = FALSE]
            ELSE reviews[q]]
  BY CaseOperators DEF ReadCase
<1>2. /\ updates \in Seq(Updates) /\ reviews \in [Reviewers -> Reading \cup {NoReview}]
      /\ Justified(updates, row, StatusIn(updates, row))
      /\ NoReview.pc # "read"
  BY DEF CaseInv, NoReview
<1>3. StatusIn(updates, row) \in Statuses
  <2>1. HistoryIn(updates, row) \subseteq 1 .. Len(updates) /\ Len(updates) \in Nat
    BY <1>2 DEF HistoryIn
  <2>2. HistoryIn(updates, row) # {} =>
           Latest(HistoryIn(updates, row)) \in HistoryIn(updates, row)
    BY <2>1, LatestIs
  <2>3. \A i \in 1 .. Len(updates) : updates[i].status \in Statuses
    <3>1. \A i \in 1 .. Len(updates) : updates[i] \in Updates
      BY <1>2
    <3>2. QED
      BY <3>1 DEF Updates
  <2>4. QED
    BY <2>1, <2>2, <2>3 DEF StatusIn, Statuses
<1>4. alone \in BOOLEAN
      /\ (alone => \A q \in Reviewers \ {r} : ~(reviews[q].pc = "read" /\ reviews[q].row = row))
  BY DEF Overlapped
<1> HIDE DEF alone
<1>5. /\ new \in Reading /\ new.pc = "read" /\ new.row = row /\ new.request = request
      /\ new.current = StatusIn(updates, row) /\ new.alone = alone
  BY <1>3, <1>4 DEF Reading, ReviewRequests, Asked
<1> HIDE DEF new
<1>6. reviews'[r] = new
  BY <1>1
<1>7. ASSUME NEW q \in Reviewers \ {r}
      PROVE  /\ reviews'[q] \in Reading \cup {NoReview}
             /\ reviews'[q].pc = reviews[q].pc
             /\ reviews[q].pc = "read" =>
                  /\ reviews'[q].row = reviews[q].row
                  /\ reviews'[q].request = reviews[q].request
                  /\ reviews'[q].current = reviews[q].current
                  /\ reviews'[q].alone => reviews[q].alone /\ reviews[q].row # row
  <2>1. CASE reviews[q].pc = "read" /\ reviews[q].row = row
    <3>1. reviews[q] \in Reading /\ reviews'[q] = [reviews[q] EXCEPT !.alone = FALSE]
      BY <1>1, <1>2, <2>1
    <3>2. QED
      BY <3>1 DEF Reading
  <2>2. CASE ~(reviews[q].pc = "read" /\ reviews[q].row = row)
    <3>1. reviews'[q] = reviews[q]
      BY <1>1, <2>2
    <3>2. QED
      BY <1>2, <2>2, <3>1
  <2>3. QED
    BY <2>1, <2>2
<1>8. reviews' \in [Reviewers -> Reading \cup {NoReview}]
  <2>1. \A q \in Reviewers : reviews'[q] \in Reading \cup {NoReview}
    BY <1>5, <1>6, <1>7
  <2>2. QED
    BY <1>1, <2>1
<1>9. ReviewKnown(updates, reviews', r)
  <2>1. alone => \A q \in Reviewers \ {r} : ~(reviews'[q].pc = "read" /\ reviews'[q].row = row)
    BY <1>4, <1>7
  <2>2. QED
    BY <1>1, <1>2, <1>5, <1>6, <2>1 DEF ReviewKnown
<1>10. ASSUME NEW q \in Reviewers \ {r}
       PROVE  ReviewKnown(updates, reviews', q)
  <2>1. ReviewKnown(updates, reviews, q)
    BY DEF CaseInv
  <2>2. ASSUME reviews'[q].pc = "read", reviews'[q].alone, NEW p \in Reviewers \ {q},
               reviews'[p].pc = "read", reviews'[p].row = reviews'[q].row
        PROVE  FALSE
    <3>1. CASE p = r
      BY <1>5, <1>6, <1>7, <2>2, <3>1
    <3>2. CASE p # r
      <4>1. reviews[q].pc = "read" /\ reviews[q].alone /\ reviews[p].pc = "read"
            /\ reviews[p].row = reviews[q].row
        BY <1>7, <2>2, <3>2
      <4>2. QED
        BY <2>1, <4>1 DEF ReviewKnown
    <3>3. QED
      BY <3>1, <3>2
  <2>3. QED
    BY <1>7, <2>1, <2>2 DEF ReviewKnown
<1>11. \A q \in Reviewers : ReviewKnown(updates, reviews', q)
  BY <1>9, <1>10
<1>12. QED
  BY <1>1, <1>8, <1>11 DEF CaseInv

\* An update is written: only one whose reviewer was alone counts as such.
LEMMA WriteUpdateStep ==
    ASSUME CaseInv, NEW r \in Reviewers, WriteUpdate(r)
    PROVE  CaseInv'
<1> DEFINE c == reviews[r]
           x == [row |-> c.row, asked |-> c.request.status, alone |-> c.alone,
                 status |-> Kept(c.request.status, c.current), rationale |-> c.request.rationale]
           v == Append(updates, x)
<1>1. /\ c.pc = "read" /\ updates' = v /\ reviews' = [reviews EXCEPT ![r] = NoReview]
      /\ anomalies' = anomalies
  BY DEF WriteUpdate
<1>2. /\ updates \in Seq(Updates) /\ reviews \in [Reviewers -> Reading \cup {NoReview}]
      /\ NoReview.pc # "read"
      /\ ReviewKnown(updates, reviews, r)
  BY DEF CaseInv, NoReview
<1>3. c \in Reading /\ c.row \in Rows
  BY <1>1, <1>2 DEF Reading
<1>4. /\ Admissible(c.request) /\ Justified(updates, c.row, c.current)
      /\ c.alone => /\ c.current = StatusIn(updates, c.row)
                    /\ \A q \in Reviewers \ {r} : ~(reviews[q].pc = "read" /\ reviews[q].row = c.row)
      /\ Decided(updates, c.row)
  BY <1>1, <1>2, <1>3 DEF ReviewKnown, CaseInv
<1>5. /\ x \in Updates /\ x.row = c.row /\ x.asked = c.request.status
      /\ x.status = Kept(x.asked, c.current) /\ (x.alone <=> c.alone)
      /\ x.rationale = c.request.rationale
  <2>1. c.request.status \in Asked /\ c.request.rationale \in BOOLEAN /\ c.current \in Statuses
        /\ c.alone \in BOOLEAN
    BY <1>3 DEF Reading
  <2>2. Kept(c.request.status, c.current) \in Statuses
    BY <2>1 DEF Kept, Asked, Statuses
  <2>3. QED
    BY <1>3, <2>1, <2>2 DEF Updates
<1>6. x.asked \in Dispositions => x.rationale
  BY <1>4, <1>5 DEF Admissible
<1> HIDE DEF x, c, v
<1>7. v \in Seq(Updates)
  BY <1>2, <1>5 DEF v
<1>8. /\ StatusIn(v, x.row) = x.status /\ Justified(v, x.row, x.status) /\ Decided(v, x.row)
      /\ \A status : Justified(updates, x.row, status) => Justified(v, x.row, status)
  BY <1>2, <1>4, <1>5, <1>6, OwnCase DEF v
<1>9. ASSUME NEW row \in Rows, row # x.row
      PROVE  /\ StatusIn(v, row) = StatusIn(updates, row)
             /\ Decided(updates, row) => Decided(v, row)
             /\ \A status : Justified(updates, row, status) => Justified(v, row, status)
  BY <1>2, <1>5, <1>9, OtherCases DEF v
<1>10. ASSUME NEW row \in Rows
       PROVE  Justified(v, row, StatusIn(v, row)) /\ Decided(v, row)
  <2>1. CASE row = x.row
    BY <1>8, <2>1
  <2>2. CASE row # x.row
    BY <1>9, <2>2 DEF CaseInv
  <2>3. QED
    BY <2>1, <2>2
<1>11. /\ reviews' \in [Reviewers -> Reading \cup {NoReview}]
       /\ reviews'[r] = NoReview /\ \A q \in Reviewers \ {r} : reviews'[q] = reviews[q]
  BY <1>1, <1>2
<1>12. ASSUME NEW q \in Reviewers
       PROVE  ReviewKnown(v, reviews', q)
  <2>1. CASE q = r
    BY <1>2, <1>11, <2>1 DEF ReviewKnown
  <2>2. CASE q # r /\ reviews[q].pc = "read"
    <3>1. ReviewKnown(updates, reviews, q) /\ reviews'[q] = reviews[q]
          /\ reviews[q].row \in Rows
      BY <1>2, <1>11, <2>2 DEF CaseInv, Reading
    <3>2. Justified(v, reviews[q].row, reviews[q].current)
      BY <1>8, <1>9, <2>2, <3>1 DEF ReviewKnown
    <3>3. reviews[q].alone => reviews[q].row # x.row
      BY <1>1, <1>5, <2>2, <3>1 DEF ReviewKnown, c
    <3>4. ASSUME NEW p \in Reviewers, reviews'[p].pc = "read"
          PROVE  reviews[p] = reviews'[p]
      BY <1>2, <1>11, <3>4
    <3>5. QED
      BY <1>9, <3>1, <3>2, <3>3, <3>4 DEF ReviewKnown
  <2>3. CASE q # r /\ reviews[q].pc # "read"
    BY <1>11, <2>3 DEF ReviewKnown
  <2>4. QED
    BY <2>1, <2>2, <2>3
<1>13. QED
  BY <1>1, <1>7, <1>10, <1>11, <1>12 DEF CaseInv

\* Every step keeps the invariant.
LEMMA CaseStep == CaseInv /\ [CasesNext]_caseVars => CaseInv'
<1>1. CaseInv /\ UNCHANGED caseVars => CaseInv'
  BY DEF caseVars, CaseInv
<1>2. ASSUME CaseInv, NEW r \in Reviewers, NEW row \in Rows, NEW request \in ReviewRequests,
             ReadCase(r, row, request)
      PROVE  CaseInv'
  BY <1>2, ReadCaseStep
<1>3. ASSUME CaseInv, NEW r \in Reviewers, WriteUpdate(r)
      PROVE  CaseInv'
  BY <1>3, WriteUpdateStep
<1>4. CaseInv /\ AnalyzeAgain => CaseInv'
  BY DEF CaseInv, AnalyzeAgain
<1>5. QED
  BY <1>1, <1>2, <1>3, <1>4 DEF CasesNext

\* No case has been updated yet.
LEMMA CasesBegin == CasesInit => CaseInv
<1>1. SUFFICES ASSUME CasesInit
               PROVE  CaseInv
  OBVIOUS
<1>2. anomalies = {} /\ updates = <<>> /\ reviews = [r \in Reviewers |-> NoReview]
  BY <1>1 DEF CasesInit
<1>3. \A row : HistoryIn(<<>>, row) = {} /\ AskedIn(<<>>, row) = {}
  BY DEF HistoryIn, AskedIn
<1>4. \A row : Justified(<<>>, row, StatusIn(<<>>, row)) /\ Decided(<<>>, row)
  BY <1>3 DEF StatusIn, LastAskedIn, Justified, Decided, Dispositions
<1>5. \A r \in Reviewers : ReviewKnown(<<>>, reviews, r)
  BY <1>2 DEF ReviewKnown, NoReview
<1>6. QED
  BY <1>2, <1>4, <1>5 DEF CaseInv

\* A confirmed or dismissed case has a rationale on file, however reviewers overlap, repeat and
\* analyse again; and updates that did not overlap leave the status asked for last.
THEOREM CasesStayDecided == CasesSpec => []CasesAsDecided
<1>1. CaseInv => CasesAsDecided
  BY CaseOperators DEF CaseInv, CasesAsDecided, Justified, Decided
<1>2. QED
  BY <1>1, CasesBegin, CaseStep, PTL DEF CasesSpec

-----------------------------------------------------------------------------
(* The caches of stored files.                                             *)

CacheNames == [cached : Files \cup {0}, temporary : Files \cup {0}]
Versions == 1 .. MaxVersions
Downloads == [pc : {"idle", "reading"} \cup Working, payload : Versions \cup {0},
              file : Files \cup {0}, since : Versions \cup {0}]
Witnesses == [overlap : BOOLEAN, read : SUBSET (0 .. Mixed), stale : BOOLEAN, deaths : Nat]

CacheTypeOK ==
    /\ kind \in {"url", "object"} /\ source \in Versions
    /\ names \in CacheNames /\ data \in [Files -> 0 .. Mixed]
    /\ downloads \in [Openers -> Downloads] /\ witness \in Witnesses

\* What a process d has, whoever else is at work: a handle while the file is open, a payload
\* from when it was fetched, and a name to read when it reads; k is the kind of the cache.
Equipped(k, n, d) ==
    /\ d.pc = "opened" <=> d.file # 0
    /\ d.pc \in {"fetched", "opened", "written"} => d.payload # 0
    /\ d.pc = "reading" \/ (k = "object" /\ d.pc \in {"opened", "written"}) => n.cached # 0

\* A cache of addresses in which no downloads overlapped: until a file is cached one process
\* is at work, and behind the temporary name; from then on none, and all read that file.
SoloUrl(n, disk, all, w) ==
    /\ \A p, q \in Openers : all[p].pc \in Working /\ all[q].pc \in Working => p = q
    /\ n.cached # 0 =>
          /\ \A p \in Openers : all[p].pc \notin Working
          /\ disk[n.cached] \in Versions
          /\ w.read \subseteq {disk[n.cached]}
    /\ n.cached = 0 => w.read = {}
    /\ \A p \in Openers :
          /\ all[p].pc = "opened" => n.temporary = all[p].file /\ disk[all[p].file] = Torn
          /\ all[p].pc = "written" => n.temporary # 0 /\ disk[n.temporary] = all[p].payload

\* A cache of objects whose callers did not overlap: what the one that is at work has written
\* is what it fetched, after its call began.
SoloObject(n, disk, all, w, s) ==
    /\ \A p, q \in Openers : all[p].pc # "idle" /\ all[q].pc # "idle" => p = q
    /\ w.read \subseteq Versions /\ ~w.stale
    /\ \A p \in Openers :
          /\ all[p].pc # "idle" => all[p].since \in Versions /\ all[p].since <= s
          /\ all[p].pc \notin {"idle", "checked"} => all[p].payload >= all[p].since
          /\ all[p].pc = "opened" => n.cached = all[p].file /\ disk[all[p].file] = Torn
          /\ all[p].pc \in {"written", "reading"} => disk[n.cached] = all[p].payload

CacheInv ==
    /\ CacheTypeOK
    /\ \A p \in Openers : Equipped(kind, names, downloads[p])
    /\ kind = "url" /\ ~witness.overlap => SoloUrl(names, data, downloads, witness)
    /\ kind = "object" /\ ~witness.overlap => SoloObject(names, data, downloads, witness, source)

\* There is always a file that no name and no handle points to when a name is free: the disk
\* of the model has two more than there are processes.
LEMMA UnusedIsAFile ==
    ASSUME CacheTypeOK, names.cached = 0 \/ names.temporary = 0
    PROVE  Unused \in Files
<1> DEFINE handle == [p \in Openers |-> downloads[p].file]
           held == {handle[p] : p \in Openers}
           other == IF names.cached = 0 THEN names.temporary ELSE names.cached
<1>1. IsFiniteSet(Openers) /\ Cardinality(Openers) \in Nat
  BY CacheAssumption, FS_CardinalityType
<1>2. IsFiniteSet(held) /\ Cardinality(held) <= Cardinality(Openers) /\ Cardinality(held) \in Nat
  <2>1. handle \in Surjection(Openers, held)
    BY DEF Surjection
  <2> HIDE DEF held, handle
  <2>2. IsFiniteSet(held) /\ Cardinality(held) <= Cardinality(Openers)
    BY <1>1, <2>1, FS_Surjection
  <2>3. QED
    BY <2>2, FS_CardinalityType
<1>3. /\ IsFiniteSet(held \cup {other})
      /\ Cardinality(held \cup {other}) \in Nat
      /\ Cardinality(held \cup {other}) <= Cardinality(Openers) + 1
  <2>1. /\ IsFiniteSet(held \cup {other})
        /\ \/ Cardinality(held \cup {other}) = Cardinality(held)
           \/ Cardinality(held \cup {other}) = Cardinality(held) + 1
    BY <1>2, FS_AddElement
  <2>2. Cardinality(held \cup {other}) \in Nat
    BY <2>1, FS_CardinalityType
  <2> HIDE DEF held, other
  <2>3. QED
    BY <1>1, <1>2, <2>1, <2>2
<1>4. IsFiniteSet(Files) /\ Cardinality(Files) = Cardinality(Openers) + 2
  <2>1. 1 \in Int /\ Cardinality(Openers) + 2 \in Int /\ 1 <= Cardinality(Openers) + 2
    BY <1>1
  <2>2. Cardinality(Files) = (Cardinality(Openers) + 2) - 1 + 1 /\ IsFiniteSet(Files)
    BY <2>1, FS_Interval DEF Files
  <2>3. QED
    BY <1>1, <2>2
<1>5. ~(Files \subseteq held \cup {other})
  <2>1. SUFFICES ASSUME Files \subseteq held \cup {other}
                 PROVE  FALSE
    OBVIOUS
  <2>2. Cardinality(Files) <= Cardinality(held \cup {other})
    BY <1>3, <2>1, FS_Subset
  <2> HIDE DEF held, other
  <2>3. QED
    BY <1>1, <1>3, <1>4, <2>2
<1>6. PICK f \in Files : f \notin held \cup {other}
  BY <1>5
<1>7. f # 0
  BY <1>1, <1>6 DEF Files
<1>8. ~InUse(f)
  BY <1>6, <1>7 DEF InUse
<1>9. QED
  BY <1>6, <1>8 DEF Unused

\* A step of one process leaves the others where they are.
LEMMA OneProceeds ==
    ASSUME downloads \in [Openers -> Downloads], NEW p \in Openers, NEW d \in Downloads,
           Proceed(p, d)
    PROVE  /\ downloads' \in [Openers -> Downloads]
           /\ downloads'[p] = d
           /\ \A q \in Openers \ {p} : downloads'[q] = downloads[q]
BY DEF Proceed

\* No process is the neutral entry's equal while it is at work.
LEMMA NobodyIsIdle ==
    /\ NoDownload \in Downloads
    /\ \A k, n : Equipped(k, n, NoDownload)
    /\ NoDownload.pc = "idle"
BY DEF NoDownload, Downloads, Equipped

\* Asking for the path: a URL that is cached is not downloaded, and whoever finds another at
\* work on the address has overlapped with it.
LEMMA LocalPathKeeps ==
    ASSUME CacheInv, NEW p \in Openers, LocalPath(p)
    PROVE  CacheInv'
<1> DEFINE d == [NoDownload EXCEPT !.pc = IF Hit THEN "reading" ELSE "checked", !.since = source]
           w == [witness EXCEPT !.overlap = @ \/ (~Hit /\ Overlapping(p))]
<1>1. CacheTypeOK /\ downloads[p].pc = "idle"
  BY DEF CacheInv, LocalPath, Reached
<1>2. d.pc = (IF Hit THEN "reading" ELSE "checked") /\ d.file = 0 /\ d.since = source
  BY DEF NoDownload
<1>3. d \in Downloads
  BY <1>1 DEF NoDownload, Downloads, CacheTypeOK, Working
<1>4. /\ UNCHANGED <<kind, source, names, data>>
      /\ Proceed(p, d) /\ witness' = w
  BY DEF LocalPath
<1>5. /\ witness.overlap => w.overlap
      /\ ~w.overlap => Hit \/ ~Overlapping(p)
      /\ w.read = witness.read /\ w.stale = witness.stale
      /\ w \in Witnesses
  <2>1. /\ w.overlap = (witness.overlap \/ (~Hit /\ Overlapping(p)))
        /\ w.read = witness.read /\ w.stale = witness.stale
    BY <1>1 DEF CacheTypeOK, Witnesses
  <2>2. w \in Witnesses
    BY <1>1 DEF CacheTypeOK, Witnesses
  <2> HIDE DEF w
  <2>3. QED
    BY <2>1, <2>2
<1> HIDE DEF d, w
<1>6. /\ downloads' \in [Openers -> Downloads] /\ downloads'[p] = d
      /\ \A q \in Openers \ {p} : downloads'[q] = downloads[q]
  BY <1>1, <1>3, <1>4, OneProceeds DEF CacheTypeOK
<1>7. CacheTypeOK'
  BY <1>1, <1>4, <1>5, <1>6 DEF CacheTypeOK
<1>8. ASSUME NEW q \in Openers
      PROVE  Equipped(kind, names, downloads'[q])
  <2>1. Equipped(kind, names, downloads[q])
    BY DEF CacheInv
  <2>2. Equipped(kind, names, d)
    BY <1>2 DEF Equipped, Hit
  <2>3. QED
    BY <1>6, <2>1, <2>2
<1>9. ASSUME kind = "url", ~witness'.overlap
      PROVE  SoloUrl(names, data, downloads', witness')
  <2>1. SoloUrl(names, data, downloads, witness)
    BY <1>4, <1>5, <1>9 DEF CacheInv
  <2>2. Hit => names.cached # 0
    BY DEF Hit
  <2>3. ~Hit => names.cached = 0 /\ \A q \in Openers \ {p} : downloads[q].pc \notin Working
    BY <1>4, <1>5, <1>9 DEF Hit, Overlapping, Downloading, Working
  <2>4. Hit => d.pc \notin Working
    BY <1>2 DEF Working
  <2>5. d.pc # "opened" /\ d.pc # "written"
    BY <1>2
  <2>6. QED
    BY <1>4, <1>5, <1>6, <2>1, <2>2, <2>3, <2>4, <2>5 DEF SoloUrl
<1>10. ASSUME kind = "object", ~witness'.overlap
       PROVE  SoloObject(names, data, downloads', witness', source)
  <2>1. SoloObject(names, data, downloads, witness, source)
    BY <1>4, <1>5, <1>10 DEF CacheInv
  <2>2. d.pc = "checked" /\ \A q \in Openers \ {p} : downloads[q].pc = "idle"
    BY <1>2, <1>4, <1>5, <1>10 DEF Hit, Overlapping, Downloading
  <2>3. d.since \in Versions /\ d.since <= source
    BY <1>1, <1>2 DEF CacheTypeOK, Versions
  <2>4. QED
    BY <1>4, <1>5, <1>6, <2>1, <2>2, <2>3 DEF SoloObject
<1>11. QED
  BY <1>4, <1>7, <1>8, <1>9, <1>10 DEF CacheInv

\* A process that gives up or dies leaves the disk as it is.
LEMMA GivingUpKeeps ==
    ASSUME CacheInv, NEW p \in Openers, Proceed(p, NoDownload),
           UNCHANGED <<kind, source, names, data>>, witness' \in Witnesses,
           witness'.overlap = witness.overlap, witness'.read = witness.read,
           witness'.stale = witness.stale
    PROVE  CacheInv'
<1>1. CacheTypeOK
  BY DEF CacheInv
<1>2. /\ downloads' \in [Openers -> Downloads] /\ downloads'[p] = NoDownload
      /\ \A q \in Openers \ {p} : downloads'[q] = downloads[q]
  BY <1>1, NobodyIsIdle, OneProceeds DEF CacheTypeOK
<1>3. CacheTypeOK'
  BY <1>1, <1>2 DEF CacheTypeOK
<1>4. ASSUME NEW q \in Openers
      PROVE  Equipped(kind, names, downloads'[q])
  BY <1>2, NobodyIsIdle DEF CacheInv
<1>5. SoloUrl(names, data, downloads, witness) => SoloUrl(names, data, downloads', witness')
  BY <1>2, NobodyIsIdle DEF SoloUrl, Working
<1>6. SoloObject(names, data, downloads, witness, source)
      => SoloObject(names, data, downloads', witness', source)
  BY <1>2, NobodyIsIdle DEF SoloObject
<1>7. QED
  BY <1>3, <1>4, <1>5, <1>6 DEF CacheInv

\* Fetching: the payload is the one the source has now, which is not older than the call.
LEMMA FetchKeeps ==
    ASSUME CacheInv, NEW p \in Openers, Fetch(p)
    PROVE  CacheInv'
<1> DEFINE d == [downloads[p] EXCEPT !.pc = "fetched", !.payload = source]
<1>1. CacheTypeOK /\ downloads[p].pc = "checked" /\ downloads[p] \in Downloads
  BY DEF CacheInv, CacheTypeOK, Fetch, Reached
<1>2. UNCHANGED <<kind, source, names, data, witness>>
  BY DEF Fetch
<1>3. CASE Proceed(p, NoDownload)
  BY <1>1, <1>2, <1>3, GivingUpKeeps DEF CacheTypeOK
<1>4. CASE Proceed(p, d)
  <2>1. /\ d.pc = "fetched" /\ d.payload = source
        /\ d.file = downloads[p].file /\ d.since = downloads[p].since
    BY <1>1 DEF Downloads
  <2>2. d \in Downloads
    BY <1>1 DEF Downloads, CacheTypeOK, Working
  <2> HIDE DEF d
  <2>3. /\ downloads' \in [Openers -> Downloads] /\ downloads'[p] = d
        /\ \A q \in Openers \ {p} : downloads'[q] = downloads[q]
    BY <1>1, <1>4, <2>2, OneProceeds DEF CacheTypeOK
  <2>4. CacheTypeOK'
    BY <1>1, <1>2, <2>3 DEF CacheTypeOK
  <2>5. source # 0
    BY <1>1 DEF CacheTypeOK, Versions
  <2>6. ASSUME NEW q \in Openers
        PROVE  Equipped(kind, names, downloads'[q])
    <3>1. Equipped(kind, names, downloads[q])
      BY DEF CacheInv
    <3>2. Equipped(kind, names, downloads[p])
      BY DEF CacheInv
    <3>3. Equipped(kind, names, d)
      BY <1>1, <2>1, <2>5, <3>2 DEF Equipped
    <3>4. QED
      BY <2>3, <3>1, <3>3
  <2>7. SoloUrl(names, data, downloads, witness) => SoloUrl(names, data, downloads', witness)
    BY <1>1, <2>1, <2>3 DEF SoloUrl, Working
  <2>8. SoloObject(names, data, downloads, witness, source)
        => SoloObject(names, data, downloads', witness, source)
    BY <1>1, <2>1, <2>3 DEF SoloObject
  <2>9. QED
    BY <1>2, <2>4, <2>6, <2>7, <2>8 DEF CacheInv
<1>5. QED
  BY <1>3, <1>4 DEF Fetch

\* Opening: the target's name gets a file if it has none, and the file is emptied.
LEMMA OpenForWritingKeeps ==
    ASSUME CacheInv, NEW p \in Openers, OpenForWriting(p)
    PROVE  CacheInv'
<1> DEFINE f == IF names[Target] = 0 THEN Unused ELSE names[Target]
           d == [downloads[p] EXCEPT !.pc = "opened", !.file = f]
<1>1. CacheTypeOK /\ downloads[p].pc = "fetched" /\ downloads[p] \in Downloads
  BY DEF CacheInv, CacheTypeOK, OpenForWriting, Reached
<1>2. /\ UNCHANGED <<kind, source, witness>>
      /\ names' = [names EXCEPT ![Target] = f]
      /\ data' = [data EXCEPT ![f] = Torn]
      /\ Proceed(p, d)
  BY DEF OpenForWriting
<1>3. f \in Files
  <2>1. names[Target] = 0 => names.cached = 0 \/ names.temporary = 0
    BY DEF Target
  <2>2. names[Target] \in Files \cup {0}
    BY <1>1 DEF CacheTypeOK, CacheNames, Target
  <2>3. QED
    BY <1>1, <2>1, <2>2, UnusedIsAFile
<1>4. f # 0
  <2>1. Cardinality(Openers) \in Nat
    BY CacheAssumption, FS_CardinalityType
  <2> HIDE DEF f
  <2>2. QED
    BY <1>3, <2>1 DEF Files
<1> HIDE DEF f
<1>5. /\ d.pc = "opened" /\ d.file = f
      /\ d.payload = downloads[p].payload /\ d.since = downloads[p].since
  BY <1>1 DEF Downloads
<1>6. d \in Downloads
  BY <1>1, <1>3 DEF Downloads, Working
<1> HIDE DEF d
<1>7. /\ downloads' \in [Openers -> Downloads] /\ downloads'[p] = d
      /\ \A q \in Openers \ {p} : downloads'[q] = downloads[q]
  BY <1>1, <1>2, <1>6, OneProceeds DEF CacheTypeOK
<1>8. /\ names' \in CacheNames
      /\ kind = "url" => names'.temporary = f /\ names'.cached = names.cached
      /\ kind # "url" => names'.cached = f
  BY <1>1, <1>2, <1>3 DEF CacheTypeOK, CacheNames, Target
<1>9. data' \in [Files -> 0 .. Mixed] /\ data'[f] = Torn
  <2>1. Torn \in 0 .. Mixed
    BY CacheAssumption DEF Torn, Mixed
  <2>2. QED
    BY <1>1, <1>2, <1>3, <2>1 DEF CacheTypeOK
<1>10. CacheTypeOK'
  BY <1>1, <1>2, <1>7, <1>8, <1>9 DEF CacheTypeOK
<1>11. ASSUME NEW q \in Openers
       PROVE  Equipped(kind, names', downloads'[q])
  <2>1. names.cached # 0 => names'.cached # 0
    BY <1>4, <1>8
  <2>2. Equipped(kind, names, downloads[q]) /\ Equipped(kind, names, downloads[p])
    BY DEF CacheInv
  <2>3. Equipped(kind, names', downloads[q])
    BY <2>1, <2>2 DEF Equipped
  <2>4. kind = "object" => names'.cached # 0
    BY <1>4, <1>8
  <2>5. Equipped(kind, names', d)
    BY <1>1, <1>4, <1>5, <2>2, <2>4 DEF Equipped
  <2>6. QED
    BY <1>7, <2>3, <2>5
<1>12. ASSUME kind = "url", SoloUrl(names, data, downloads, witness)
       PROVE  SoloUrl(names', data', downloads', witness)
  <2>1. downloads[p].pc \in Working /\ d.pc \in Working
    BY <1>1, <1>5 DEF Working
  <2>2. names.cached = 0 /\ \A q \in Openers \ {p} : downloads[q].pc \notin Working
    BY <1>12, <2>1 DEF SoloUrl
  <2>3. \A q \in Openers \ {p} : downloads'[q].pc \notin Working
    BY <1>7, <2>2
  <2>4. names'.cached = 0 /\ names'.temporary = f
    BY <1>8, <1>12, <2>2
  <2>5. witness.read = {}
    BY <1>12, <2>2 DEF SoloUrl
  <2>6. \A q \in Openers :
           /\ downloads'[q].pc = "opened"
              => names'.temporary = downloads'[q].file /\ data'[downloads'[q].file] = Torn
           /\ downloads'[q].pc # "written"
    BY <1>5, <1>7, <1>9, <2>3, <2>4 DEF Working
  <2>7. QED
    BY <2>3, <2>4, <2>5, <2>6 DEF SoloUrl
<1>13. ASSUME kind = "object", SoloObject(names, data, downloads, witness, source)
       PROVE  SoloObject(names', data', downloads', witness, source)
  <2>1. \A q \in Openers \ {p} : downloads'[q].pc = "idle"
    BY <1>1, <1>7, <1>13 DEF SoloObject
  <2>2. names'.cached = d.file /\ data'[d.file] = Torn
    BY <1>5, <1>8, <1>9, <1>13
  <2>3. d.since \in Versions /\ d.since <= source /\ d.payload >= d.since
    BY <1>1, <1>5, <1>13 DEF SoloObject
  <2>4. witness.read \subseteq Versions /\ ~witness.stale
    BY <1>13 DEF SoloObject
  <2>5. QED
    BY <1>5, <1>7, <2>1, <2>2, <2>3, <2>4 DEF SoloObject
<1>14. QED
  BY <1>2, <1>10, <1>11, <1>12, <1>13 DEF CacheInv

\* Writing: into a file that is empty the payload goes as it is.
LEMMA WriteKeeps ==
    ASSUME CacheInv, NEW p \in Openers, Write(p)
    PROVE  CacheInv'
<1> DEFINE f == downloads[p].file
           v == downloads[p].payload
           d == [downloads[p] EXCEPT !.pc = "written", !.file = 0]
<1>1. CacheTypeOK /\ downloads[p].pc = "opened" /\ downloads[p] \in Downloads
  BY DEF CacheInv, CacheTypeOK, Write, Reached
<1>2. UNCHANGED <<kind, source, names, witness>> /\ Proceed(p, d)
  BY DEF Write
<1>3. PICK c \in {v} \cup (IF data[f] \in {Torn, v} THEN {} ELSE {Mixed}) :
              data' = [data EXCEPT ![f] = c]
  BY DEF Write
<1>4. Equipped(kind, names, downloads[p])
  BY DEF CacheInv
<1>5. f \in Files /\ v \in Versions
  BY <1>1, <1>4 DEF Equipped, Downloads
<1>6. /\ d.pc = "written" /\ d.file = 0
      /\ d.payload = v /\ d.since = downloads[p].since
  BY <1>1 DEF Downloads
<1>7. d \in Downloads
  BY <1>1 DEF Downloads, Working
<1> HIDE DEF d
<1>8. /\ downloads' \in [Openers -> Downloads] /\ downloads'[p] = d
      /\ \A q \in Openers \ {p} : downloads'[q] = downloads[q]
  BY <1>1, <1>2, <1>7, OneProceeds DEF CacheTypeOK
<1>9. c \in 0 .. Mixed
  <2>1. v \in 0 .. Mixed /\ Mixed \in 0 .. Mixed
    BY <1>5, CacheAssumption DEF Versions, Mixed
  <2> HIDE DEF v
  <2>2. QED
    BY <1>3, <2>1
<1>10. data' \in [Files -> 0 .. Mixed] /\ data'[f] = c
  BY <1>1, <1>3, <1>5, <1>9 DEF CacheTypeOK
<1>11. data[f] = Torn => c = v
  BY <1>3
<1>12. CacheTypeOK'
  BY <1>1, <1>2, <1>8, <1>10 DEF CacheTypeOK
<1>13. v # 0
  BY <1>5 DEF Versions
<1> HIDE DEF v
<1>14. ASSUME NEW q \in Openers
       PROVE  Equipped(kind, names, downloads'[q])
  <2>1. Equipped(kind, names, downloads[q])
    BY DEF CacheInv
  <2>2. Equipped(kind, names, d)
    BY <1>1, <1>4, <1>6, <1>13 DEF Equipped
  <2>3. QED
    BY <1>8, <2>1, <2>2
<1>15. ASSUME SoloUrl(names, data, downloads, witness)
       PROVE  SoloUrl(names, data', downloads', witness)
  <2>1. downloads[p].pc \in Working /\ d.pc \in Working
    BY <1>1, <1>6 DEF Working
  <2>2. names.cached = 0 /\ \A q \in Openers \ {p} : downloads[q].pc \notin Working
    BY <1>15, <2>1 DEF SoloUrl
  <2>3. \A q \in Openers \ {p} : downloads'[q].pc \notin Working
    BY <1>8, <2>2
  <2>4. names.temporary = f /\ data[f] = Torn /\ witness.read = {}
    BY <1>1, <1>15, <2>2 DEF SoloUrl
  <2>5. names.temporary # 0 /\ data'[names.temporary] = d.payload
    BY <1>4, <1>1, <1>6, <1>10, <1>11, <2>4 DEF Equipped
  <2>6. \A q \in Openers :
           /\ downloads'[q].pc # "opened"
           /\ downloads'[q].pc = "written"
              => names.temporary # 0 /\ data'[names.temporary] = downloads'[q].payload
    BY <1>6, <1>8, <2>3, <2>5 DEF Working
  <2>7. QED
    BY <2>2, <2>3, <2>4, <2>6 DEF SoloUrl
<1>16. ASSUME SoloObject(names, data, downloads, witness, source)
       PROVE  SoloObject(names, data', downloads', witness, source)
  <2>1. \A q \in Openers \ {p} : downloads'[q].pc = "idle"
    BY <1>1, <1>8, <1>16 DEF SoloObject
  <2>2. names.cached = f /\ data[f] = Torn
    BY <1>1, <1>16 DEF SoloObject
  <2>3. data'[names.cached] = d.payload
    BY <1>6, <1>10, <1>11, <2>2
  <2>4. d.since \in Versions /\ d.since <= source /\ d.payload >= d.since
    BY <1>1, <1>6, <1>16 DEF SoloObject, v
  <2>5. witness.read \subseteq Versions /\ ~witness.stale
    BY <1>16 DEF SoloObject
  <2>6. QED
    BY <1>6, <1>8, <2>1, <2>3, <2>4, <2>5 DEF SoloObject
<1>17. QED
  BY <1>2, <1>12, <1>14, <1>15, <1>16 DEF CacheInv

\* The rename: behind the temporary name of a lone download there is a whole payload.
LEMMA PutInPlaceKeeps ==
    ASSUME CacheInv, NEW p \in Openers, PutInPlace(p)
    PROVE  CacheInv'
<1> DEFINE d == [downloads[p] EXCEPT !.pc = "reading"]
<1>1. CacheTypeOK /\ downloads[p].pc = "written" /\ downloads[p] \in Downloads
  BY DEF CacheInv, CacheTypeOK, PutInPlace, Reached
<1>2. UNCHANGED <<kind, source, data, witness>>
  BY DEF PutInPlace
<1>3. CASE Proceed(p, NoDownload) /\ UNCHANGED names
  BY <1>1, <1>2, <1>3, GivingUpKeeps DEF CacheTypeOK
<1>4. CASE /\ Proceed(p, d)
           /\ \/ kind = "object" /\ UNCHANGED names
              \/ /\ kind = "url" /\ names.temporary # 0
                 /\ names' = [cached |-> names.temporary, temporary |-> 0]
  <2>1. /\ d.pc = "reading" /\ d.file = downloads[p].file
        /\ d.payload = downloads[p].payload /\ d.since = downloads[p].since
    BY <1>1 DEF Downloads
  <2>2. d \in Downloads
    BY <1>1 DEF Downloads
  <2> HIDE DEF d
  <2>3. /\ downloads' \in [Openers -> Downloads] /\ downloads'[p] = d
        /\ \A q \in Openers \ {p} : downloads'[q] = downloads[q]
    BY <1>1, <1>4, <2>2, OneProceeds DEF CacheTypeOK
  <2>4. names' \in CacheNames
    BY <1>1, <1>4 DEF CacheTypeOK, CacheNames
  <2>5. CacheTypeOK'
    BY <1>1, <1>2, <2>3, <2>4 DEF CacheTypeOK
  <2>6. Equipped(kind, names, downloads[p])
    BY DEF CacheInv
  <2>7. names'.cached # 0
    BY <1>1, <1>4, <2>6 DEF Equipped
  <2>8. ASSUME NEW q \in Openers
        PROVE  Equipped(kind, names', downloads'[q])
    <3>1. Equipped(kind, names, downloads[q])
      BY DEF CacheInv
    <3>2. Equipped(kind, names', downloads[q]) /\ Equipped(kind, names', d)
      BY <1>1, <2>1, <2>6, <2>7, <3>1 DEF Equipped
    <3>3. QED
      BY <2>3, <3>2
  <2>9. ASSUME kind = "url", SoloUrl(names, data, downloads, witness)
        PROVE  SoloUrl(names', data, downloads', witness)
    <3>1. downloads[p].pc \in Working
      BY <1>1 DEF Working
    <3>2. names.cached = 0 /\ \A q \in Openers \ {p} : downloads[q].pc \notin Working
      BY <2>9, <3>1 DEF SoloUrl
    <3>3. \A q \in Openers : downloads'[q].pc \notin Working
      BY <2>1, <2>3, <3>2 DEF Working
    <3>4. names'.cached = names.temporary
      BY <1>4, <2>9
    <3>5. data[names.temporary] = downloads[p].payload /\ witness.read = {}
      BY <1>1, <2>9, <3>2 DEF SoloUrl
    <3>6. downloads[p].payload \in Versions
      BY <1>1, <2>6 DEF Equipped, Downloads
    <3>7. QED
      BY <2>7, <3>3, <3>4, <3>5, <3>6 DEF SoloUrl, Working
  <2>10. ASSUME kind = "object", SoloObject(names, data, downloads, witness, source)
         PROVE  SoloObject(names', data, downloads', witness, source)
    <3>1. \A q \in Openers \ {p} : downloads'[q].pc = "idle"
      BY <1>1, <2>3, <2>10 DEF SoloObject
    <3>2. names' = names
      BY <1>4, <2>10
    <3>3. /\ d.since \in Versions /\ d.since <= source /\ d.payload >= d.since
          /\ data[names.cached] = d.payload
      BY <1>1, <2>1, <2>10 DEF SoloObject
    <3>4. witness.read \subseteq Versions /\ ~witness.stale
      BY <2>10 DEF SoloObject
    <3>5. QED
      BY <2>1, <2>3, <3>1, <3>2, <3>3, <3>4 DEF SoloObject
  <2>11. QED
    BY <1>2, <2>5, <2>8, <2>9, <2>10 DEF CacheInv
<1>5. kind \in {"url", "object"}
  BY <1>1 DEF CacheTypeOK
<1>6. QED
  BY <1>3, <1>4, <1>5 DEF PutInPlace

\* Reading: what a lone caller finds is a whole payload, the one all others found at an
\* address, and at an object one fetched after its call began.
LEMMA ReadKeeps ==
    ASSUME CacheInv, NEW p \in Openers, Read(p)
    PROVE  CacheInv'
<1> DEFINE got == data[names.cached]
           w == [witness EXCEPT !.read = @ \cup {got},
                                !.stale = @ \/ (got # Torn /\ got < downloads[p].since)]
<1>1. CacheTypeOK /\ downloads[p].pc = "reading" /\ downloads[p] \in Downloads
  BY DEF CacheInv, CacheTypeOK, Read, Reached
<1>2. /\ UNCHANGED <<kind, source, names, data>> /\ witness' = w
      /\ Proceed(p, NoDownload)
  BY DEF Read
<1>3. names.cached \in Files
  <2>1. names.cached # 0
    BY <1>1 DEF CacheInv, Equipped
  <2>2. QED
    BY <1>1, <2>1 DEF CacheTypeOK, CacheNames
<1>4. got \in 0 .. Mixed
  BY <1>1, <1>3 DEF CacheTypeOK
<1>5. /\ w.overlap = witness.overlap /\ w.read = witness.read \cup {got}
      /\ w.stale = (witness.stale \/ (got # Torn /\ got < downloads[p].since))
      /\ w \in Witnesses
  <2>1. /\ w.overlap = witness.overlap /\ w.read = witness.read \cup {got}
        /\ w.stale = (witness.stale \/ (got # Torn /\ got < downloads[p].since))
    BY <1>1 DEF CacheTypeOK, Witnesses
  <2>2. witness.read \cup {got} \in SUBSET (0 .. Mixed)
    BY <1>1, <1>4 DEF CacheTypeOK, Witnesses
  <2>3. w \in Witnesses
    BY <1>1, <2>2 DEF CacheTypeOK, Witnesses
  <2>4. QED
    BY <2>1, <2>3
<1> HIDE DEF w
<1>6. /\ downloads' \in [Openers -> Downloads] /\ downloads'[p] = NoDownload
      /\ \A q \in Openers \ {p} : downloads'[q] = downloads[q]
  BY <1>1, <1>2, NobodyIsIdle, OneProceeds DEF CacheTypeOK
<1>7. CacheTypeOK'
  BY <1>1, <1>2, <1>5, <1>6 DEF CacheTypeOK
<1>8. ASSUME NEW q \in Openers
      PROVE  Equipped(kind, names, downloads'[q])
  BY <1>6, NobodyIsIdle DEF CacheInv
<1>9. ASSUME kind = "url", SoloUrl(names, data, downloads, witness)
      PROVE  SoloUrl(names, data, downloads', w)
  <2>1. names.cached # 0
    BY <1>1 DEF CacheInv, Equipped
  <2>2. \A q \in Openers : downloads[q].pc \notin Working
    BY <1>9, <2>1 DEF SoloUrl
  <2>3. \A q \in Openers : downloads'[q].pc \notin Working
    BY <1>6, <2>2, NobodyIsIdle DEF Working
  <2>4. got \in Versions /\ w.read \subseteq {got}
    BY <1>5, <1>9, <2>1 DEF SoloUrl
  <2>5. QED
    BY <2>1, <2>3, <2>4 DEF SoloUrl, Working
<1>10. ASSUME kind = "object", SoloObject(names, data, downloads, witness, source)
       PROVE  SoloObject(names, data, downloads', w, source)
  <2>1. \A q \in Openers : downloads'[q].pc = "idle"
    BY <1>1, <1>6, <1>10, NobodyIsIdle DEF SoloObject
  <2>2. /\ got = downloads[p].payload /\ got >= downloads[p].since
        /\ downloads[p].since \in Versions
    BY <1>1, <1>10 DEF SoloObject
  <2>3. got \in Versions
    <3>1. got \in Versions \cup {0} /\ got # 0
      BY <1>1, <2>2 DEF Downloads, Versions
    <3>2. QED
      BY <3>1
  <2>4. ~(got < downloads[p].since)
    BY <2>2, <2>3 DEF Versions
  <2>5. w.read \subseteq Versions /\ ~w.stale
    <3>1. witness.read \subseteq Versions /\ ~witness.stale
      BY <1>10 DEF SoloObject
    <3> HIDE DEF got
    <3>2. QED
      BY <1>5, <2>3, <2>4, <3>1
  <2>6. QED
    BY <2>1, <2>5 DEF SoloObject
<1>11. QED
  BY <1>2, <1>5, <1>7, <1>8, <1>9, <1>10 DEF CacheInv

\* Every step keeps the invariant.
LEMMA CacheStep == CacheInv /\ [CacheNext]_cacheVars => CacheInv'
<1>1. CacheInv /\ UNCHANGED cacheVars => CacheInv'
  <2>1. SUFFICES ASSUME CacheInv, UNCHANGED cacheVars
                 PROVE  CacheInv'
    OBVIOUS
  <2>2. UNCHANGED <<kind, source, names, data, downloads, witness>>
    BY <2>1 DEF cacheVars
  <2>3. CacheTypeOK'
    BY <2>1, <2>2 DEF CacheInv, CacheTypeOK
  <2>4. QED
    BY <2>1, <2>2, <2>3 DEF CacheInv
<1>2. ASSUME CacheInv, NEW p \in Openers, LocalPath(p)
      PROVE  CacheInv'
  BY <1>2, LocalPathKeeps
<1>3. ASSUME CacheInv, NEW p \in Openers, Fetch(p)
      PROVE  CacheInv'
  BY <1>3, FetchKeeps
<1>4. ASSUME CacheInv, NEW p \in Openers, OpenForWriting(p)
      PROVE  CacheInv'
  BY <1>4, OpenForWritingKeeps
<1>5. ASSUME CacheInv, NEW p \in Openers, Write(p)
      PROVE  CacheInv'
  BY <1>5, WriteKeeps
<1>6. ASSUME CacheInv, NEW p \in Openers, PutInPlace(p)
      PROVE  CacheInv'
  BY <1>6, PutInPlaceKeeps
<1>7. ASSUME CacheInv, NEW p \in Openers, Read(p)
      PROVE  CacheInv'
  BY <1>7, ReadKeeps
<1>8. ASSUME CacheInv, NEW p \in Openers, Die(p)
      PROVE  CacheInv'
  <2> DEFINE w == [witness EXCEPT !.deaths = @ + 1]
  <2>1. /\ UNCHANGED <<kind, source, names, data>> /\ witness' = w
        /\ Proceed(p, NoDownload)
    BY <1>8 DEF Die
  <2>2. /\ w \in Witnesses /\ w.overlap = witness.overlap
        /\ w.read = witness.read /\ w.stale = witness.stale
    BY <1>8 DEF CacheInv, CacheTypeOK, Witnesses
  <2> HIDE DEF w
  <2>3. QED
    BY <1>8, <2>1, <2>2, GivingUpKeeps
<1>9. ASSUME CacheInv, ChangeSource
      PROVE  CacheInv'
  <2>1. /\ source' = source + 1 /\ source < MaxVersions
        /\ UNCHANGED <<kind, names, data, downloads, witness>>
    BY <1>9 DEF ChangeSource
  <2>2. CacheTypeOK' /\ source \in Nat
    BY <1>9, <2>1, CacheAssumption DEF CacheInv, CacheTypeOK, Versions
  <2>3. ASSUME SoloObject(names, data, downloads, witness, source)
        PROVE  SoloObject(names, data, downloads, witness, source + 1)
    <3>1. \A q \in Openers : downloads[q].pc # "idle" => downloads[q].since <= source + 1
      BY <2>2, <2>3 DEF SoloObject, Versions
    <3>2. QED
      BY <2>3, <3>1 DEF SoloObject
  <2>4. QED
    BY <1>9, <2>1, <2>2, <2>3 DEF CacheInv
<1>10. QED
  BY <1>1, <1>2, <1>3, <1>4, <1>5, <1>6, <1>7, <1>8, <1>9 DEF CacheNext

\* Nothing has been downloaded yet.
LEMMA CacheBegins == CacheInit => CacheInv
<1>1. SUFFICES ASSUME CacheInit
               PROVE  CacheInv
  OBVIOUS
<1>2. /\ kind \in {"url", "object"} /\ source = 1 /\ names = [cached |-> 0, temporary |-> 0]
      /\ data = [f \in Files |-> Torn] /\ downloads = [p \in Openers |-> NoDownload]
      /\ witness = [overlap |-> FALSE, read |-> {}, stale |-> FALSE, deaths |-> 0]
  BY <1>1 DEF CacheInit
<1>3. Torn \in 0 .. Mixed /\ source \in Versions
  BY <1>2, CacheAssumption DEF Torn, Mixed, Versions
<1>4. CacheTypeOK
  BY <1>2, <1>3, NobodyIsIdle DEF CacheTypeOK, CacheNames, Witnesses
<1>5. \A p \in Openers : Equipped(kind, names, downloads[p])
  BY <1>2, NobodyIsIdle
<1>6. SoloUrl(names, data, downloads, witness)
  BY <1>2, NobodyIsIdle DEF SoloUrl, Working
<1>7. SoloObject(names, data, downloads, witness, source)
  BY <1>2, NobodyIsIdle DEF SoloObject
<1>8. QED
  BY <1>4, <1>5, <1>6, <1>7 DEF CacheInv

\* The names, files and processes of a cache stay what they are taken for: every name points to
\* a file of the disk and every handle of an open file too.
THEOREM CacheTypes == CacheSpec => []CacheTypeOK
<1>1. CacheInv => CacheTypeOK
  BY DEF CacheInv
<1>2. QED
  BY <1>1, CacheBegins, CacheStep, PTL DEF CacheSpec

\* Downloads that do not overlap are sound: readers of an address all get one whole payload, a
\* lone caller of an object a whole one that is not older than its call, wherever processes die.
THEOREM DownloadsAreSound == CacheSpec => []DownloadsSound
<1>1. CacheInv => DownloadsSound
  <2>1. SUFFICES ASSUME CacheInv
                 PROVE  DownloadsSound
    OBVIOUS
  <2>2. Torn \notin Versions /\ Mixed \notin Versions
    BY CacheAssumption DEF Torn, Mixed, Versions
  <2>3. ASSUME kind = "url", ~witness.overlap
        PROVE  witness.read \cap {Torn, Mixed} = {} /\ Cardinality(witness.read) <= 1
    <3>1. SoloUrl(names, data, downloads, witness)
      BY <2>1, <2>3 DEF CacheInv
    <3>2. \/ witness.read = {}
          \/ \E v \in Versions : witness.read = {v}
      BY <3>1 DEF SoloUrl
    <3>3. witness.read = {} \/ \E v : witness.read = {v}
      BY <3>2
    <3>4. Cardinality(witness.read) \in {0, 1}
      BY <3>3, FS_EmptySet, FS_Singleton
    <3>5. QED
      BY <2>2, <3>2, <3>4
  <2>4. ASSUME kind = "object", ~witness.overlap
        PROVE  witness.read \cap {Torn, Mixed} = {} /\ ~witness.stale
    BY <2>1, <2>2, <2>4 DEF CacheInv, SoloObject
  <2>5. QED
    BY <2>3, <2>4 DEF DownloadsSound, SoloDownloadsWhole, ObjectsAreFresh
<1>2. QED
  BY <1>1, CacheBegins, CacheStep, PTL DEF CacheSpec

-----------------------------------------------------------------------------
(***************************************************************************)
(* Connections.  A test that still stands has the health of its moment,    *)
(* and nothing but a replaced secret changes that health: what a saved     *)
(* installation consists of never changes, nor does the environment of a   *)
(* process.  Its health and the client that opens the connection gather    *)
(* the same settings, and where no setting is the name of a file they ask  *)
(* the same of each.                                                       *)
(***************************************************************************)
Fields == UNION {ConfigurationFields[c] : c \in ConnectorIds}

InstallationOK(x) ==
    \/ x = NoInstallation
    \/ /\ x \in [connector : ConnectorIds, configured : SUBSET Fields,
                 reference : References, status : {"ready", "setup_required"}]
       /\ RequiredFields[x.connector] \subseteq x.configured

TestRecord == [pc : {"idle", "checked"}, rotation : Nat,
               health : {"ok", "error", "not_configured"}]

TestOK(test, n, health, x) ==
    test.pc = "checked" => /\ x # NoInstallation /\ test.rotation <= n
                           /\ test.rotation = n => test.health = health

StatusIs(x, health) == x # NoInstallation /\ x.status = StatusOf(health)

ConnectorsInv ==
    /\ environment \in Environments /\ secret \in Secrets
    /\ rotation \in 0..MaxRotations /\ fresh \in BOOLEAN
    /\ tests \in [Testers -> TestRecord]
    /\ InstallationOK(installation)
    /\ \A t \in Testers : TestOK(tests[t], rotation, Health("api"), installation)
    /\ fresh => StatusIs(installation, Health("api"))

LEMMA HealthWords == Health("api") \in {"ok", "error", "not_configured"}
BY DEF Health

\* The settings and the health of a connection are no matter of its status.
LEMMA SameSettings ==
    ASSUME installation'.connector = installation.connector,
           installation'.configured = installation.configured,
           installation'.reference = installation.reference,
           UNCHANGED <<environment, secret, rotation>>
    PROVE  /\ OfProcess("api")' = OfProcess("api")
           /\ ReferenceResolves("api")' <=> ReferenceResolves("api")
           /\ Effective("api")' = Effective("api")
<1>1. OfProcess("api")' = OfProcess("api")
  BY DEF OfProcess
<1>2. OfCredential("api")' = OfCredential("api")
  BY <1>1 DEF OfCredential
<1>3. ReferenceResolves("api")' <=> ReferenceResolves("api")
  BY <1>1 DEF ReferenceResolves
<1>4. Layered("api")' = Layered("api")
  BY <1>1, <1>2 DEF Layered
<1>5. QED
  BY <1>1, <1>3, <1>4 DEF Effective

LEMMA SameHealth ==
    ASSUME installation'.connector = installation.connector,
           installation'.configured = installation.configured,
           installation'.reference = installation.reference,
           UNCHANGED <<environment, secret, rotation>>
    PROVE  Health("api")' = Health("api")
<1>1. Complete(installation.connector, Effective("api"))'
      <=> Complete(installation.connector, Effective("api"))
  BY SameSettings DEF Complete
<1>2. QED
  BY <1>1, SameSettings DEF Health

LEMMA ConnectorsStart == ASSUME ConnectorsInit PROVE ConnectorsInv
<1>1. tests \in [Testers -> TestRecord] /\ \A t \in Testers : tests[t].pc = "idle"
  BY DEF ConnectorsInit, TestRecord
<1>2. rotation \in 0..MaxRotations
  BY ConnectorAssumption DEF ConnectorsInit
<1>3. QED
  BY <1>1, <1>2 DEF ConnectorsInit, ConnectorsInv, InstallationOK, TestOK

LEMMA ConnectorsKeep ==
    ASSUME ConnectorsInv, [ConnectorsNext]_connectorVars
    PROVE  ConnectorsInv'
<1>1. ASSUME NEW c \in ConnectorIds, NEW configured \in SUBSET ConfigurationFields[c],
             NEW reference \in References, Create(c, configured, reference)
      PROVE  ConnectorsInv'
  <2>1. ~fresh /\ \A t \in Testers : tests[t].pc # "checked"
    BY <1>1 DEF Create, ConnectorsInv, TestOK, StatusIs
  <2>2. configured \in SUBSET Fields
    BY DEF Fields
  <2>3. PICK status \in {"ready", "setup_required"} :
           installation' = [connector |-> c, configured |-> configured,
                            reference |-> reference, status |-> status]
    BY <1>1 DEF Create, StatusOf
  <2>4. InstallationOK(installation')
    BY <1>1, <2>2, <2>3 DEF Create, InstallationOK
  <2>5. UNCHANGED <<environment, secret, rotation, tests, fresh>>
    BY <1>1 DEF Create
  <2>6. QED
    BY <2>1, <2>4, <2>5 DEF ConnectorsInv, TestOK
<1>2. ASSUME NEW t \in Testers, BeginTest(t)
      PROVE  ConnectorsInv'
  <2>1. UNCHANGED <<environment, installation, secret, rotation, fresh>>
    BY <1>2 DEF BeginTest
  <2>2. Health("api")' = Health("api")
    BY <2>1, SameHealth
  <2>3. PICK test : test = [pc |-> "checked", health |-> Health("api"), rotation |-> rotation]
    OBVIOUS
  <2>4. test \in TestRecord /\ TestOK(test, rotation, Health("api"), installation)
    BY <1>2, <2>3, HealthWords, ConnectorAssumption
       DEF BeginTest, ConnectorsInv, TestRecord, TestOK
  <2>5. tests' = [tests EXCEPT ![t] = test]
    BY <1>2, <2>3 DEF BeginTest
  <2>6. \A u \in Testers : TestOK(tests'[u], rotation, Health("api"), installation)
    BY <2>4, <2>5 DEF ConnectorsInv
  <2>7. tests' \in [Testers -> TestRecord]
    BY <2>4, <2>5 DEF ConnectorsInv
  <2>8. QED
    BY <2>1, <2>2, <2>6, <2>7 DEF ConnectorsInv
<1>3. ASSUME NEW t \in Testers, RecordHealth(t)
      PROVE  ConnectorsInv'
  <2>1. /\ installation # NoInstallation /\ TestOK(tests[t], rotation, Health("api"), installation)
        /\ tests[t] \in TestRecord /\ tests[t].pc = "checked"
    BY <1>3 DEF RecordHealth, ConnectorsInv, TestOK
  <2>2. PICK status \in {"ready", "setup_required"} :
           status = StatusOf(tests[t].health)
    BY DEF StatusOf
  <2>3. /\ installation' = [installation EXCEPT !.status = status]
        /\ UNCHANGED <<environment, secret, rotation>>
    BY <1>3, <2>2 DEF RecordHealth
  <2>4. /\ installation \in [connector : ConnectorIds, configured : SUBSET Fields,
                             reference : References, status : {"ready", "setup_required"}]
        /\ RequiredFields[installation.connector] \subseteq installation.configured
    BY <2>1 DEF ConnectorsInv, InstallationOK
  <2>5. /\ InstallationOK(installation') /\ installation'.status = status
        /\ installation'.connector = installation.connector
        /\ installation'.configured = installation.configured
        /\ installation'.reference = installation.reference
    BY <2>3, <2>4 DEF InstallationOK
  <2>6. installation' # NoInstallation
    BY <2>2, <2>5 DEF NoInstallation
  <2>7. Health("api")' = Health("api")
    BY <2>3, <2>5, SameHealth
  <2>8. tests' \in [Testers -> TestRecord]
    BY <1>3, <2>1 DEF RecordHealth, ConnectorsInv, TestRecord
  <2>9. \A u \in Testers : TestOK(tests'[u], rotation, Health("api"), installation')
    <3>1. ASSUME NEW u \in Testers
          PROVE  TestOK(tests'[u], rotation, Health("api"), installation')
      <4>1. CASE u = t
        BY <1>3, <4>1 DEF RecordHealth, ConnectorsInv, TestOK
      <4>2. CASE u # t
        BY <1>3, <2>6, <4>2 DEF RecordHealth, ConnectorsInv, TestOK
      <4>3. QED
        BY <4>1, <4>2
    <3>2. QED
      BY <3>1
  <2>10. fresh' \in BOOLEAN /\ (fresh' => StatusIs(installation', Health("api")))
    BY <1>3, <2>1, <2>2, <2>5, <2>6 DEF RecordHealth, TestOK, StatusIs
  <2>11. QED
    BY <2>3, <2>5, <2>7, <2>8, <2>9, <2>10 DEF ConnectorsInv
<1>4. ASSUME NEW keys \in Secrets, Rotate(keys)
      PROVE  ConnectorsInv'
  <2>1. /\ rotation' = rotation + 1 /\ rotation' \in 0..MaxRotations /\ ~fresh'
        /\ rotation \in Nat /\ secret' \in Secrets /\ fresh' \in BOOLEAN
        /\ UNCHANGED <<environment, installation, tests>>
    <3>1. rotation \in Nat /\ rotation < MaxRotations /\ MaxRotations \in Nat
      BY <1>4, ConnectorAssumption DEF Rotate, ConnectorsInv
    <3>2. rotation' = rotation + 1 /\ fresh' = FALSE /\ secret' \in Secrets
      BY <1>4 DEF Rotate
    <3>3. UNCHANGED <<environment, installation, tests>>
      BY <1>4 DEF Rotate
    <3>4. rotation' \in 0..MaxRotations
      BY <3>1, <3>2
    <3>5. ~fresh' /\ fresh' \in BOOLEAN
      BY <3>2
    <3>6. QED
      BY <3>1, <3>2, <3>3, <3>4, <3>5
  <2>2. ASSUME NEW t \in Testers
        PROVE  TestOK(tests[t], rotation', Health("api")', installation)
    <3>1. tests[t].rotation \in Nat /\ TestOK(tests[t], rotation, Health("api"), installation)
      BY DEF ConnectorsInv, TestRecord
    <3>2. QED
      BY <2>1, <3>1 DEF TestOK
  <2>3. QED
    BY <2>1, <2>2 DEF ConnectorsInv
<1>5. CASE UNCHANGED connectorVars
  <2>1. Health("api")' = Health("api")
    BY <1>5, SameHealth DEF connectorVars
  <2>2. QED
    BY <1>5, <2>1 DEF connectorVars, ConnectorsInv
<1>6. QED
  BY <1>1, <1>2, <1>3, <1>4, <1>5 DEF ConnectorsNext

\* Where the environment names no file, every setting is none or a value.
Plainly(setting) == setting = NotSet \/ Direct(setting)

LEMMA SettingsPlain ==
    ASSUME ConnectorsInv, NEW k \in SettingKeys, environment["api"][k] # "file"
    PROVE  /\ Plainly(OfProcess("api")[k])
           /\ ReferenceResolves("api") /\ k \in DOMAIN OfCredential("api")
              => Direct(OfCredential("api")[k])
           /\ ReferenceResolves("api") => Plainly(Layered("api")[k])
           /\ ReferenceResolves("api") /\ k \in installation.configured
              => Direct(Layered("api")[k])
<1>1. environment["api"] \in [SettingKeys -> {"unset", "set", "file"}]
  BY ConnectorAssumption DEF ConnectorsInv, Servers
<1>2. Plainly(OfProcess("api")[k])
  BY <1>1 DEF OfProcess, Plainly, Direct, Setting, NotSet
<1>3. ASSUME ReferenceResolves("api"), k \in DOMAIN OfCredential("api")
      PROVE  Direct(OfCredential("api")[k])
  <2>1. CASE installation.reference.scheme = "env"
    BY <1>3, <2>1 DEF OfCredential, ReferenceResolves
  <2>2. CASE installation.reference.scheme = "managed"
    BY <1>3, <2>2 DEF OfCredential, ReferenceResolves, Direct, Setting
  <2>3. CASE installation.reference.scheme \notin {"env", "managed"}
    BY <1>3, <2>3 DEF OfCredential
  <2>4. QED
    BY <2>1, <2>2, <2>3
<1>4. Direct(Setting("configuration", "none", 0))
  BY DEF Direct, Setting
<1>5. Layered("api")[k] =
         IF k \in DOMAIN OfCredential("api") THEN OfCredential("api")[k]
         ELSE IF k \in installation.configured THEN Setting("configuration", "none", 0)
         ELSE OfProcess("api")[k]
  BY DEF Layered
<1>6. QED
  BY <1>2, <1>3, <1>4, <1>5 DEF Plainly

\* What is ready is what opens, whichever place the settings come from.
LEMMA ReadyOpens ==
    ASSUME ConnectorsInv, installation # NoInstallation,
           \A k \in SettingKeys \ {"login"} : environment["api"][k] # "file",
           \/ installation.connector = "snowflake"
           \/ installation.connector = "object" /\ ObjectBackend
    PROVE  (Health("api") = "ok") <=> Opens("api")
<1>1. CASE ~ReferenceResolves("api")
  BY <1>1 DEF Health, Opens
<1>2. CASE ReferenceResolves("api") /\ installation.connector = "snowflake"
  <2>1. Effective("api") = Layered("api")
    BY <1>2 DEF Effective
  <2>2. "account" \in SettingKeys \ {"login"}
    BY DEF SettingKeys
  <2>3. Plainly(Layered("api")["account"])
    BY <1>2, <2>2, SettingsPlain
  <2>4. ~Direct(NotSet)
    BY DEF Direct, NotSet, Setting
  <2>5. RequiredKeys["snowflake"] = {"account", "login"}
    BY DEF RequiredKeys
  <2>6. QED
    BY <1>2, <2>1, <2>3, <2>4, <2>5
       DEF Health, Opens, Complete, SnowflakeOpens, Plainly
<1>3. CASE ReferenceResolves("api") /\ installation.connector = "object" /\ ObjectBackend
  <2>1. "bucket" \in installation.configured
    BY <1>3 DEF ConnectorsInv, InstallationOK, RequiredFields, ConfigurationFields
  <2>2. /\ {"bucket", "stored", "aws"} \subseteq SettingKeys \ {"login"}
        /\ ~Direct(NotSet)
    BY DEF SettingKeys, Direct, NotSet, Setting
  <2>3. /\ Plainly(Layered("api")["stored"]) /\ Plainly(Layered("api")["aws"])
        /\ Direct(Layered("api")["bucket"])
    BY <1>3, <2>1, <2>2, SettingsPlain
  <2>4. /\ Effective("api")["bucket"] = Layered("api")["bucket"]
        /\ Effective("api")["aws"] = Layered("api")["aws"]
        /\ Effective("api")["stored"] =
              IF Direct(Layered("api")["aws"]) /\ ~Direct(Layered("api")["stored"])
              THEN Layered("api")["aws"] ELSE Layered("api")["stored"]
    <3>1. DOMAIN Layered("api") = SettingKeys /\ "stored" \in SettingKeys
      BY DEF Layered, SettingKeys
    <3>2. QED
      BY <1>3, <3>1 DEF Effective
  <2>5. RequiredKeys["object"] = {"bucket", "stored"}
    BY <1>3 DEF RequiredKeys
  <2>6. Complete("object", Effective("api")) <=>
           Direct(Layered("api")["aws"]) \/ Direct(Layered("api")["stored"])
    BY <2>2, <2>3, <2>4, <2>5 DEF Complete, Plainly
  <2>7. ObjectStoreOpens(Effective("api")) <=>
           Direct(Layered("api")["aws"]) \/ Direct(Layered("api")["stored"])
    BY <2>1, <2>4 DEF ObjectStoreOpens
  <2>8. QED
    BY <1>3, <2>6, <2>7 DEF Health, Opens
<1>4. QED
  BY <1>1, <1>2, <1>3

LEMMA ConnectorsInvariant == ConnectorsSpec => []ConnectorsInv
BY ConnectorsStart, ConnectorsKeep, PTL DEF ConnectorsSpec

\* The types of the state of a connection (ConnectorInstallation).
THEOREM ConnectorsTypes == ConnectorsSpec => []ConnectorsTypeOK
<1>1. ASSUME ConnectorsInv
      PROVE  ConnectorsTypeOK
  <2>1. CASE installation = NoInstallation
    BY <1>1, <2>1 DEF ConnectorsInv, ConnectorsTypeOK, NoInstallation, References
  <2>2. CASE installation # NoInstallation
    BY <1>1, <2>2 DEF ConnectorsInv, ConnectorsTypeOK, InstallationOK, Fields
  <2>3. QED
    BY <2>1, <2>2
<1>2. QED
  BY <1>1, ConnectorsInvariant, PTL

\* A status that a test gave and no new secret has overtaken says whether the
\* connection opens: the check of ConnectorDefinition.health and the clients of
\* the outside systems agree, for every environment, configuration and secret
\* that keeps to values (registry.py, installations.py, credentials.py).
THEOREM StatusesTell == ConnectorsSpec => []StatusTold
<1>1. ASSUME ConnectorsInv
      PROVE  StatusTold
  <2>1. Opens("api") \in BOOLEAN
    BY DEF Opens
  <2>2. ASSUME fresh, \A k \in SettingKeys \ {"login"} : environment["api"][k] # "file",
               \/ installation.connector = "snowflake"
               \/ installation.connector = "object" /\ ObjectBackend
        PROVE  (installation.status = "ready") = Opens("api")
    <3>1. installation # NoInstallation /\ installation.status = StatusOf(Health("api"))
      BY <1>1, <2>2 DEF ConnectorsInv, StatusIs
    <3>2. (Health("api") = "ok") <=> Opens("api")
      BY <1>1, <2>2, <3>1, ReadyOpens
    <3>3. (installation.status = "ready") <=> Opens("api")
      BY <3>1, <3>2 DEF StatusOf
    <3>4. QED
      BY <2>1, <3>3
  <2>3. QED
    BY <2>2 DEF StatusTold
<1>2. QED
  BY <1>1, ConnectorsInvariant, PTL

-----------------------------------------------------------------------------
(***************************************************************************)
(* Investigations.  Whatever a model answers, the checks that are chosen   *)
(* are distinct and available; the evidence follows them one by one, and   *)
(* further checks are none of them and cite only what the first found.     *)
(***************************************************************************)
RankIn(P, i) == Cardinality({k \in P : k <= i})

\* Of some numbers there is a first, a second, and so on.
LEMMA RanksTaken ==
    ASSUME NEW m \in Nat, NEW P \in SUBSET (1..m)
    PROVE  /\ IsFiniteSet(P) /\ Cardinality(P) \in Nat /\ Cardinality(P) <= m
           /\ \A n \in 1..Cardinality(P) : \E i \in P : RankIn(P, i) = n
<1>1. IsFiniteSet(P) /\ Cardinality(P) \in Nat /\ Cardinality(P) <= m
  <2>1. 1 \in Int /\ m \in Int
    OBVIOUS
  <2>2. IsFiniteSet(1..m) /\ Cardinality(1..m) = m
    BY <2>1, FS_Interval
  <2>3. QED
    BY <2>2, FS_Subset, FS_CardinalityType
<1>2. ASSUME NEW i \in P
      PROVE  /\ RankIn(P, i) \in 1..Cardinality(P)
             /\ IsFiniteSet({k \in P : k <= i})
  <2>1. PICK low : low = {k \in P : k <= i}
    OBVIOUS
  <2>2. low \in SUBSET P /\ i \in low
    BY <2>1
  <2>3. IsFiniteSet(low) /\ Cardinality(low) <= Cardinality(P) /\ Cardinality(low) \in Nat
    BY <1>1, <2>2, FS_Subset, FS_CardinalityType
  <2>4. Cardinality(low) # 0
    BY <2>2, <2>3, FS_EmptySet
  <2>5. QED
    BY <1>1, <2>1, <2>3, <2>4 DEF RankIn
<1>3. ASSUME NEW i \in P, NEW k \in P, i < k
      PROVE  RankIn(P, i) # RankIn(P, k)
  <2>1. PICK low, high : low = {n \in P : n <= i} /\ high = {n \in P : n <= k}
    OBVIOUS
  <2>2. low \in SUBSET high /\ k \in high /\ k \notin low
    <3>1. \A n \in P : n \in Int
      OBVIOUS
    <3>2. \A n \in P : n <= i => n <= k
      BY <1>3, <3>1
    <3>3. i \in Int /\ k \in Int /\ ~(k <= i)
      BY <1>3, <3>1
    <3>4. low \in SUBSET high
      BY <2>1, <3>2
    <3>5. k \in high /\ k \notin low
      BY <2>1, <3>3
    <3>6. QED
      BY <3>4, <3>5
  <2>3. IsFiniteSet(high)
    BY <1>2, <2>1
  <2>4. Cardinality(low) # Cardinality(high)
    BY <2>2, <2>3, FS_Subset
  <2>5. QED
    BY <2>1, <2>4 DEF RankIn
<1>4. PICK f : f = [i \in P |-> RankIn(P, i)]
  OBVIOUS
<1>5. f \in Injection(P, 1..Cardinality(P))
  <2>1. f \in [P -> 1..Cardinality(P)]
    BY <1>2, <1>4
  <2>2. ASSUME NEW i \in P, NEW k \in P, f[i] = f[k]
        PROVE  i = k
    <3>1. i < k \/ k < i \/ i = k
      OBVIOUS
    <3>2. RankIn(P, i) = RankIn(P, k)
      BY <1>4, <2>2
    <3>3. QED
      BY <1>3, <3>1, <3>2
  <2>3. QED
    BY <2>1, <2>2 DEF Injection, IsInjective
<1>6. f \in Surjection(P, 1..Cardinality(P))
  <2>1. 1 \in Int /\ Cardinality(P) \in Int
    BY <1>1
  <2>2. IsFiniteSet(1..Cardinality(P)) /\ Cardinality(1..Cardinality(P)) = Cardinality(P)
    BY <1>1, <2>1, FS_Interval
  <2>3. QED
    BY <1>5, <2>2, FS_Injection
<1>7. QED
  BY <1>1, <1>4, <1>6 DEF Surjection

\* Names that are picked are names of the list, each at most once if it is at
\* most once among those to pick.
LEMMA PickedNames ==
    ASSUME NEW T, NEW s \in Seq(T), NEW P \in SUBSET DOMAIN s
    PROVE  /\ Picked(s, P) \in Seq(T)
           /\ \A n \in DOMAIN Picked(s, P) : \E i \in P : Picked(s, P)[n] = s[i]
           /\ (\A i, k \in P : s[i] = s[k] => i = k) =>
                 \A n, m \in DOMAIN Picked(s, P) :
                     Picked(s, P)[n] = Picked(s, P)[m] => n = m
<1>1. PICK c \in Nat : /\ c = Cardinality(P)
                       /\ \A n \in 1..c : \E i \in P : RankIn(P, i) = n
  <2>1. Len(s) \in Nat /\ P \in SUBSET (1..Len(s))
    OBVIOUS
  <2>2. QED
    BY <2>1, RanksTaken
<1>2. PICK at : at = [n \in 1..c |-> CHOOSE i \in P : RankIn(P, i) = n]
  OBVIOUS
<1>3. \A n \in 1..c : at[n] \in P /\ RankIn(P, at[n]) = n
  BY <1>1, <1>2
<1>4. Picked(s, P) = [n \in 1..c |-> s[at[n]]]
  BY <1>1, <1>2 DEF Picked, RankIn
<1>5. Picked(s, P) \in [1..c -> T]
  BY <1>3, <1>4
<1>6. Picked(s, P) \in Seq(T)
  BY <1>1, <1>5
<1>7. DOMAIN Picked(s, P) = 1..c /\ \A n \in 1..c : Picked(s, P)[n] = s[at[n]]
  BY <1>4
<1>8. ASSUME \A i, k \in P : s[i] = s[k] => i = k, NEW n \in 1..c, NEW m \in 1..c,
             s[at[n]] = s[at[m]]
      PROVE  n = m
  BY <1>3, <1>8
<1>9. QED
  BY <1>3, <1>6, <1>7, <1>8

DistinctNames(s) == \A i, k \in DOMAIN s : s[i] = s[k] => i = k

\* The first occurrences of some names, and the start of a list of names.
LEMMA FirstOnesNames ==
    ASSUME NEW T, NEW s \in Seq(T)
    PROVE  /\ FirstOnes(s) \in Seq(T) /\ DistinctNames(FirstOnes(s))
           /\ \A n \in DOMAIN FirstOnes(s) : FirstOnes(s)[n] \in ToSetOf(s)
<1>1. PICK P : P = {i \in DOMAIN s : \A k \in 1..(i - 1) : s[k] # s[i]}
  OBVIOUS
<1>2. P \in SUBSET DOMAIN s /\ FirstOnes(s) = Picked(s, P)
  BY <1>1 DEF FirstOnes
<1>3. ASSUME NEW i \in P, NEW k \in P, s[i] = s[k]
      PROVE  i = k
  <2>1. i \in 1..Len(s) /\ k \in 1..Len(s) /\ Len(s) \in Nat
    BY <1>2
  <2>2. CASE i < k
    <3>1. i \in 1..(k - 1)
      BY <2>1, <2>2
    <3>2. QED
      BY <1>1, <1>3, <3>1
  <2>3. CASE k < i
    <3>1. k \in 1..(i - 1)
      BY <2>1, <2>3
    <3>2. QED
      BY <1>1, <1>3, <3>1
  <2>4. QED
    BY <2>1, <2>2, <2>3
<1>4. QED
  BY <1>2, <1>3, PickedNames DEF DistinctNames, ToSetOf

LEMMA LeadingNames ==
    ASSUME NEW T, NEW s \in Seq(T), NEW n \in Nat
    PROVE  /\ Leading(s, n) \in Seq(T) /\ Len(Leading(s, n)) <= n
           /\ Len(Leading(s, n)) <= Len(s)
           /\ \A i \in DOMAIN Leading(s, n) : i \in DOMAIN s /\ Leading(s, n)[i] = s[i]
<1>1. PICK m \in Nat : m = (IF Len(s) < n THEN Len(s) ELSE n) /\ m <= Len(s) /\ m <= n
  OBVIOUS
<1>2. Leading(s, n) = SubSeq(s, 1, m)
  BY <1>1 DEF Leading
<1>3. SubSeq(s, 1, m) = [i \in 1..m |-> s[i]]
  <2>1. SubSeq(s, 1, m) = [i \in 1..(1 + m - 1) |-> s[i + 1 - 1]]
    BY <1>1
  <2>2. QED
    BY <1>1, <2>1
<1>4. \A i \in 1..m : i \in DOMAIN s /\ s[i] \in T
  BY <1>1
<1>5. [i \in 1..m |-> s[i]] \in Seq(T) /\ Len([i \in 1..m |-> s[i]]) = m
  BY <1>1, <1>4
<1>6. QED
  BY <1>1, <1>2, <1>3, <1>4, <1>5

StepRecord == [check : Checks, id : Nat, basis : SUBSET Nat]

\* Evidence of distinct checks that the analysis has, each with its number, and
\* citing evidence that came before and cites none.
StepsSound(steps, a) ==
    \A i \in DOMAIN steps :
        /\ steps[i].id = i
        /\ steps[i].check \in a.available \ a.broken
        /\ \A k \in DOMAIN steps : steps[k].check = steps[i].check => k = i
        /\ \A n \in steps[i].basis : n \in 1..(i - 1) /\ steps[n].basis = {}

InquiryPcs == {"idle", "selecting", "checking", "following up", "reviewing",
               "writing evidence", "writing report", "registering evidence",
               "registering report", "failed"}

\* What the agent has before and after its first checks.
Progress(pc, chosen, steps) ==
    /\ pc \in {"selecting", "checking"} => steps = <<>>
    /\ pc = "following up" =>
          /\ Len(steps) = Len(chosen)
          /\ \A i \in DOMAIN steps : steps[i].check = chosen[i] /\ steps[i].basis = {}
    /\ pc \notin {"selecting", "checking"} => Len(steps) <= InitialLimit + FollowupLimit

ChosenOK(chosen, a) ==
    /\ chosen \in Seq(Checks) /\ DistinctNames(chosen) /\ Len(chosen) <= InitialLimit
    /\ ToSetOf(chosen) \subseteq a.available

AnalysisOK(a) ==
    a \in [available : SUBSET Checks, broken : SUBSET Checks]

InquiryOK(x, a) ==
    /\ AnalysisOK(a)
    /\ x \in [pc : InquiryPcs, chosen : Seq(Checks), directed : BOOLEAN,
              steps : Seq(StepRecord), review : SUBSET Nat]
    /\ ChosenOK(x.chosen, a)
    /\ StepsSound(x.steps, a)
    /\ Progress(x.pc, x.chosen, x.steps)
    /\ x.pc \in {"selecting", "checking", "following up", "reviewing"} => x.review = {}
    /\ x.review \subseteq EvidenceIds(x.steps)

InquiryInv == InquiryOK(inquiry, analysis)

LEMMA LimitsKnown ==
    /\ InitialLimit \in Nat /\ FollowupLimit \in Nat
    /\ 0 <= InitialLimit + FollowupLimit
BY InvestigationAssumption DEF InitialLimit, FollowupLimit

\* The agent goes on, or fails, with what it has.
LEMMA InquiryMoves ==
    ASSUME InquiryInv, NEW pc \in InquiryPcs \ {"selecting", "checking", "following up"},
           pc = "reviewing" => inquiry.review = {},
           inquiry' = [inquiry EXCEPT !.pc = pc], UNCHANGED analysis
    PROVE  InquiryInv'
<1>1. PICK x : x = [inquiry EXCEPT !.pc = pc]
  OBVIOUS
<1>2. /\ x.pc = pc /\ x.chosen = inquiry.chosen /\ x.steps = inquiry.steps
      /\ x.review = inquiry.review
      /\ x \in [pc : InquiryPcs, chosen : Seq(Checks), directed : BOOLEAN,
                steps : Seq(StepRecord), review : SUBSET Nat]
  BY <1>1 DEF InquiryInv, InquiryOK
<1>3. Len(x.steps) <= InitialLimit + FollowupLimit
  <2>1. CASE inquiry.steps = <<>>
    <3>1. Len(<<>>) = 0
      OBVIOUS
    <3>2. Len(x.steps) = 0
      BY <1>2, <2>1, <3>1
    <3>3. 0 <= InitialLimit + FollowupLimit
      BY LimitsKnown
    <3>4. QED
      BY <3>2, <3>3
  <2>2. CASE inquiry.steps # <<>>
    BY <1>2, <2>2 DEF InquiryInv, InquiryOK, Progress
  <2>3. QED
    BY <2>1, <2>2
<1>4. Progress(x.pc, x.chosen, x.steps)
  BY <1>2, <1>3 DEF Progress
<1>5. InquiryOK(x, analysis)
  BY <1>2, <1>4 DEF InquiryInv, InquiryOK
<1>6. QED
  BY <1>1, <1>5 DEF InquiryInv

\* A new attempt starts from nothing.
LEMMA InquiryBegins ==
    ASSUME InquiryInv, NEW a, AnalysisOK(a), BeginInquiry(a)
    PROVE  InquiryInv'
<1>1. PICK x : x = [Quiet EXCEPT !.pc = "selecting"]
  OBVIOUS
<1>2. /\ x.pc = "selecting" /\ x.chosen = <<>> /\ x.steps = <<>> /\ x.review = {}
      /\ x \in [pc : InquiryPcs, chosen : Seq(Checks), directed : BOOLEAN,
                steps : Seq(StepRecord), review : SUBSET Nat]
  <2>1. <<>> \in Seq(Checks) /\ <<>> \in Seq(StepRecord) /\ {} \in SUBSET Nat
    OBVIOUS
  <2>2. /\ x = [pc |-> "selecting", chosen |-> <<>>, directed |-> FALSE,
                steps |-> <<>>, review |-> {}]
        /\ "selecting" \in InquiryPcs
    BY <1>1 DEF Quiet, InquiryPcs
  <2>3. QED
    BY <2>1, <2>2
<1>3. DOMAIN <<>> = {} /\ Len(<<>>) = 0
  OBVIOUS
<1>4. ChosenOK(x.chosen, a)
  BY <1>2, <1>3 DEF ChosenOK, DistinctNames, ToSetOf, InitialLimit
<1>5. StepsSound(x.steps, a) /\ x.review \subseteq EvidenceIds(x.steps)
  BY <1>2, <1>3 DEF StepsSound
<1>6. Progress(x.pc, x.chosen, x.steps)
  BY <1>2 DEF Progress
<1>7. InquiryOK(x, a)
  BY <1>2, <1>4, <1>5, <1>6 DEF InquiryOK
<1>8. QED
  BY <1>1, <1>7 DEF InquiryInv, BeginInquiry

LEMMA SelectKeeps ==
    ASSUME InquiryInv, NEW checks, ChosenOK(checks, analysis),
           NEW directed \in BOOLEAN, Select(checks, directed)
    PROVE  InquiryInv'
<1>1. PICK x : x = [inquiry EXCEPT !.pc = "checking", !.chosen = checks,
                                   !.directed = directed]
  OBVIOUS
<1>2. /\ x.pc = "checking" /\ x.chosen = checks /\ x.steps = inquiry.steps
      /\ x.review = inquiry.review
      /\ x \in [pc : InquiryPcs, chosen : Seq(Checks), directed : BOOLEAN,
                steps : Seq(StepRecord), review : SUBSET Nat]
  <2>1. checks \in Seq(Checks)
    BY DEF ChosenOK
  <2>2. inquiry \in [pc : InquiryPcs, chosen : Seq(Checks), directed : BOOLEAN,
                     steps : Seq(StepRecord), review : SUBSET Nat]
    BY DEF InquiryInv, InquiryOK
  <2>3. QED
    BY <1>1, <2>1, <2>2 DEF InquiryPcs
<1>3. inquiry.pc = "selecting" /\ UNCHANGED analysis /\ inquiry' = x
  BY <1>1 DEF Select
<1>4. inquiry.steps = <<>> /\ inquiry.review = {}
  BY <1>3 DEF InquiryInv, InquiryOK, Progress
<1>5. Progress(x.pc, x.chosen, x.steps)
  BY <1>2, <1>4 DEF Progress
<1>6. InquiryOK(x, analysis)
  BY <1>2, <1>4, <1>5 DEF InquiryInv, InquiryOK
<1>7. QED
  BY <1>3, <1>6 DEF InquiryInv

\* What is selected is available, whoever selects it.
LEMMA SelectionsOK ==
    ASSUME InquiryInv
    PROVE  /\ ChosenOK(Fallback, analysis)
           /\ \A s \in Answers :
                 ValidSelection(s) => ChosenOK(Leading(FirstOnes(s), InitialLimit), analysis)
<1>1. analysis.available \subseteq Checks
  BY DEF InquiryInv, InquiryOK, AnalysisOK
<1>2. ASSUME NEW s \in Seq(Checks), DistinctNames(s),
             \A i \in DOMAIN s : s[i] \in analysis.available
      PROVE  ChosenOK(Leading(s, InitialLimit), analysis)
  <2>1. PICK lead : lead = Leading(s, InitialLimit)
    OBVIOUS
  <2>2. /\ lead \in Seq(Checks) /\ Len(lead) <= InitialLimit
        /\ \A i \in DOMAIN lead : i \in DOMAIN s /\ lead[i] = s[i]
    BY <2>1, LimitsKnown, LeadingNames
  <2>3. DistinctNames(lead) /\ ToSetOf(lead) \subseteq analysis.available
    BY <1>2, <2>2 DEF DistinctNames, ToSetOf
  <2>4. QED
    BY <2>1, <2>2, <2>3 DEF ChosenOK
<1>3. ChosenOK(Fallback, analysis)
  <2>1. PICK P : P = {i \in DOMAIN Preferred : Preferred[i] \in analysis.available}
    OBVIOUS
  <2>2. Preferred \in Seq(Checks) /\ \A i, k \in DOMAIN Preferred : Preferred[i] = Preferred[k] => i = k
    <3>1. {Preferred[i] : i \in DOMAIN Preferred} \subseteq Checks
      BY DEF Checks, ToSetOf
    <3>2. QED
      BY <3>1, InvestigationAssumption
  <2>3. PICK s : s = Picked(Preferred, P)
    OBVIOUS
  <2>4. P \in SUBSET DOMAIN Preferred
    BY <2>1
  <2>5. s \in Seq(Checks) /\ DistinctNames(s)
        /\ \A i \in DOMAIN s : \E k \in P : s[i] = Preferred[k]
    BY <2>2, <2>3, <2>4, PickedNames DEF DistinctNames
  <2>6. \A i \in DOMAIN s : s[i] \in analysis.available
    BY <2>1, <2>5
  <2>7. QED
    BY <1>2, <2>1, <2>3, <2>5, <2>6 DEF Fallback
<1>4. ASSUME NEW s \in Answers, ValidSelection(s)
      PROVE  ChosenOK(Leading(FirstOnes(s), InitialLimit), analysis)
  <2>1. s \in Seq(Checks)
    BY DEF Answers
  <2>2. \A i \in DOMAIN FirstOnes(s) : FirstOnes(s)[i] \in analysis.available
    BY <1>4, <2>1, FirstOnesNames DEF ValidSelection
  <2>3. QED
    BY <1>2, <2>1, <2>2, FirstOnesNames
<1>5. QED
  BY <1>3, <1>4

\* The chosen checks are executed: all of them, or the agent fails.
LEMMA RunChecksKeep == ASSUME InquiryInv, RunChecks PROVE InquiryInv'
<1>1. CASE ToSetOf(inquiry.chosen) \cap analysis.broken # {}
  <2>1. inquiry' = [inquiry EXCEPT !.pc = "failed"] /\ UNCHANGED analysis
    BY <1>1 DEF RunChecks
  <2>2. "failed" \in InquiryPcs \ {"selecting", "checking", "following up"}
    BY DEF InquiryPcs
  <2>3. QED
    BY <2>1, <2>2, InquiryMoves
<1>2. CASE ToSetOf(inquiry.chosen) \cap analysis.broken = {}
  <2>1. PICK chosen : chosen = inquiry.chosen /\ ChosenOK(chosen, analysis)
    BY DEF InquiryInv, InquiryOK
  <2>2. PICK c \in Nat : /\ c = Len(chosen) /\ c <= InitialLimit
                         /\ DOMAIN chosen = 1..c /\ chosen \in Seq(Checks)
    BY <2>1 DEF ChosenOK
  <2>3. PICK steps : steps = [i \in 1..c |-> Step(chosen[i], i, {})]
    OBVIOUS
  <2>4. \A i \in 1..c : /\ chosen[i] \in Checks /\ Step(chosen[i], i, {}) \in StepRecord
                        /\ steps[i] = Step(chosen[i], i, {})
    BY <2>2, <2>3 DEF Step, StepRecord
  <2>5. steps \in Seq(StepRecord) /\ Len(steps) = c /\ DOMAIN steps = 1..c
    BY <2>2, <2>3, <2>4
  <2>6. \A i \in 1..c : steps[i].id = i /\ steps[i].check = chosen[i] /\ steps[i].basis = {}
    <3>1. ASSUME NEW i \in 1..c
          PROVE  steps[i].id = i /\ steps[i].check = chosen[i] /\ steps[i].basis = {}
      <4>1. steps[i] = [check |-> chosen[i], id |-> i, basis |-> {}]
        BY <2>3 DEF Step
      <4>2. QED
        BY <4>1
    <3>2. QED
      BY <3>1
  <2>7. \A i \in 1..c : chosen[i] \in analysis.available \ analysis.broken
    BY <1>2, <2>1, <2>2 DEF ChosenOK, ToSetOf
  <2>8. StepsSound(steps, analysis)
    BY <2>1, <2>2, <2>5, <2>6, <2>7 DEF StepsSound, ChosenOK, DistinctNames
  <2>9. PICK x : x = [inquiry EXCEPT !.pc = "following up", !.steps = steps]
    OBVIOUS
  <2>10. inquiry' = x /\ UNCHANGED analysis /\ inquiry.pc = "checking"
    BY <1>2, <2>1, <2>2, <2>3, <2>9 DEF RunChecks
  <2>11. /\ x.pc = "following up" /\ x.chosen = chosen /\ x.steps = steps
         /\ x.review = inquiry.review
         /\ x \in [pc : InquiryPcs, chosen : Seq(Checks), directed : BOOLEAN,
                   steps : Seq(StepRecord), review : SUBSET Nat]
    <3>1. inquiry \in [pc : InquiryPcs, chosen : Seq(Checks), directed : BOOLEAN,
                       steps : Seq(StepRecord), review : SUBSET Nat]
      BY DEF InquiryInv, InquiryOK
    <3>2. QED
      BY <2>1, <2>5, <2>9, <3>1 DEF InquiryPcs
  <2>12. Len(steps) <= InitialLimit + FollowupLimit
    <3>1. PICK a \in Nat, b \in Nat : a = InitialLimit /\ b = FollowupLimit
      BY LimitsKnown
    <3>2. c <= a + b
      BY <2>2, <3>1
    <3>3. QED
      BY <2>5, <3>1, <3>2
  <2>13. Progress(x.pc, x.chosen, x.steps)
    BY <2>2, <2>5, <2>6, <2>11, <2>12 DEF Progress
  <2>14. inquiry.review = {}
    BY <2>10 DEF InquiryInv, InquiryOK
  <2>15. InquiryOK(x, analysis)
    BY <2>1, <2>8, <2>11, <2>13, <2>14 DEF InquiryInv, InquiryOK
  <2>16. QED
    BY <2>10, <2>15 DEF InquiryInv
<1>3. QED
  BY <1>1, <1>2

\* Further checks: none that was chosen before, and none cited that is itself a
\* further one.
LEMMA FollowupKeeps == ASSUME InquiryInv, Followup PROVE InquiryInv'
<1>1. PICK s \in Answers, cited \in SUBSET EvidenceIds(inquiry.steps),
           n \in 0..FollowupLimit :
         /\ ValidFollowup(s, cited)
         /\ n <= Len(FirstOnes(s))
         /\ \A i \in 1..n : FirstOnes(s)[i] \notin analysis.broken
         /\ inquiry' = [inquiry EXCEPT !.pc = "reviewing",
                                       !.steps = Extended(FirstOnes(s), cited, n)]
  BY DEF Followup
<1>2. /\ inquiry.pc = "following up" /\ UNCHANGED analysis
      /\ ChosenOK(inquiry.chosen, analysis) /\ StepsSound(inquiry.steps, analysis)
      /\ Progress(inquiry.pc, inquiry.chosen, inquiry.steps)
      /\ inquiry.review = {}
      /\ inquiry \in [pc : InquiryPcs, chosen : Seq(Checks), directed : BOOLEAN,
                      steps : Seq(StepRecord), review : SUBSET Nat]
  BY DEF Followup, InquiryInv, InquiryOK
<1>3. PICK more : /\ more = FirstOnes(s) /\ more \in Seq(Checks) /\ DistinctNames(more)
                  /\ \A i \in DOMAIN more : more[i] \in ToSetOf(s)
  <2>1. s \in Seq(Checks)
    BY DEF Answers
  <2>2. QED
    BY <2>1, FirstOnesNames
<1>4. PICK b \in Nat : b = Len(inquiry.steps) /\ b = Len(inquiry.chosen) /\ b <= InitialLimit
  <2>1. Len(inquiry.steps) = Len(inquiry.chosen)
    BY <1>2 DEF Progress
  <2>2. inquiry.steps \in Seq(StepRecord)
    BY ONLY <1>2
  <2>5. Len(inquiry.steps) \in Nat
    BY ONLY <2>2
  <2>3. Len(inquiry.chosen) <= InitialLimit
    BY <1>2 DEF ChosenOK
  <2>4. QED
    BY <2>1, <2>5, <2>3
<1>5. /\ DOMAIN inquiry.steps = 1..b /\ inquiry.steps \in Seq(StepRecord)
      /\ DOMAIN inquiry.chosen = 1..b
      /\ \A i \in 1..b : /\ inquiry.steps[i].id = i /\ inquiry.steps[i].basis = {}
                         /\ inquiry.steps[i].check = inquiry.chosen[i]
                         /\ inquiry.steps[i].check \in analysis.available \ analysis.broken
                         /\ \A k \in 1..b : inquiry.steps[k].check = inquiry.steps[i].check
                                            => k = i
  <2>1. inquiry.steps \in Seq(StepRecord)
    BY ONLY <1>2
  <2>2. inquiry.chosen \in Seq(Checks)
    BY ONLY <1>2
  <2>3. DOMAIN inquiry.steps = 1..b
    <3>1. DOMAIN inquiry.steps = 1..Len(inquiry.steps)
      BY ONLY <2>1
    <3>2. QED
      BY ONLY <1>4, <3>1
  <2>4. DOMAIN inquiry.chosen = 1..b
    <3>1. DOMAIN inquiry.chosen = 1..Len(inquiry.chosen)
      BY ONLY <2>2
    <3>2. QED
      BY ONLY <1>4, <3>1
  <2>5. \A i \in 1..b : /\ inquiry.steps[i].basis = {}
                        /\ inquiry.steps[i].check = inquiry.chosen[i]
    BY <1>2, <2>3 DEF Progress
  <2>6. QED
    BY <1>2, <2>1, <2>3, <2>4, <2>5 DEF StepsSound
<1>6. cited \subseteq 1..b
  BY <1>1, <1>5 DEF EvidenceIds
<1>7. n \in Nat /\ n <= FollowupLimit /\ DOMAIN more = 1..Len(more) /\ n <= Len(more)
  BY <1>1, <1>3, LimitsKnown
<1>8. \A i \in 1..n : /\ i \in DOMAIN more /\ more[i] \in Checks
                      /\ more[i] \in analysis.available \ analysis.broken
                      /\ \A k \in 1..b : more[i] # inquiry.steps[k].check
  <2>1. ASSUME NEW i \in 1..n
        PROVE  i \in DOMAIN more
    BY <1>3, <1>7
  <2>2. ToSetOf(s) \subseteq analysis.available \ ToSetOf(inquiry.chosen)
    BY <1>1 DEF ValidFollowup, Remaining
  <2>3. \A k \in 1..b : inquiry.steps[k].check \in ToSetOf(inquiry.chosen)
    BY <1>5 DEF ToSetOf
  <2>4. QED
    BY <1>1, <1>3, <2>1, <2>2, <2>3
<1>9. PICK new : new = [i \in 1..n |-> Step(more[i], b + i, cited)]
  OBVIOUS
<1>10. \A i \in 1..n : /\ new[i].check = more[i] /\ new[i].id = b + i /\ new[i].basis = cited
                       /\ new[i] \in StepRecord
  <2>1. cited \in SUBSET Nat
    BY <1>6
  <2>2. \A i \in 1..n : Step(more[i], b + i, cited) \in StepRecord
    BY <1>8, <2>1 DEF Step, StepRecord
  <2>3. QED
    BY <1>9, <2>2 DEF Step
<1>11. new \in Seq(StepRecord) /\ Len(new) = n
  BY <1>7, <1>9, <1>10
<1>12. PICK steps : steps = inquiry.steps \o new
  OBVIOUS
<1>13. /\ steps \in Seq(StepRecord) /\ Len(steps) = b + n /\ DOMAIN steps = 1..(b + n)
       /\ \A i \in 1..(b + n) : steps[i] = IF i <= b THEN inquiry.steps[i] ELSE new[i - b]
  <2>1. /\ steps \in Seq(StepRecord) /\ Len(steps) = Len(inquiry.steps) + Len(new)
        /\ \A i \in 1..(Len(inquiry.steps) + Len(new)) :
              steps[i] = IF i <= Len(inquiry.steps) THEN inquiry.steps[i]
                         ELSE new[i - Len(inquiry.steps)]
    <3>1. inquiry.steps \in Seq(StepRecord)
      BY <1>5
    <3>2. new \in Seq(StepRecord)
      BY <1>11
    <3>3. QED
      BY ONLY <1>12, <3>1, <3>2, ConcatProperties
  <2>2. Len(inquiry.steps) + Len(new) = b + n
    BY <1>4, <1>11
  <2>3. DOMAIN steps = 1..Len(steps)
    BY <2>1
  <2>4. QED
    BY <1>4, <2>1, <2>2, <2>3
<1>14. \A i \in 1..(b + n) : i > b => i - b \in 1..n /\ b + (i - b) = i
  BY <1>4, <1>7
<1>15. StepsSound(steps, analysis)
  <2>1. ASSUME NEW i \in 1..(b + n)
        PROVE  /\ steps[i].id = i
               /\ steps[i].check \in analysis.available \ analysis.broken
               /\ \A m \in steps[i].basis : m \in 1..(i - 1) /\ steps[m].basis = {}
    <3>1. CASE i <= b
      <4>1. i \in 1..b /\ steps[i] = inquiry.steps[i]
        BY <1>4, <1>7, <1>13, <3>1
      <4>2. QED
        BY <1>5, <4>1
    <3>2. CASE i > b
      <4>1. i - b \in 1..n /\ steps[i] = new[i - b]
        BY <1>4, <1>7, <1>13, <1>14, <3>2, SMTT(30)
      <4>2. steps[i].id = i /\ steps[i].check = more[i - b] /\ steps[i].basis = cited
        BY <1>10, <1>14, <3>2, <4>1
      <4>3. ASSUME NEW m \in cited
            PROVE  m \in 1..(i - 1) /\ steps[m].basis = {}
        <5>1. m \in 1..b
          BY <1>6
        <5>2. m \in 1..(i - 1) /\ m \in 1..(b + n) /\ m <= b
          BY <1>4, <1>7, <3>2, <5>1
        <5>3. QED
          BY <1>5, <1>13, <5>1, <5>2
      <4>4. QED
        BY <1>8, <4>1, <4>2, <4>3
    <3>3. QED
      BY <1>4, <1>7, <3>1, <3>2
  <2>2. ASSUME NEW i \in 1..(b + n), NEW k \in 1..(b + n), i < k,
               steps[k].check = steps[i].check
        PROVE  FALSE
    <3>1. CASE k <= b
      BY <1>4, <1>5, <1>7, <1>13, <2>2, <3>1, SMTT(30)
    <3>2. CASE i > b
      <4>1. /\ i - b \in 1..n /\ k - b \in 1..n /\ i - b # k - b
            /\ steps[i] = new[i - b] /\ steps[k] = new[k - b]
        BY <1>4, <1>7, <1>13, <1>14, <2>2, <3>2
      <4>2. more[i - b] = more[k - b]
        BY <1>10, <2>2, <4>1
      <4>3. QED
        BY <1>3, <1>8, <4>1, <4>2 DEF DistinctNames
    <3>3. CASE i <= b /\ k > b
      <4>1. i \in 1..b /\ k - b \in 1..n /\ steps[i] = inquiry.steps[i] /\ steps[k] = new[k - b]
        BY <1>4, <1>7, <1>13, <1>14, <3>3
      <4>2. QED
        BY <1>8, <1>10, <2>2, <4>1
    <3>4. QED
      BY <1>4, <1>7, <3>1, <3>2, <3>3
  <2>3. \A i, k \in 1..(b + n) : steps[k].check = steps[i].check => k = i
    <3>1. ASSUME NEW i \in 1..(b + n), NEW k \in 1..(b + n), steps[k].check = steps[i].check
          PROVE  k = i
      <4>1. i < k \/ k < i \/ i = k
        BY <1>4, <1>7
      <4>2. QED
        BY <2>2, <3>1, <4>1
    <3>2. QED
      BY <3>1
  <2>4. QED
    BY <1>13, <2>1, <2>3 DEF StepsSound
<1>16. PICK x : x = [inquiry EXCEPT !.pc = "reviewing", !.steps = steps]
  OBVIOUS
<1>17. inquiry' = x
  <2>1. Extended(more, cited, n) = steps
    BY <1>4, <1>9, <1>12 DEF Extended
  <2>2. QED
    BY <1>1, <1>3, <1>16, <2>1
<1>18. /\ x.pc = "reviewing" /\ x.chosen = inquiry.chosen /\ x.steps = steps
       /\ x.review = {}
       /\ x \in [pc : InquiryPcs, chosen : Seq(Checks), directed : BOOLEAN,
                 steps : Seq(StepRecord), review : SUBSET Nat]
  BY <1>2, <1>13, <1>16 DEF InquiryPcs
<1>19. Len(steps) <= InitialLimit + FollowupLimit
  <2>1. PICK a \in Nat, f \in Nat : a = InitialLimit /\ f = FollowupLimit
    BY LimitsKnown
  <2>2. b + n <= a + f
    BY <1>4, <1>7, <2>1
  <2>3. QED
    BY <1>13, <2>1, <2>2
<1>20. Progress(x.pc, x.chosen, x.steps)
  BY <1>18, <1>19 DEF Progress
<1>21. InquiryOK(x, analysis)
  BY <1>2, <1>15, <1>18, <1>20 DEF InquiryInv, InquiryOK
<1>22. QED
  BY <1>2, <1>17, <1>21 DEF InquiryInv

\* The review cites what was found.
LEMMA ReviewKeeps == ASSUME InquiryInv, Review PROVE InquiryInv'
<1>1. PICK cited \in SUBSET EvidenceIds(inquiry.steps) :
         inquiry' = [inquiry EXCEPT !.pc = "writing evidence", !.review = cited]
  BY DEF Review
<1>2. /\ UNCHANGED analysis /\ inquiry.pc = "reviewing"
      /\ inquiry \in [pc : InquiryPcs, chosen : Seq(Checks), directed : BOOLEAN,
                      steps : Seq(StepRecord), review : SUBSET Nat]
      /\ Progress(inquiry.pc, inquiry.chosen, inquiry.steps)
  BY DEF Review, InquiryInv, InquiryOK
<1>3. cited \in SUBSET Nat
  <2>1. inquiry.steps \in Seq(StepRecord)
    BY ONLY <1>2
  <2>2. \A i \in DOMAIN inquiry.steps : inquiry.steps[i].id \in Nat
    <3>1. ASSUME NEW i \in DOMAIN inquiry.steps
          PROVE  inquiry.steps[i] \in StepRecord
      BY <2>1
    <3>2. QED
      BY <3>1 DEF StepRecord
  <2>3. QED
    BY <2>2 DEF EvidenceIds
<1>4. PICK x : x = [inquiry EXCEPT !.pc = "writing evidence", !.review = cited]
  OBVIOUS
<1>5. /\ x.pc = "writing evidence" /\ x.chosen = inquiry.chosen
      /\ x.steps = inquiry.steps /\ x.review = cited
      /\ x \in [pc : InquiryPcs, chosen : Seq(Checks), directed : BOOLEAN,
                steps : Seq(StepRecord), review : SUBSET Nat]
  BY <1>2, <1>3, <1>4 DEF InquiryPcs
<1>6. Progress(x.pc, x.chosen, x.steps)
  BY <1>2, <1>5 DEF Progress
<1>7. InquiryOK(x, analysis)
  BY <1>5, <1>6 DEF InquiryInv, InquiryOK
<1>8. QED
  BY <1>1, <1>2, <1>4, <1>7 DEF InquiryInv

LEMMA InquiryStarts == ASSUME InvestigationInit PROVE InquiryInv
<1>1. analysis = [available |-> {}, broken |-> {}] /\ inquiry = Quiet
  BY DEF InvestigationInit
<1>2. AnalysisOK(analysis)
  BY <1>1 DEF AnalysisOK
<1>3. DOMAIN <<>> = {} /\ Len(<<>>) = 0 /\ <<>> \in Seq(Checks) /\ <<>> \in Seq(StepRecord)
  OBVIOUS
<1>4. /\ inquiry.pc = "idle" /\ inquiry.chosen = <<>> /\ inquiry.steps = <<>>
      /\ inquiry.review = {}
      /\ inquiry \in [pc : InquiryPcs, chosen : Seq(Checks), directed : BOOLEAN,
                      steps : Seq(StepRecord), review : SUBSET Nat]
  BY <1>1, <1>3 DEF Quiet, InquiryPcs
<1>5. ChosenOK(inquiry.chosen, analysis)
  BY <1>3, <1>4 DEF ChosenOK, DistinctNames, ToSetOf, InitialLimit
<1>6. StepsSound(inquiry.steps, analysis) /\ Progress(inquiry.pc, inquiry.chosen, inquiry.steps)
  BY <1>3, <1>4, LimitsKnown DEF StepsSound, Progress
<1>7. QED
  BY <1>2, <1>4, <1>5, <1>6 DEF InquiryInv, InquiryOK

LEMMA InquiryKeeps ==
    ASSUME InquiryInv, [InvestigationNext]_investigationVars
    PROVE  InquiryInv'
<1>1. CASE ReadAnalysis
  <2>1. PICK extra \in SUBSET (Checks \ {"dataset_overview", "data_quality"}) :
           \E broken \in SUBSET extra :
               BeginInquiry([available |-> extra \cup {"dataset_overview", "data_quality"},
                             broken |-> broken])
    BY <1>1 DEF ReadAnalysis
  <2>5. PICK broken \in SUBSET extra :
           BeginInquiry([available |-> extra \cup {"dataset_overview", "data_quality"},
                         broken |-> broken])
    BY <2>1
  <2>2. {"dataset_overview", "data_quality"} \subseteq Checks
    BY InvestigationAssumption DEF Checks, ToSetOf
  <2>3. AnalysisOK([available |-> extra \cup {"dataset_overview", "data_quality"},
                    broken |-> broken])
    BY <2>2 DEF AnalysisOK
  <2>4. QED
    BY <2>5, <2>3, InquiryBegins
<1>2. CASE SelectFallback
  BY <1>2, SelectionsOK, SelectKeeps DEF SelectFallback
<1>3. CASE SelectDirected
  BY <1>3, SelectionsOK, SelectKeeps DEF SelectDirected
<1>4. ASSUME NEW pc \in InquiryPcs \ {"selecting", "checking", "following up"},
             pc = "reviewing" => inquiry.review = {},
             inquiry' = [inquiry EXCEPT !.pc = pc], UNCHANGED analysis
      PROVE  InquiryInv'
  BY <1>4, InquiryMoves
<1>5. CASE NoFollowup
  <2>1. inquiry.review = {}
    BY <1>5 DEF NoFollowup, InquiryInv, InquiryOK
  <2>2. "reviewing" \in InquiryPcs \ {"selecting", "checking", "following up"}
    BY DEF InquiryPcs
  <2>3. QED
    BY <1>4, <1>5, <2>1, <2>2 DEF NoFollowup
<1>6. CASE WriteEvidence \/ WriteReport \/ RegisterEvidence \/ RegisterReport \/ FailInquiry
  <2>1. {"writing report", "registering evidence", "registering report", "idle", "failed"}
        \subseteq InquiryPcs \ {"selecting", "checking", "following up"}
    BY DEF InquiryPcs
  <2>2. QED
    BY <1>4, <1>6, <2>1
       DEF WriteEvidence, WriteReport, RegisterEvidence, RegisterReport, Register, FailInquiry
<1>7. CASE UNCHANGED investigationVars
  BY <1>7 DEF investigationVars, InquiryInv
<1>8. QED
  BY <1>1, <1>2, <1>3, <1>5, <1>6, <1>7, RunChecksKeep, FollowupKeeps, ReviewKeeps
     DEF InvestigationNext

\* For any checks and any answers of a model: the evidence is of distinct,
\* available checks, numbered in order, and nothing cites what is not there or
\* what was itself found on a citation (validate_check_selection,
\* validate_followup, validate_review, InvestigationAgent.execute).
THEOREM EvidenceIsSound == InvestigationSpec => []EvidenceSound
<1>1. ASSUME InquiryInv
      PROVE  EvidenceSound
  <2>1. inquiry.steps \in Seq(StepRecord)
    BY <1>1 DEF InquiryInv, InquiryOK
  <2>2. \A i \in DOMAIN inquiry.steps : \A n \in 1..(i - 1) : n < i
    BY <2>1
  <2>3. Len(inquiry.steps) <= InitialLimit + FollowupLimit
    <3>1. CASE inquiry.steps = <<>>
      BY <3>1, LimitsKnown
    <3>2. CASE inquiry.steps # <<>>
      BY <1>1, <3>2 DEF InquiryInv, InquiryOK, Progress
    <3>3. QED
      BY <3>1, <3>2
  <2>4. QED
    BY <1>1, <2>2, <2>3 DEF InquiryInv, InquiryOK, StepsSound, EvidenceSound
<1>2. QED
  BY <1>1, InquiryStarts, InquiryKeeps, PTL DEF InvestigationSpec

-----------------------------------------------------------------------------
(***************************************************************************)
(* Sources and the runs that read them.  What an agent's connection and a  *)
(* validation take from the secret or the configuration is the same for    *)
(* both; what one of them takes from the environment the other may miss.   *)
(***************************************************************************)
Settings ==
    [by : {"none", "process", "file", "secret", "configuration", "metadata", "uri"},
     server : {"none"} \cup Servers, version : Nat]

Connections == [path : Settings, account : Settings, login : Settings]

Words == {"none", "metadata", "uri", "configuration"}

ReadingRecord ==
    [connection : Connections, reference : [table : Words, query : Words, place : Words],
     rotation : Nat, rows : Nat, at : Nat, columns : Int]

SourceOK(s, x) ==
    /\ s.type \in {"sqlite", "snowflake"} /\ s.installed \in BOOLEAN /\ s.asset \in BOOLEAN
    /\ s.plain \in BOOLEAN
    /\ s.installed => x # NoInstallation
    /\ s.asset => s.installed /\ s.type = x.connector

\* A part of a connection is as validated, or it is of an environment.
PartsAgree(connection, valid) ==
    \A part \in DOMAIN connection :
        \/ valid[part].by \in {"none", "process", "file"}
        \/ connection[part] = valid[part]
        \/ \E other \in DOMAIN connection :
              valid[other].by \in {"process", "file"} /\ connection = NoConnection

ReadingOK(r, v, faithful, reference, changes, rows) ==
    /\ faithful /\ r.rotation = v.rotation => PartsAgree(r.connection, v.connection)
    /\ r.reference = reference
    /\ r.at <= changes /\ (r.at = changes => r.rows = rows)

RowsSettled(rs) == \A i, j \in DOMAIN rs : rs[i].at = rs[j].at => rs[i].rows = rs[j].rows

WarehouseInv ==
    /\ dataSource = NoSource \/ SourceOK(dataSource, installation)
    /\ validated.rotation \in Nat /\ validated.rotation <= rotation
    /\ dataSource # NoSource /\ validated.rotation = rotation =>
          validated.connection = Validation(dataSource) /\ validated.connection # NoConnection
    /\ server \in Servers \cup {"none"} /\ (server # "none" => dataSource # NoSource)
    /\ server = "none" => readings = <<>>
    /\ table \in [changes : Nat, rows : Nat]
    /\ readings \in Seq(ReadingRecord) /\ RowsSettled(readings)
    /\ \A i \in DOMAIN readings :
          ReadingOK(readings[i], validated, Faithful(dataSource), Reference(dataSource),
                    table.changes, RowsRead)

LEMMA NoConnectionIs ==
    /\ NoConnection \in Connections /\ DOMAIN NoConnection = {"path", "account", "login"}
    /\ NotSet \in Settings /\ NotSet.by = "none"
    /\ NoConnection.path = NotSet /\ NoConnection.account = NotSet
    /\ NoConnection.login = NotSet
BY DEF NoConnection, Connections, Settings, NotSet, Setting

\* Where the settings of a process come from.
LEMMA LayeredIs ==
    ASSUME ConnectorsInv, NEW p \in Servers, NEW k \in SettingKeys
    PROVE  /\ OfProcess(p)[k] \in Settings
           /\ OfProcess(p)[k].by \in {"none", "process", "file"}
           /\ Layered(p)[k] \in Settings
           /\ Layered(p)[k].by \in {"secret", "configuration"} =>
                 \A q \in Servers : Layered(q)[k] = Layered(p)[k]
           /\ Layered(p)[k].by \in {"none", "process", "file", "secret", "configuration"}
           /\ Layered(p)[k].by = "none" => Layered(p)[k] = NotSet
<1>1. /\ environment \in [Servers -> [SettingKeys -> {"unset", "set", "file"}]]
      /\ rotation \in Nat
  BY ConnectorAssumption DEF ConnectorsInv
<1>2. \A q \in Servers : /\ OfProcess(q)[k] \in Settings
                         /\ OfProcess(q)[k].by \in {"none", "process", "file"}
                         /\ OfProcess(q)[k].by = "none" => OfProcess(q)[k] = NotSet
  <2>1. ASSUME NEW q \in Servers
        PROVE  /\ OfProcess(q)[k] \in Settings
               /\ OfProcess(q)[k].by \in {"none", "process", "file"}
               /\ OfProcess(q)[k].by = "none" => OfProcess(q)[k] = NotSet
    <3>1. OfProcess(q)[k] \in {Setting("process", q, 0), Setting("file", q, 0), NotSet}
      BY DEF OfProcess
    <3>2. QED
      BY <3>1 DEF Setting, Settings, NotSet
  <2>2. QED
    BY <2>1
<1>3. \A q \in Servers :
         Layered(q)[k] =
            IF k \in DOMAIN OfCredential(q) THEN OfCredential(q)[k]
            ELSE IF k \in installation.configured THEN Setting("configuration", "none", 0)
            ELSE OfProcess(q)[k]
  BY DEF Layered
<1>4. /\ Setting("configuration", "none", 0) \in Settings
      /\ Setting("configuration", "none", 0).by = "configuration"
      /\ Setting("secret", "none", rotation) \in Settings
      /\ Setting("secret", "none", rotation).by = "secret"
  BY <1>1 DEF Setting, Settings
<1>5. CASE installation.reference.scheme = "env"
  <2>1. \A q \in Servers : /\ DOMAIN OfCredential(q) = installation.reference.names
                           /\ k \in installation.reference.names =>
                                 OfCredential(q)[k] = OfProcess(q)[k]
    BY <1>5 DEF OfCredential
  <2>2. QED
    BY <1>2, <1>3, <1>4, <2>1
<1>6. CASE installation.reference.scheme = "managed"
  <2>1. \A q \in Servers : /\ DOMAIN OfCredential(q) = secret
                           /\ k \in secret =>
                                 OfCredential(q)[k] = Setting("secret", "none", rotation)
    BY <1>6 DEF OfCredential
  <2>2. QED
    BY <1>2, <1>3, <1>4, <2>1
<1>7. CASE installation.reference.scheme \notin {"env", "managed"}
  <2>1. \A q \in Servers : DOMAIN OfCredential(q) = {}
    BY <1>7 DEF OfCredential
  <2>2. QED
    BY <1>2, <1>3, <1>4, <2>1
<1>8. QED
  BY <1>5, <1>6, <1>7

\* A warehouse is opened with the account and the login of the settings.
LEMMA SnowflakeIs ==
    ASSUME ConnectorsInv, NEW p \in Servers
    PROVE  /\ ToSnowflake(OfProcess(p)) \in Connections
           /\ ToSnowflake(Layered(p)) \in Connections
           /\ \A settings : SnowflakeOpens(settings) =>
                 /\ ToSnowflake(settings).path = NotSet
                 /\ ToSnowflake(settings).account = settings["account"]
                 /\ ToSnowflake(settings).login = settings["login"]
                 /\ DOMAIN ToSnowflake(settings) = {"path", "account", "login"}
                 /\ ToSnowflake(settings) # NoConnection
           /\ \A settings : ~SnowflakeOpens(settings) => ToSnowflake(settings) = NoConnection
<1>1. "account" \in SettingKeys /\ "login" \in SettingKeys
  BY DEF SettingKeys
<1>2. \A settings : SnowflakeOpens(settings) =>
         /\ ToSnowflake(settings).path = NotSet
         /\ ToSnowflake(settings).account = settings["account"]
         /\ ToSnowflake(settings).login = settings["login"]
         /\ DOMAIN ToSnowflake(settings) = {"path", "account", "login"}
         /\ ToSnowflake(settings) = [path |-> NotSet, account |-> settings["account"],
                                     login |-> settings["login"]]
  BY DEF ToSnowflake, NoConnection
<1>3. \A settings : ~SnowflakeOpens(settings) => ToSnowflake(settings) = NoConnection
  BY DEF ToSnowflake
<1>4. \A settings : SnowflakeOpens(settings) => settings["login"] # NotSet
  BY DEF SnowflakeOpens
<1>5. ASSUME NEW settings, settings["account"] \in Settings, settings["login"] \in Settings
      PROVE  ToSnowflake(settings) \in Connections
  <2>1. CASE SnowflakeOpens(settings)
    BY <1>2, <1>5, <2>1, NoConnectionIs DEF Connections
  <2>2. CASE ~SnowflakeOpens(settings)
    BY <1>3, <2>2, NoConnectionIs
  <2>3. QED
    BY <2>1, <2>2
<1>6. ToSnowflake(OfProcess(p)) \in Connections /\ ToSnowflake(Layered(p)) \in Connections
  BY <1>1, <1>5, LayeredIs
<1>7. QED
  BY <1>2, <1>3, <1>4, <1>6, NoConnectionIs

LEMMA FileIs ==
    \A by \in Words : ToFile(by) \in Connections /\ DOMAIN ToFile(by) = {"path", "account", "login"}
<1>1. ASSUME NEW by \in Words
      PROVE  ToFile(by) \in Connections /\ DOMAIN ToFile(by) = {"path", "account", "login"}
  <2>1. PICK setting \in Settings : setting = IF by = "none" THEN NotSet ELSE Setting(by, "none", 0)
    <3>1. CASE by = "none"
      BY <3>1, NoConnectionIs
    <3>2. CASE by # "none"
      <4>1. Setting(by, "none", 0) \in Settings
        BY <3>2 DEF Words, Setting, Settings
      <4>2. QED
        BY <3>2, <4>1
    <3>3. QED
      BY <3>1, <3>2
  <2>2. ToFile(by) = [path |-> setting, account |-> NotSet, login |-> NotSet]
    BY <2>1 DEF ToFile, NoConnection
  <2>3. QED
    BY <2>2, NoConnectionIs DEF Connections
<1>2. QED
  BY <1>1

LEMMA ReferenceIs ==
    \A s : Reference(s) \in [table : Words, query : Words, place : Words]
<1>1. ASSUME NEW s
      PROVE  Reference(s) \in [table : Words, query : Words, place : Words]
  <2>1. \A name : Told(s, name) \in Words
    BY DEF Told, Words
  <2>2. PlaceOf(s) \in Words
    BY <2>1 DEF PlaceOf, Words
  <2>3. "configuration" \in Words
    BY DEF Words
  <2>4. QED
    BY <2>1, <2>2, <2>3 DEF Reference
<1>2. QED
  BY <1>1

\* What an agent opens, case by case.
LEMMA AgentConnects ==
    ASSUME ConnectorsInv, NEW s, NEW p \in Servers
    PROVE  ForAgent(s, p) \in Connections
<1>1. Reference(s).place \in Words /\ "configuration" \in Words
  BY ReferenceIs DEF Words
<1>2. ByReference(s, p) \in Connections
  BY <1>1, FileIs, SnowflakeIs DEF ByReference
<1>3. ByInstallation(p) \in Connections
  <2>1. CASE installation.connector = "sqlite"
    BY <1>1, <2>1, FileIs DEF ByInstallation
  <2>2. CASE installation.connector = "snowflake"
    <3>1. Effective(p) = Layered(p)
      BY <2>2 DEF Effective
    <3>2. QED
      BY <2>2, <3>1, SnowflakeIs, NoConnectionIs DEF ByInstallation
  <2>3. CASE installation.connector \notin {"sqlite", "snowflake"}
    BY <2>3, NoConnectionIs DEF ByInstallation
  <2>4. QED
    BY <2>1, <2>2, <2>3
<1>4. QED
  BY <1>2, <1>3, NoConnectionIs DEF ForAgent

\* An agent and the validation of its source.
LEMMA AgentAgrees ==
    ASSUME ConnectorsInv, NEW s, SourceOK(s, installation), Faithful(s),
           Validation(s) # NoConnection, NEW p \in Servers
    PROVE  PartsAgree(ForAgent(s, p), Validation(s))
<1>1. RefersToOne(s) /\ ~s.plain
  <2>1. ~RefersToOne(s) => Validation(s) = NoConnection
    BY DEF Validation
  <2>2. ~s.plain
    BY DEF Faithful
  <2>3. QED
    BY <2>1, <2>2
<1>2. CASE s.type = "sqlite" /\ ~s.installed
  <2>1. ForAgent(s, p) = ByReference(s, p) /\ Validation(s) = ByReference(s, "api")
    BY <1>1, <1>2 DEF ForAgent, Validation
  <2>2. QED
    BY <1>2, <2>1 DEF ByReference, PartsAgree
<1>3. CASE s.type = "sqlite" /\ s.installed
  <2>1. s.asset /\ installation.connector = "sqlite"
    BY <1>3 DEF Faithful, SourceOK
  <2>2. ForAgent(s, p) = ToFile("configuration")
    BY <1>1, <1>3, <2>1 DEF ForAgent, ByInstallation
  <2>3. Validation(s) = ToFile("configuration")
    BY <1>1, <1>3, <2>1 DEF Validation, ByReference, Reference
  <2>4. QED
    BY <2>2, <2>3 DEF PartsAgree
<1>4. CASE s.type = "snowflake" /\ ~s.installed
  <2>1. Validation(s) = [path |-> NotSet, account |-> OfProcess("api")["account"],
                         login |-> OfProcess("api")["login"]]
    BY <1>1, <1>4 DEF Validation, NoConnection
  <2>2. "api" \in Servers /\ "account" \in SettingKeys /\ "login" \in SettingKeys
    BY DEF Servers, SettingKeys
  <2>3. /\ OfProcess("api")["account"].by \in {"none", "process", "file"}
        /\ OfProcess("api")["login"].by \in {"none", "process", "file"}
    BY <2>2, LayeredIs
  <2>4. DOMAIN ForAgent(s, p) = {"path", "account", "login"}
    BY AgentConnects DEF Connections
  <2>5. QED
    BY <2>1, <2>3, <2>4, NoConnectionIs DEF PartsAgree
<1>5. CASE s.type = "snowflake" /\ s.installed
  <2>1. installation.connector = "snowflake"
    BY <1>5 DEF Faithful, SourceOK
  <2>2. Effective("api") = Layered("api") /\ Effective(p) = Layered(p)
    BY <2>1 DEF Effective
  <2>3. ReferenceResolves("api") /\ Validation(s) = ToSnowflake(Layered("api"))
    BY <1>1, <1>5, <2>2 DEF Validation
  <2>4. SnowflakeOpens(Layered("api"))
    BY <2>3, SnowflakeIs DEF Servers
  <2>5. /\ Validation(s).path = NotSet
        /\ Validation(s).account = Layered("api")["account"]
        /\ Validation(s).login = Layered("api")["login"]
    BY <2>3, <2>4, SnowflakeIs DEF Servers
  <2>6. /\ "api" \in Servers /\ "account" \in SettingKeys /\ "login" \in SettingKeys
    BY DEF Servers, SettingKeys
  <2>7. /\ Layered("api")["account"].by # "none" /\ Layered("api")["login"].by # "none"
    BY <2>4, <2>6, LayeredIs DEF SnowflakeOpens, Direct
  <2>8. ForAgent(s, p) = IF ReferenceResolves(p) THEN ToSnowflake(Layered(p)) ELSE NoConnection
    BY <1>1, <1>5, <2>1, <2>2 DEF ForAgent, ByInstallation
  <2>9. DOMAIN ForAgent(s, p) = {"path", "account", "login"}
    BY AgentConnects DEF Connections
  <2>10. CASE ForAgent(s, p) = NoConnection
    <3>1. Layered("api")["account"].by \in {"process", "file"}
          \/ Layered("api")["login"].by \in {"process", "file"}
      <4>1. SUFFICES ASSUME Layered("api")["account"].by \in {"secret", "configuration"},
                            Layered("api")["login"].by \in {"secret", "configuration"}
                     PROVE  FALSE
        BY <2>6, <2>7, LayeredIs
      <4>2. /\ Layered(p)["account"] = Layered("api")["account"]
            /\ Layered(p)["login"] = Layered("api")["login"]
        BY <2>6, <4>1, LayeredIs
      <4>3. SnowflakeOpens(Layered(p))
        BY <2>4, <4>2 DEF SnowflakeOpens
      <4>4. ToSnowflake(Layered(p)) # NoConnection
        BY <4>3, SnowflakeIs
      <4>5. ~ReferenceResolves(p)
        BY <2>8, <2>10, <4>4
      <4>6. installation.reference.scheme = "env"
        BY <2>3, <4>5 DEF ReferenceResolves
      <4>7. "login" \notin installation.configured
        BY <2>1 DEF ConnectorsInv, InstallationOK, NoInstallation, Fields,
                    ConfigurationFields, ConnectorIds
      <4>8. Layered("api")["login"].by \in {"process", "file", "none"}
        <5>1. Layered("api")["login"] = OfProcess("api")["login"]
          BY <2>6, <4>6, <4>7 DEF Layered, OfCredential
        <5>2. QED
          BY <2>6, <5>1, LayeredIs
      <4>9. QED
        BY <4>1, <4>8
    <3>2. QED
      BY <2>5, <2>9, <2>10, <3>1 DEF PartsAgree
  <2>11. CASE ForAgent(s, p) # NoConnection
    <3>1. ForAgent(s, p) = ToSnowflake(Layered(p)) /\ SnowflakeOpens(Layered(p))
      BY <2>8, <2>11, SnowflakeIs
    <3>2. /\ ForAgent(s, p).path = NotSet
          /\ ForAgent(s, p).account = Layered(p)["account"]
          /\ ForAgent(s, p).login = Layered(p)["login"]
      BY <3>1, SnowflakeIs
    <3>3. \A k \in {"account", "login"} :
             Layered("api")[k].by \in {"process", "file"} \/ Layered(p)[k] = Layered("api")[k]
      BY <2>6, <2>7, LayeredIs
    <3>4. QED
      BY <2>5, <2>9, <3>2, <3>3 DEF PartsAgree
  <2>12. QED
    BY <2>10, <2>11
<1>6. QED
  BY <1>2, <1>3, <1>4, <1>5 DEF SourceOK

\* What a step of the connections leaves as it was.
LEMMA ConnectorsMove ==
    ASSUME ConnectorsInv, ConnectorsNext
    PROVE  /\ UNCHANGED environment /\ rotation \in Nat
           /\ \/ UNCHANGED <<secret, rotation>>
              \/ rotation' = rotation + 1
           /\ \/ installation = NoInstallation
              \/ /\ installation' # NoInstallation
                 /\ installation'.connector = installation.connector
                 /\ installation'.configured = installation.configured
                 /\ installation'.reference = installation.reference
<1>1. rotation \in Nat
  BY ConnectorAssumption DEF ConnectorsInv
<1>2. ASSUME NEW c \in ConnectorIds, NEW configured \in SUBSET ConfigurationFields[c],
             NEW reference \in References, Create(c, configured, reference)
      PROVE  installation = NoInstallation /\ UNCHANGED <<environment, secret, rotation>>
  BY <1>2 DEF Create
<1>3. ASSUME NEW t \in Testers, BeginTest(t)
      PROVE  UNCHANGED <<environment, installation, secret, rotation>>
  BY <1>3 DEF BeginTest
<1>4. ASSUME NEW t \in Testers, RecordHealth(t)
      PROVE  /\ UNCHANGED <<environment, secret, rotation>>
             /\ \/ installation = NoInstallation
                \/ /\ installation' # NoInstallation
                   /\ installation'.connector = installation.connector
                   /\ installation'.configured = installation.configured
                   /\ installation'.reference = installation.reference
  <2>1. PICK status \in {"ready", "setup_required"} :
           installation' = [installation EXCEPT !.status = status]
    BY <1>4 DEF RecordHealth, StatusOf
  <2>2. CASE installation # NoInstallation
    <3>1. installation \in [connector : ConnectorIds, configured : SUBSET Fields,
                            reference : References, status : {"ready", "setup_required"}]
      BY <2>2 DEF ConnectorsInv, InstallationOK
    <3>2. /\ installation'.status = status
          /\ installation'.connector = installation.connector
          /\ installation'.configured = installation.configured
          /\ installation'.reference = installation.reference
      BY <2>1, <3>1
    <3>3. installation' # NoInstallation
      BY <3>2 DEF NoInstallation
    <3>4. QED
      BY <1>4, <3>2, <3>3 DEF RecordHealth
  <2>3. QED
    BY <1>4, <2>2 DEF RecordHealth
<1>5. ASSUME NEW keys \in Secrets, Rotate(keys)
      PROVE  UNCHANGED <<environment, installation>> /\ rotation' = rotation + 1
  BY <1>5 DEF Rotate
<1>6. QED
  BY <1>1, <1>2, <1>3, <1>4, <1>5 DEF ConnectorsNext

\* A validation repeated has the same result, unless the secret was replaced.
LEMMA ValidationStays ==
    ASSUME UNCHANGED <<environment, secret, rotation, dataSource>>,
           \/ ~dataSource.installed
           \/ /\ installation'.connector = installation.connector
              /\ installation'.configured = installation.configured
              /\ installation'.reference = installation.reference
    PROVE  Validation(dataSource)' = Validation(dataSource)
<1>1. OfProcess("api")' = OfProcess("api")
  BY DEF OfProcess
<1>2. ByReference(dataSource, "api")' = ByReference(dataSource, "api")
  BY <1>1 DEF ByReference
<1>3. RefersToOne(dataSource)' <=> RefersToOne(dataSource)
  OBVIOUS
<1>4. CASE dataSource.installed
  BY <1>2, <1>3, <1>4, SameSettings DEF Validation
<1>5. CASE ~dataSource.installed
  <2>1. Complete("snowflake", OfProcess("api"))' <=> Complete("snowflake", OfProcess("api"))
    BY <1>1 DEF Complete
  <2>2. QED
    BY <1>1, <1>2, <1>3, <1>5, <2>1 DEF Validation
<1>6. QED
  BY <1>4, <1>5

LEMMA WarehouseStands ==
    ASSUME ConnectorsInv, WarehouseInv, ConnectorsNext, UNCHANGED warehouseVars
    PROVE  WarehouseInv'
<1>1. UNCHANGED <<dataSource, validated, server, table, readings>> /\ UNCHANGED RowsRead
  BY DEF warehouseVars, RowsRead
<1>2. PICK n \in Nat, m \in Nat : n = validated.rotation /\ m = rotation /\ n <= m
  BY ConnectorsMove DEF WarehouseInv
<1>3. validated'.rotation \in Nat /\ validated'.rotation <= rotation'
  BY <1>1, <1>2, ConnectorsMove
<1>4. CASE dataSource = NoSource
  <2>1. server = "none" /\ readings = <<>>
    BY <1>4 DEF WarehouseInv
  <2>2. QED
    BY <1>1, <1>3, <1>4, <2>1 DEF WarehouseInv
<1>5. CASE dataSource # NoSource
  <2>1. SourceOK(dataSource, installation)
    BY <1>5 DEF WarehouseInv
  <2>2. \/ ~dataSource.installed
        \/ /\ installation' # NoInstallation
           /\ installation'.connector = installation.connector
           /\ installation'.configured = installation.configured
           /\ installation'.reference = installation.reference
    BY <2>1, ConnectorsMove DEF SourceOK
  <2>3. SourceOK(dataSource, installation)'
    BY <1>1, <2>1, <2>2 DEF SourceOK
  <2>4. Faithful(dataSource)' => Faithful(dataSource)
    BY <1>1, <2>2 DEF Faithful
  <2>5. validated'.rotation = rotation' =>
           /\ validated'.connection = Validation(dataSource)'
           /\ validated'.connection # NoConnection
    <3>1. CASE UNCHANGED <<secret, rotation>>
      BY <1>1, <1>5, <2>2, <3>1, ConnectorsMove, ValidationStays DEF WarehouseInv
    <3>2. CASE rotation' = rotation + 1
      BY <1>1, <1>2, <3>2
    <3>3. QED
      BY <3>1, <3>2, ConnectorsMove
  <2>6. \A i \in DOMAIN readings :
           ReadingOK(readings[i], validated, Faithful(dataSource)', Reference(dataSource),
                     table.changes, RowsRead)
    BY <2>4 DEF WarehouseInv, ReadingOK
  <2>7. QED
    BY <1>1, <1>3, <1>5, <2>3, <2>5, <2>6 DEF WarehouseInv
<1>6. QED
  BY <1>4, <1>5

\* The same for a source that is registered now.
LEMMA ValidationOf ==
    ASSUME UNCHANGED connectorVars
    PROVE  /\ Validation(dataSource)' = Validation(dataSource')
           /\ Faithful(dataSource)' <=> Faithful(dataSource')
<1>1. UNCHANGED <<environment, installation, secret, rotation>>
  BY DEF connectorVars
<1>2. /\ OfProcess("api")' = OfProcess("api")
      /\ ReferenceResolves("api")' <=> ReferenceResolves("api")
      /\ Effective("api")' = Effective("api")
  BY <1>1, SameSettings
<1>3. ByReference(dataSource, "api")' = ByReference(dataSource', "api")
  BY <1>2 DEF ByReference
<1>4. Complete("snowflake", OfProcess("api"))' <=> Complete("snowflake", OfProcess("api"))
  BY <1>2 DEF Complete
<1>5. Validation(dataSource)' = Validation(dataSource')
  BY <1>2, <1>3, <1>4 DEF Validation
<1>6. Faithful(dataSource)' <=> Faithful(dataSource')
  BY <1>1 DEF Faithful
<1>7. QED
  BY <1>5, <1>6

\* A source that is registered, or validated anew for a run.
LEMMA ValidatedKeeps ==
    ASSUME ConnectorsInv, WarehouseInv, UNCHANGED connectorVars, UNCHANGED <<table, readings>>,
           server = "none", server' \in Servers \cup {"none"},
           SourceOK(dataSource', installation), Validated(dataSource')
    PROVE  WarehouseInv'
<1>1. /\ validated'.connection = Validation(dataSource') /\ validated'.rotation = rotation
      /\ Validation(dataSource') # NoConnection
  BY DEF Validated
<1>2. rotation \in Nat /\ UNCHANGED <<installation, rotation>>
  BY ConnectorAssumption DEF ConnectorsInv, connectorVars
<1>3. readings = <<>> /\ readings' = <<>>
  BY DEF WarehouseInv
<1>4. dataSource' # NoSource
  BY DEF SourceOK, NoSource
<1>5. SourceOK(dataSource, installation)'
  BY <1>2 DEF SourceOK
<1>6. readings' \in Seq(ReadingRecord) /\ RowsSettled(readings')
  BY <1>3 DEF WarehouseInv
<1>7. \A i \in DOMAIN readings' :
         ReadingOK(readings'[i], validated', Faithful(dataSource)', Reference(dataSource'),
                   table'.changes, RowsRead')
  BY <1>3
<1>8. table' \in [changes : Nat, rows : Nat]
  BY DEF WarehouseInv
<1>9. QED
  BY <1>1, <1>2, <1>3, <1>4, <1>5, <1>6, <1>7, <1>8, ValidationOf DEF WarehouseInv

\* The next agent reads.
LEMMA RowsFetched ==
    ASSUME ConnectorsInv, WarehouseInv, UNCHANGED connectorVars, FetchRows
    PROVE  WarehouseInv'
<1>1. /\ UNCHANGED <<dataSource, validated, server, table>> /\ UNCHANGED RowsRead
      /\ server # "none"
  BY DEF FetchRows, RowsRead
<1>2. rotation \in Nat /\ UNCHANGED <<installation, rotation>>
  BY ConnectorAssumption DEF ConnectorsInv, connectorVars
<1>3. dataSource # NoSource /\ server \in Servers /\ SourceOK(dataSource, installation)
  BY <1>1 DEF WarehouseInv
<1>4. RowsRead \in Nat /\ table.changes \in Nat
  BY WarehouseAssumption DEF WarehouseInv, RowsRead
<1>5. PICK r : /\ r = [connection |-> ForAgent(dataSource, server),
                       reference |-> Reference(dataSource), rotation |-> rotation,
                       rows |-> RowsRead, at |-> table.changes, columns |-> -1]
               /\ readings' = Append(readings, r)
  BY DEF FetchRows
<1>6. r \in ReadingRecord
  BY <1>2, <1>3, <1>4, <1>5, AgentConnects, ReferenceIs DEF ReadingRecord
<1>7. ReadingOK(r, validated, Faithful(dataSource), Reference(dataSource), table.changes, RowsRead)
  <2>1. r.reference = Reference(dataSource) /\ r.at = table.changes /\ r.rows = RowsRead
    BY <1>5
  <2>2. ASSUME Faithful(dataSource), r.rotation = validated.rotation
        PROVE  PartsAgree(r.connection, validated.connection)
    <3>1. /\ validated.connection = Validation(dataSource)
          /\ validated.connection # NoConnection
      BY <1>3, <1>5, <2>2 DEF WarehouseInv
    <3>2. r.connection = ForAgent(dataSource, server)
      BY <1>5
    <3>3. QED
      BY <1>3, <2>2, <3>1, <3>2, AgentAgrees
  <2>3. QED
    BY <1>4, <2>1, <2>2 DEF ReadingOK
<1>8. /\ readings \in Seq(ReadingRecord) /\ RowsSettled(readings)
      /\ \A i \in DOMAIN readings :
            ReadingOK(readings[i], validated, Faithful(dataSource), Reference(dataSource),
                      table.changes, RowsRead)
  BY DEF WarehouseInv
<1>9. /\ readings' \in Seq(ReadingRecord) /\ Len(readings) \in Nat
      /\ DOMAIN readings = 1..Len(readings) /\ DOMAIN readings' = 1..(Len(readings) + 1)
      /\ readings'[Len(readings) + 1] = r
      /\ \A i \in DOMAIN readings : readings'[i] = readings[i]
  BY ONLY <1>5, <1>6, <1>8, AppendProperties, LenProperties
<1>10. ASSUME NEW i \in DOMAIN readings'
       PROVE  /\ readings'[i] = r \/ (i \in DOMAIN readings /\ readings'[i] = readings[i])
              /\ ReadingOK(readings'[i], validated, Faithful(dataSource), Reference(dataSource),
                           table.changes, RowsRead)
  <2>1. CASE i \in DOMAIN readings
    <3>1. readings'[i] = readings[i]
      BY <1>9, <2>1
    <3>2. QED
      BY <1>8, <2>1, <3>1
  <2>2. CASE i \notin DOMAIN readings
    <3>1. i = Len(readings) + 1
      BY <1>9, <1>10, <2>2
    <3>2. readings'[i] = r
      BY ONLY <1>9, <3>1
    <3>3. QED
      BY <1>7, <3>2
  <2>3. QED
    BY <2>1, <2>2
<1>11. RowsSettled(readings')
  <2>1. SUFFICES ASSUME NEW i \in DOMAIN readings', NEW j \in DOMAIN readings',
                        readings'[i].at = readings'[j].at
                 PROVE  readings'[i].rows = readings'[j].rows
    BY DEF RowsSettled
  <2>2. CASE readings'[i].at = table.changes
    BY <1>10, <2>1, <2>2 DEF ReadingOK
  <2>3. CASE readings'[i].at # table.changes
    <3>1. r.at = table.changes
      BY <1>5
    <3>2. /\ i \in DOMAIN readings /\ readings'[i] = readings[i]
          /\ j \in DOMAIN readings /\ readings'[j] = readings[j]
      BY <1>10, <2>1, <2>3, <3>1
    <3>3. QED
      BY <1>8, <2>1, <3>2 DEF RowsSettled
  <2>4. QED
    BY <2>2, <2>3
<1>12. /\ Validation(dataSource)' = Validation(dataSource)
       /\ Faithful(dataSource)' <=> Faithful(dataSource)
       /\ Reference(dataSource)' = Reference(dataSource)
  BY <1>1, ValidationOf
<1>13. \A i \in DOMAIN readings' :
          ReadingOK(readings'[i], validated, Faithful(dataSource)', Reference(dataSource),
                    table.changes, RowsRead)
  BY <1>10, <1>12 DEF ReadingOK
<1>14. SourceOK(dataSource, installation)'
  BY <1>1, <1>2, <1>3 DEF SourceOK
<1>15. QED
  BY <1>1, <1>2, <1>3, <1>9, <1>11, <1>12, <1>13, <1>14 DEF WarehouseInv

\* What has been read is not read again: an agent asks for its columns, or the table changes.
LEMMA ColumnsAsked ==
    ASSUME ConnectorsInv, WarehouseInv, UNCHANGED connectorVars, DescribeColumns
    PROVE  WarehouseInv'
<1>1. UNCHANGED <<dataSource, validated, server, table>> /\ UNCHANGED RowsRead
  BY DEF DescribeColumns, RowsRead
<1>2. UNCHANGED <<installation, rotation>>
  BY DEF connectorVars
<1>3. PICK last : /\ last = Len(readings)
                  /\ readings' = [readings EXCEPT ![last].columns = table.changes]
  BY DEF DescribeColumns
<1>4. /\ readings \in Seq(ReadingRecord) /\ RowsSettled(readings) /\ table.changes \in Nat
      /\ \A i \in DOMAIN readings :
            ReadingOK(readings[i], validated, Faithful(dataSource), Reference(dataSource),
                      table.changes, RowsRead)
  BY DEF WarehouseInv
<1>5. /\ Len(readings) \in Nat /\ DOMAIN readings = 1..Len(readings)
      /\ readings \in [1..Len(readings) -> ReadingRecord]
  BY ONLY <1>4, LenProperties
<1>6. DOMAIN readings' = DOMAIN readings
  BY <1>3
<1>7. ASSUME NEW i \in DOMAIN readings
      PROVE  /\ readings'[i] \in ReadingRecord
             /\ readings'[i].connection = readings[i].connection
             /\ readings'[i].reference = readings[i].reference
             /\ readings'[i].rotation = readings[i].rotation
             /\ readings'[i].rows = readings[i].rows /\ readings'[i].at = readings[i].at
  <2>1. readings[i] \in ReadingRecord
    BY <1>5
  <2>2. CASE i = last
    <3>1. readings'[i] = [readings[i] EXCEPT !.columns = table.changes]
      BY <1>3, <2>2
    <3>2. PICK n \in Int : n = table.changes
      BY <1>4
    <3>3. readings'[i] = [readings[i] EXCEPT !.columns = n]
      BY <3>1, <3>2
    <3>4. QED
      BY <2>1, <3>3 DEF ReadingRecord
  <2>3. CASE i # last
    BY <1>3, <2>1, <2>3
  <2>4. QED
    BY <2>2, <2>3
<1>8. readings' \in Seq(ReadingRecord)
  <2>1. readings' \in [1..Len(readings) -> ReadingRecord]
    BY <1>3, <1>5, <1>6, <1>7
  <2>2. QED
    BY ONLY <1>5, <2>1, IsASeq
<1>9. RowsSettled(readings')
  BY <1>4, <1>6, <1>7 DEF RowsSettled
<1>10. \A i \in DOMAIN readings' :
          ReadingOK(readings'[i], validated, Faithful(dataSource), Reference(dataSource),
                    table.changes, RowsRead)
  BY <1>4, <1>6, <1>7 DEF ReadingOK
<1>11. /\ Validation(dataSource)' = Validation(dataSource)
       /\ Faithful(dataSource)' <=> Faithful(dataSource)
       /\ Reference(dataSource)' = Reference(dataSource)
  BY <1>1, ValidationOf
<1>12. \A i \in DOMAIN readings' :
          ReadingOK(readings'[i], validated, Faithful(dataSource)', Reference(dataSource),
                    table.changes, RowsRead)
  BY <1>10, <1>11 DEF ReadingOK
<1>13. (dataSource = NoSource \/ SourceOK(dataSource, installation))'
  BY <1>1, <1>2 DEF SourceOK, WarehouseInv
<1>14. server = "none" => readings' = <<>>
  <2>1. Halfway => readings # <<>>
    BY DEF Halfway
  <2>2. QED
    BY <2>1 DEF DescribeColumns, WarehouseInv
<1>15. QED
  BY <1>1, <1>2, <1>8, <1>9, <1>11, <1>12, <1>13, <1>14 DEF WarehouseInv

LEMMA TableAltered ==
    ASSUME ConnectorsInv, WarehouseInv, UNCHANGED connectorVars, NEW rows, Alter(rows)
    PROVE  WarehouseInv'
<1>1. /\ UNCHANGED <<dataSource, validated, server, readings>>
      /\ table' = [changes |-> table.changes + 1, rows |-> rows]
      /\ rows \in {table.rows, table.rows + 1}
  BY DEF Alter
<1>2. UNCHANGED <<installation, rotation>>
  BY DEF connectorVars
<1>3. /\ table.changes \in Nat /\ table.rows \in Nat /\ readings \in Seq(ReadingRecord)
      /\ \A i \in DOMAIN readings :
            ReadingOK(readings[i], validated, Faithful(dataSource), Reference(dataSource),
                      table.changes, RowsRead)
  BY DEF WarehouseInv
<1>4. table' \in [changes : Nat, rows : Nat] /\ table'.changes = table.changes + 1
  BY <1>1, <1>3
<1>5. /\ Validation(dataSource)' = Validation(dataSource)
      /\ Faithful(dataSource)' <=> Faithful(dataSource)
      /\ Reference(dataSource)' = Reference(dataSource)
  BY <1>1, ValidationOf
<1>6. ASSUME NEW i \in DOMAIN readings
      PROVE  ReadingOK(readings[i], validated, Faithful(dataSource)', Reference(dataSource),
                       table'.changes, RowsRead')
  <2>1. /\ Faithful(dataSource) /\ readings[i].rotation = validated.rotation =>
              PartsAgree(readings[i].connection, validated.connection)
        /\ readings[i].reference = Reference(dataSource)
        /\ readings[i].at <= table.changes
    BY <1>3 DEF ReadingOK
  <2>2. readings[i].at \in Nat
    <3>1. readings[i] \in ReadingRecord
      BY <1>3, ElementOfSeq, LenProperties
    <3>2. QED
      BY <3>1 DEF ReadingRecord
  <2>3. readings[i].at <= table'.changes /\ readings[i].at # table'.changes
    BY <1>3, <1>4, <2>1, <2>2
  <2>4. QED
    BY <1>5, <2>1, <2>3 DEF ReadingOK
<1>7. (dataSource = NoSource \/ SourceOK(dataSource, installation))'
  BY <1>1, <1>2 DEF SourceOK, WarehouseInv
<1>8. QED
  BY <1>1, <1>2, <1>4, <1>5, <1>6, <1>7 DEF WarehouseInv

LEMMA WarehouseStart == ASSUME ConnectorsInit, WarehouseInit PROVE WarehouseInv
<1>1. readings = <<>> /\ DOMAIN readings = {} /\ readings \in Seq(ReadingRecord)
  BY DEF WarehouseInit
<1>2. table \in [changes : Nat, rows : Nat]
  BY WarehouseAssumption DEF WarehouseInit
<1>3. /\ validated.rotation = 0 /\ rotation = 0 /\ dataSource = NoSource /\ server = "none"
  BY DEF WarehouseInit, ConnectorsInit
<1>4. QED
  BY <1>1, <1>2, <1>3 DEF WarehouseInv, RowsSettled

LEMMA WarehouseKeeps ==
    ASSUME ConnectorsInv, WarehouseInv, WarehouseNext, UNCHANGED connectorVars
    PROVE  WarehouseInv'
<1>1. ASSUME NEW extra \in SUBSET {"query"}, PublishAsset(extra)
      PROVE  WarehouseInv'
  <2>1. /\ dataSource = NoSource /\ dataSource' = AssetSource(extra) /\ Validated(dataSource')
        /\ installation.connector \in {"sqlite", "snowflake"}
        /\ UNCHANGED <<server, table, readings>>
    BY <1>1 DEF PublishAsset
  <2>2. SourceOK(dataSource', installation)
    BY <2>1 DEF SourceOK, AssetSource, NoInstallation
  <2>3. server = "none"
    BY <2>1 DEF WarehouseInv
  <2>4. QED
    BY <2>1, <2>2, <2>3, ValidatedKeeps
<1>2. ASSUME NEW s \in Posted, Post(s)
      PROVE  WarehouseInv'
  <2>1. /\ dataSource = NoSource /\ dataSource' = s /\ Validated(s)
        /\ s.installed => installation # NoInstallation
        /\ UNCHANGED <<server, table, readings>>
    BY <1>2 DEF Post
  <2>2. s \in PostedSources
    BY WarehouseAssumption
  <2>3. SourceOK(s, installation)
    BY <2>1, <2>2 DEF SourceOK, PostedSources
  <2>4. server = "none"
    BY <2>1 DEF WarehouseInv
  <2>5. QED
    BY <2>1, <2>3, <2>4, ValidatedKeeps
<1>3. ASSUME NEW p \in Servers, BeginRun(p)
      PROVE  WarehouseInv'
  <2>1. /\ dataSource # NoSource /\ server = "none" /\ Validated(dataSource)
        /\ server' = p /\ UNCHANGED <<dataSource, table, readings>>
    BY <1>3 DEF BeginRun
  <2>2. SourceOK(dataSource, installation)
    BY <2>1 DEF WarehouseInv
  <2>3. QED
    BY <2>1, <2>2, ValidatedKeeps
<1>4. QED
  BY <1>1, <1>2, <1>3, RowsFetched, ColumnsAsked, TableAltered DEF WarehouseNext

LEMMA SourcesInvariant == WarehouseSpec => [](ConnectorsInv /\ WarehouseInv)
<1>1. ConnectorsInit /\ WarehouseInit => ConnectorsInv /\ WarehouseInv
  BY ConnectorsStart, WarehouseStart
<1>2. ASSUME ConnectorsInv, WarehouseInv,
             [\/ ConnectorsNext /\ UNCHANGED warehouseVars
              \/ WarehouseNext /\ UNCHANGED connectorVars]_<<connectorVars, warehouseVars>>
      PROVE  ConnectorsInv' /\ WarehouseInv'
  <2>1. CASE ConnectorsNext /\ UNCHANGED warehouseVars
    BY <1>2, <2>1, ConnectorsKeep, WarehouseStands
  <2>2. CASE WarehouseNext /\ UNCHANGED connectorVars
    BY <1>2, <2>2, ConnectorsKeep, WarehouseKeeps
  <2>3. CASE UNCHANGED <<connectorVars, warehouseVars>>
    <3>1. UNCHANGED connectorVars /\ UNCHANGED <<dataSource, validated, server, table, readings>>
      BY <2>3 DEF warehouseVars
    <3>2. UNCHANGED <<installation, rotation, environment, secret>> /\ UNCHANGED RowsRead
      BY <3>1 DEF connectorVars, RowsRead
    <3>3. /\ Validation(dataSource)' = Validation(dataSource)
          /\ Faithful(dataSource)' <=> Faithful(dataSource)
          /\ Reference(dataSource)' = Reference(dataSource)
      BY <3>1, ValidationOf
    <3>4. SourceOK(dataSource, installation)' <=> SourceOK(dataSource, installation)
      BY <3>1, <3>2 DEF SourceOK
    <3>5. \A i \in DOMAIN readings :
             ReadingOK(readings[i], validated, Faithful(dataSource)', Reference(dataSource),
                       table.changes, RowsRead)
      BY <1>2, <3>3 DEF WarehouseInv, ReadingOK
    <3>6. WarehouseInv'
      BY <1>2, <3>1, <3>2, <3>3, <3>4, <3>5 DEF WarehouseInv
    <3>7. QED
      BY <1>2, <3>1, <3>6, ConnectorsKeep
  <2>4. QED
    BY <1>2, <2>1, <2>2, <2>3
<1>3. QED
  BY <1>1, <1>2, PTL DEF WarehouseSpec

\* Each agent of a run, in whatever process, reads through the file, the account and the
\* login that the API's validation found, unless that validation had them from its own
\* environment or the secret was replaced in between, although each of them resolves the
\* connection anew; and agents between which the table does not change have read as many rows.
THEOREM SourcesReadAsValidated == WarehouseSpec => []ReadAsValidated
<1>1. ASSUME ConnectorsInv, WarehouseInv
      PROVE  ReadAsValidated
  <2>1. /\ RowsSettled(readings) /\ readings \in Seq(ReadingRecord)
        /\ \A i \in DOMAIN readings :
              ReadingOK(readings[i], validated, Faithful(dataSource), Reference(dataSource),
                        table.changes, RowsRead)
    BY <1>1 DEF WarehouseInv
  <2>2. Len(readings) \in Nat /\ DOMAIN readings = 1..Len(readings)
    BY ONLY <2>1, LenProperties
  <2>3. ASSUME NEW i \in DOMAIN readings, Faithful(dataSource),
               readings[i].rotation = validated.rotation,
               NEW part \in DOMAIN readings[i].connection
        PROVE  \/ validated.connection[part].by \in {"none", "process", "file"}
               \/ readings[i].connection[part] = validated.connection[part]
               \/ \E other \in DOMAIN readings[i].connection :
                     /\ validated.connection[other].by \in {"process", "file"}
                     /\ ReadingFailed(readings[i])
    BY <2>1, <2>3 DEF ReadingOK, PartsAgree, ReadingFailed
  <2>4. ASSUME NEW i \in DOMAIN readings, NEW j \in 1..i,
               readings[i].at = readings[j].at
        PROVE  /\ readings[i].rows = readings[j].rows
               /\ readings[i].reference = readings[j].reference
    <3>1. j \in DOMAIN readings
      BY <2>2
    <3>2. QED
      BY <2>1, <2>4, <3>1 DEF RowsSettled, ReadingOK
  <2>5. QED
    BY <2>3, <2>4 DEF ReadAsValidated
<1>2. QED
  BY <1>1, SourcesInvariant, PTL

-----------------------------------------------------------------------------
(***************************************************************************)
(* The budget of model calls.  Sums over the requests first: a set with 0  *)
(* and with the successor of each of its numbers below N has all of them.  *)
(***************************************************************************)
LEMMA Counting ==
    ASSUME NEW N \in Nat, NEW S, 0 \in S, \A n \in 0..N : n \in S /\ n < N => n + 1 \in S
    PROVE  \A n \in 0..N : n \in S
<1>1. SUFFICES ASSUME (0..N) \ S # {} PROVE FALSE
  OBVIOUS
<1>2. (0..N) \ S \subseteq Nat
  OBVIOUS
<1>3. PICK i \in (0..N) \ S : \A k \in (0..N) \ S : i <= k
  BY <1>1, <1>2, LeastNumber
<1>4. i # 0 /\ i - 1 \in 0..N /\ i - 1 < N
  BY <1>3
<1>5. i - 1 \in S
  BY <1>3, <1>4
<1>6. (i - 1) + 1 \in S
  BY <1>4, <1>5
<1>7. QED
  BY <1>3, <1>6

Partial(g, f, n) == g = [k \in 0..n |-> IF k = 0 THEN 0 ELSE g[k - 1] + f[k]]

\* A recursion over an interval defines a function.
LEMMA SumsExist ==
    ASSUME NEW N \in Nat, NEW f
    PROVE  \E g : Partial(g, f, N)
<1> DEFINE S == {n \in 0..N : \E g : Partial(g, f, n)}
<1>1. 0 \in S
  <2>1. PICK g : g = [k \in 0..0 |-> 0]
    OBVIOUS
  <2>2. g = [k \in 0..0 |-> IF k = 0 THEN 0 ELSE g[k - 1] + f[k]]
    BY <2>1
  <2>3. QED
    BY <2>2 DEF Partial
<1>2. ASSUME NEW n \in 0..N, n \in S, n < N
      PROVE  n + 1 \in S
  <2>1. PICK g : Partial(g, f, n)
    BY <1>2
  <2>2. PICK h : h = [k \in 0..(n + 1) |-> IF k = n + 1 THEN g[n] + f[n + 1] ELSE g[k]]
    OBVIOUS
  <2>3. ASSUME NEW k \in 0..(n + 1)
        PROVE  h[k] = IF k = 0 THEN 0 ELSE h[k - 1] + f[k]
    <3>1. CASE k = n + 1
      <4>1. k # 0 /\ k - 1 = n /\ n \in 0..(n + 1) /\ n # n + 1
        BY <3>1
      <4>2. QED
        BY <2>2, <3>1, <4>1
    <3>2. CASE k # n + 1 /\ k # 0
      <4>1. k \in 0..n /\ k - 1 \in 0..(n + 1) /\ k - 1 # n + 1
        BY <3>2
      <4>2. g[k] = g[k - 1] + f[k]
        BY <2>1, <3>2, <4>1 DEF Partial
      <4>3. QED
        BY <2>2, <3>2, <4>1, <4>2
    <3>3. CASE k = 0
      <4>1. k \in 0..n /\ k # n + 1
        BY <3>3
      <4>2. g[k] = 0
        BY <2>1, <3>3, <4>1 DEF Partial
      <4>3. QED
        BY <2>2, <3>3, <4>1, <4>2
    <3>4. QED
      BY <3>1, <3>2, <3>3
  <2>4. h = [k \in 0..(n + 1) |-> IF k = 0 THEN 0 ELSE h[k - 1] + f[k]]
    BY <2>2, <2>3
  <2>5. QED
    BY <1>2, <2>4 DEF Partial
<1>3. \A n \in 0..N : n \in S
  <2>1. \A n \in 0..N : n \in S /\ n < N => n + 1 \in S
    BY <1>2
  <2> HIDE DEF S
  <2>2. QED
    BY <1>1, <2>1, Counting
<1>4. QED
  BY <1>3

LEMMA TotalIs ==
    ASSUME NEW f
    PROVE  \E g : /\ Total(f) = g[MaxRequests] /\ g[0] = 0
                  /\ \A n \in Requests : g[n] = g[n - 1] + f[n]
<1>1. MaxRequests \in Nat
  BY BudgetAssumption
<1>2. PICK h : Partial(h, f, MaxRequests)
  BY <1>1, SumsExist
<1> DEFINE upto == CHOOSE g : g = [n \in 0..MaxRequests |-> IF n = 0 THEN 0 ELSE g[n - 1] + f[n]]
<1>3. Total(f) = upto[MaxRequests]
  BY DEF Total
<1>4. upto = [n \in 0..MaxRequests |-> IF n = 0 THEN 0 ELSE upto[n - 1] + f[n]]
  BY <1>2 DEF Partial
<1> HIDE DEF upto
<1>5. upto[0] = 0
  BY <1>1, <1>4
<1>6. \A n \in Requests : n \in 0..MaxRequests /\ n # 0
  BY <1>1 DEF Requests
<1>7. \A n \in Requests : upto[n] = upto[n - 1] + f[n]
  BY <1>4, <1>6
<1>8. QED
  BY <1>3, <1>5, <1>7

Amounts == [Requests -> Nat]

LEMMA TotalNat == ASSUME NEW f \in Amounts PROVE Total(f) \in Nat
<1>1. PICK g : /\ Total(f) = g[MaxRequests] /\ g[0] = 0
               /\ \A n \in Requests : g[n] = g[n - 1] + f[n]
  BY TotalIs
<1> DEFINE S == {n \in 0..MaxRequests : g[n] \in Nat}
<1>2. MaxRequests \in Nat
  BY BudgetAssumption
<1>3. 0 \in S
  BY <1>1, <1>2
<1>4. ASSUME NEW n \in 0..MaxRequests, n \in S, n < MaxRequests
      PROVE  n + 1 \in S
  <2>1. n + 1 \in Requests /\ n + 1 \in 0..MaxRequests /\ (n + 1) - 1 = n
    BY <1>2, <1>4 DEF Requests
  <2>2. g[n + 1] = g[n] + f[n + 1]
    BY <1>1, <2>1
  <2>3. QED
    BY <1>4, <2>1, <2>2 DEF Amounts
<1>5. \A n \in 0..MaxRequests : n \in S
  <2> HIDE DEF S
  <2>1. QED
    BY <1>2, <1>3, <1>4, Counting
<1>6. QED
  BY <1>1, <1>2, <1>5

\* A sum of no more in each place is no more.
LEMMA TotalMonotone ==
    ASSUME NEW f \in Amounts, NEW h \in Amounts, \A i \in Requests : f[i] <= h[i]
    PROVE  Total(f) <= Total(h)
<1>1. PICK g : /\ Total(f) = g[MaxRequests] /\ g[0] = 0
               /\ \A n \in Requests : g[n] = g[n - 1] + f[n]
  BY TotalIs
<1>2. PICK k : /\ Total(h) = k[MaxRequests] /\ k[0] = 0
               /\ \A n \in Requests : k[n] = k[n - 1] + h[n]
  BY TotalIs
<1> DEFINE S == {n \in 0..MaxRequests : g[n] \in Nat /\ k[n] \in Nat /\ g[n] <= k[n]}
<1>3. MaxRequests \in Nat
  BY BudgetAssumption
<1>4. 0 \in S
  BY <1>1, <1>2, <1>3
<1>5. ASSUME NEW n \in 0..MaxRequests, n \in S, n < MaxRequests
      PROVE  n + 1 \in S
  <2>1. n + 1 \in Requests /\ n + 1 \in 0..MaxRequests /\ (n + 1) - 1 = n
    BY <1>3, <1>5 DEF Requests
  <2>2. g[n + 1] = g[n] + f[n + 1] /\ k[n + 1] = k[n] + h[n + 1]
    BY <1>1, <1>2, <2>1
  <2>3. f[n + 1] \in Nat /\ h[n + 1] \in Nat /\ f[n + 1] <= h[n + 1]
    BY <2>1 DEF Amounts
  <2>4. QED
    BY <1>5, <2>1, <2>2, <2>3
<1>6. \A n \in 0..MaxRequests : n \in S
  <2> HIDE DEF S
  <2>1. QED
    BY <1>3, <1>4, <1>5, Counting
<1>7. QED
  BY <1>1, <1>2, <1>3, <1>6

\* A sum changes by what one amount changes.
LEMMA TotalChanges ==
    ASSUME NEW f \in Amounts, NEW h \in Amounts, NEW i \in Requests,
           \A j \in Requests : j # i => f[j] = h[j]
    PROVE  Total(h) + f[i] = Total(f) + h[i]
<1>1. PICK g : /\ Total(f) = g[MaxRequests] /\ g[0] = 0
               /\ \A n \in Requests : g[n] = g[n - 1] + f[n]
  BY TotalIs
<1>2. PICK k : /\ Total(h) = k[MaxRequests] /\ k[0] = 0
               /\ \A n \in Requests : k[n] = k[n - 1] + h[n]
  BY TotalIs
<1> DEFINE S == {n \in 0..MaxRequests :
                    /\ g[n] \in Nat /\ k[n] \in Nat
                    /\ IF n < i THEN g[n] = k[n] ELSE k[n] + f[i] = g[n] + h[i]}
<1>3. MaxRequests \in Nat /\ i \in Nat /\ 0 < i /\ i <= MaxRequests
  BY BudgetAssumption DEF Requests
<1>4. 0 \in S
  BY <1>1, <1>2, <1>3
<1>5. ASSUME NEW n \in 0..MaxRequests, n \in S, n < MaxRequests
      PROVE  n + 1 \in S
  <2>1. n + 1 \in Requests /\ n + 1 \in 0..MaxRequests /\ (n + 1) - 1 = n
    BY <1>3, <1>5 DEF Requests
  <2>2. g[n + 1] = g[n] + f[n + 1] /\ k[n + 1] = k[n] + h[n + 1]
    BY <1>1, <1>2, <2>1
  <2>3. f[n + 1] \in Nat /\ h[n + 1] \in Nat /\ f[i] \in Nat /\ h[i] \in Nat
    BY <2>1 DEF Amounts
  <2>4. CASE n + 1 = i
    BY <1>3, <1>5, <2>1, <2>2, <2>3, <2>4
  <2>5. CASE n + 1 # i
    <3>1. f[n + 1] = h[n + 1]
      BY <2>1, <2>5
    <3>2. QED
      BY <1>3, <1>5, <2>1, <2>2, <2>3, <2>5, <3>1
  <2>6. QED
    BY <2>4, <2>5
<1>6. \A n \in 0..MaxRequests : n \in S
  <2> HIDE DEF S
  <2>1. QED
    BY <1>3, <1>4, <1>5, Counting
<1>7. QED
  BY <1>1, <1>2, <1>3, <1>6

LEMMA TotalOfNothing == Total([i \in Requests |-> 0]) = 0
<1> DEFINE f == [i \in Requests |-> 0]
<1>1. PICK g : /\ Total(f) = g[MaxRequests] /\ g[0] = 0
               /\ \A n \in Requests : g[n] = g[n - 1] + f[n]
  BY TotalIs
<1> DEFINE S == {n \in 0..MaxRequests : g[n] = 0}
<1>2. MaxRequests \in Nat
  BY BudgetAssumption
<1>3. 0 \in S
  BY <1>1, <1>2
<1>4. ASSUME NEW n \in 0..MaxRequests, n \in S, n < MaxRequests
      PROVE  n + 1 \in S
  <2>1. n + 1 \in Requests /\ n + 1 \in 0..MaxRequests /\ (n + 1) - 1 = n
    BY <1>2, <1>4 DEF Requests
  <2>2. g[n + 1] = g[n] + 0
    BY <1>1, <2>1
  <2>3. QED
    BY <1>4, <2>1, <2>2
<1>5. \A n \in 0..MaxRequests : n \in S
  <2> HIDE DEF S
  <2>1. QED
    BY <1>2, <1>3, <1>4, Counting
<1>6. QED
  BY <1>1, <1>2, <1>5

-----------------------------------------------------------------------------
\* What a request costs, by the lines of the ledger.
LEMMA CostNat ==
    ASSUME lines \in Seq(Line), NEW i, NEW m
    PROVE  CostOf(i, m) \in Nat
<1>1. CASE Last(i, m) = {}
  BY <1>1 DEF CostOf
<1>2. CASE Last(i, m) # {}
  <2>1. PICK k \in Last(i, m) : k = CHOOSE l \in Last(i, m) : TRUE
    BY <1>2
  <2>2. lines[k] \in Line
    BY <2>1, ElementOfSeq, LenProperties DEF Last
  <2>3. QED
    BY <1>2, <2>1, <2>2 DEF CostOf, Line
<1>3. QED
  BY <1>1, <1>2

\* A line that is added speaks last for its request, if it is whole.
LEMMA LineAdded ==
    ASSUME lines \in Seq(Line), NEW x \in Line, lines' = Append(lines, x), NEW i, NEW m
    PROVE  CostOf(i, m)' =
             IF x.whole /\ x.month = m /\ x.id = i THEN x.cost ELSE CostOf(i, m)
<1>0. PICK n \in Nat : n = Len(lines)
  BY LenProperties
<1>1. /\ n \in Nat /\ DOMAIN lines = 1..n /\ DOMAIN lines' = 1..(n + 1)
      /\ lines'[n + 1] = x /\ \A k \in 1..n : lines'[k] = lines[k]
  BY <1>0, AppendProperties, LenProperties
<1>2. \A k \in 1..n : Tells(k, i, m)' <=> Tells(k, i, m)
  BY <1>1 DEF Tells
<1>3. Tells(n + 1, i, m)' <=> x.whole /\ x.month = m /\ x.id = i
  BY <1>1 DEF Tells
<1>4. \A k \in 1..n : k \in 1..(n + 1) /\ n + 1 > k /\ n + 1 # k
  BY <1>1
<1>5. \A k \in 1..(n + 1) : k \in 1..n \/ k = n + 1
  BY <1>1
<1>6. ~(n + 1 > n + 1) /\ n + 1 \in 1..(n + 1) /\ \A k \in 1..n : ~(k > n + 1)
  BY <1>1
<1>7. CASE Tells(n + 1, i, m)'
  <2>1. \A k : k \in Last(i, m)' <=> k = n + 1
    BY <1>1, <1>4, <1>5, <1>6, <1>7 DEF Last
  <2>2. Last(i, m)' = {n + 1}
    BY <2>1
  <2>3. (CHOOSE k \in Last(i, m) : TRUE)' = n + 1
    BY <2>2
  <2>4. QED
    BY <1>1, <1>3, <1>7, <2>2, <2>3 DEF CostOf
<1>8. CASE ~Tells(n + 1, i, m)'
  <2>1. \A k : k \in Last(i, m)' <=> k \in Last(i, m)
    BY <1>1, <1>2, <1>4, <1>5, <1>6, <1>8 DEF Last
  <2>2. Last(i, m)' = Last(i, m)
    BY <2>1
  <2>3. CASE Last(i, m) = {}
    BY <1>3, <1>8, <2>2, <2>3 DEF CostOf
  <2>4. CASE Last(i, m) # {}
    <3>1. PICK k \in Last(i, m) : k = CHOOSE l \in Last(i, m) : TRUE
      BY <2>4
    <3>2. k \in 1..n
      BY <1>1, <3>1 DEF Last
    <3>3. lines'[k] = lines[k]
      BY <1>1, <3>2
    <3>4. CostOf(i, m) = lines[k].cost
      BY <2>4, <3>1 DEF CostOf
    <3>5. CostOf(i, m)' = lines'[k].cost
      BY <2>2, <2>4, <3>1 DEF CostOf
    <3>6. QED
      BY <1>3, <1>8, <3>3, <3>4, <3>5
  <2>5. QED
    BY <2>3, <2>4
<1>9. QED
  BY <1>7, <1>8

LEMMA LedgerWritten ==
    ASSUME lines \in Seq(Line), NEW id \in Requests, NEW m \in 1..MaxMonths, NEW cost \in Nat,
           NEW whole \in BOOLEAN, Written(id, m, cost, whole)
    PROVE  lines' \in Seq(Line) /\ (Verified' => Verified /\ whole = TRUE)
<1>1. CASE BrokenEnd
  <2>1. lines' = lines
    BY <1>1 DEF Written
  <2>2. Len(lines) \in DOMAIN lines
    BY <1>1, LenProperties, EmptySeq DEF BrokenEnd
  <2>3. ~Verified'
    BY <1>1, <2>1, <2>2 DEF Verified, BrokenEnd
  <2>4. QED
    BY <2>1, <2>3
<1>2. CASE ~BrokenEnd
  <2>1. PICK x \in Line : /\ x = [whole |-> whole, id |-> id, month |-> m, cost |-> cost]
                          /\ lines' = Append(lines, x)
    BY <1>2 DEF Written, Line
  <2>2. PICK n \in Nat : n = Len(lines)
    BY LenProperties
  <2>3. /\ lines' \in Seq(Line) /\ DOMAIN lines = 1..n /\ DOMAIN lines' = 1..(n + 1)
        /\ lines'[n + 1] = x /\ \A k \in 1..n : lines'[k] = lines[k]
    BY <2>1, <2>2, AppendProperties, LenProperties
  <2>4. QED
    BY <2>1, <2>2, <2>3 DEF Verified
<1>3. QED
  BY <1>1, <1>2

LEMMA LedgerTells ==
    ASSUME lines \in Seq(Line), NEW id \in Requests, NEW m \in 1..MaxMonths, NEW cost \in Nat,
           NEW whole \in BOOLEAN, Written(id, m, cost, whole), Verified', NEW i, NEW mm
    PROVE  CostOf(i, mm)' = IF mm = m /\ i = id THEN cost ELSE CostOf(i, mm)
<1>1. ~BrokenEnd
  <2>1. SUFFICES ASSUME BrokenEnd PROVE FALSE
    OBVIOUS
  <2>2. lines' = lines
    BY <2>1 DEF Written
  <2>3. Len(lines) \in DOMAIN lines
    BY <2>1, LenProperties, EmptySeq DEF BrokenEnd
  <2>4. QED
    BY <2>1, <2>2, <2>3 DEF Verified, BrokenEnd
<1>2. PICK x \in Line : /\ x = [whole |-> whole, id |-> id, month |-> m, cost |-> cost]
                        /\ lines' = Append(lines, x)
  BY <1>1 DEF Written, Line
<1>3. CostOf(i, mm)' = IF x.whole /\ x.month = mm /\ x.id = i THEN x.cost ELSE CostOf(i, mm)
  BY <1>2, LineAdded
<1>4. x.whole /\ x.id = id /\ x.month = m /\ x.cost = cost
  BY <1>2, LedgerWritten
<1>5. QED
  BY <1>3, <1>4

-----------------------------------------------------------------------------
\* A session has not spent more than it has booked, and one that calls has a request of its
\* own that nobody else has and nothing was sent for.
SessionRecord ==
    [pc : {"idle", "calling", "called"}, calls : 0..MaxCalls, spent : Nat,
     id : 0..MaxRequests, reserved : Nat, month : 1..MaxMonths, own : SUBSET Requests]
SentRecord == [month : 0..MaxMonths, reserved : Nat, charge : Nat]

ForeseenOf(x) == IF x.charge < x.reserved THEN x.charge ELSE x.reserved
Part(send, own) == [i \in Requests |-> IF i \in own THEN ForeseenOf(send[i]) ELSE 0]

CallOK(x, send, total) ==
    \/ x.pc = "idle" /\ total <= x.spent /\ Cardinality(x.own) <= x.calls
    \/ /\ x.pc = "calling" /\ send[x.id].month = 0
       /\ total + x.reserved <= x.spent /\ x.spent <= RunCap
       /\ Cardinality(x.own) + 1 <= x.calls
    \/ /\ x.pc = "called" /\ x.id \in x.own
       /\ send[x.id].month = x.month /\ send[x.id].reserved = x.reserved
       /\ total + x.reserved <= x.spent + ForeseenOf(send[x.id]) /\ x.spent <= RunCap
       /\ Cardinality(x.own) <= x.calls

SessionOK(x, send, req) ==
    /\ x.pc # "idle" => x.id \in 1..req
    /\ \A i \in x.own : send[i].month # 0
    /\ CallOK(x, send, Total(Part(send, x.own)))
    /\ Total(Part(send, x.own)) <= RunCap

Apart(x, y) == x.pc = "idle" \/ y.pc = "idle" \/ x.id # y.id

\* Of the budget of a month, each request has a share: what is sent or will be sent for it,
\* and what the ledger has booked, as long as it can be read.
Shares == [1..MaxMonths -> Amounts]

Covers(w) ==
    \A m \in 1..MaxMonths :
        /\ Total(w[m]) <= MonthlyCap
        /\ \A i \in Requests :
              /\ sent[i].month = m => Foreseen(i) <= w[m][i]
              /\ Verified => w[m][i] <= CostOf(i, m)
              /\ i > requests => w[m][i] = 0
        /\ \A s \in Sessions :
              sessions[s].pc = "calling" /\ sessions[s].month = m =>
                  sessions[s].reserved <= w[m][sessions[s].id]

BudgetTypes ==
    /\ lines \in Seq(Line)
    /\ sessions \in [Sessions -> SessionRecord]
    /\ requests \in 0..MaxRequests /\ month \in 1..MaxMonths
    /\ sent \in [Requests -> SentRecord]

BudgetInv ==
    /\ BudgetTypes
    /\ \A i \in Requests : sent[i].month # 0 => i <= requests
    /\ \A s \in Sessions : SessionOK(sessions[s], sent, requests)
    /\ \A s, t \in Sessions : s # t => Apart(sessions[s], sessions[t])
    /\ \E w \in Shares : Covers(w)

LEMMA ForeseenNat ==
    /\ \A x \in SentRecord : ForeseenOf(x) \in Nat /\ ForeseenOf(x) <= x.reserved
                             /\ ForeseenOf(x) <= x.charge
    /\ \A i : Foreseen(i) = ForeseenOf(sent[i])
BY DEF ForeseenOf, Foreseen, SentRecord

LEMMA PartNat ==
    ASSUME NEW send \in [Requests -> SentRecord], NEW own
    PROVE  Part(send, own) \in Amounts
BY ForeseenNat DEF Part, Amounts

\* A session is as it was when something is sent for another.
LEMMA SessionStays ==
    ASSUME NEW x \in SessionRecord, NEW send \in [Requests -> SentRecord],
           NEW send2 \in [Requests -> SentRecord], NEW req \in Nat, NEW req2 \in Nat,
           req <= req2, NEW j, j \notin x.own, x.pc # "idle" => x.id # j,
           \A i \in Requests : i # j => send2[i] = send[i],
           req <= MaxRequests, SessionOK(x, send, req)
    PROVE  SessionOK(x, send2, req2)
<1>1. x.own \subseteq Requests
  BY DEF SessionRecord
<1>2. Part(send2, x.own) = Part(send, x.own)
  BY <1>1 DEF Part
<1>3. x.pc # "idle" => x.id \in Requests /\ x.id \in 1..req2 /\ send2[x.id] = send[x.id]
  BY BudgetAssumption DEF SessionOK, Requests
<1>4. \A i \in x.own : send2[i] = send[i]
  BY <1>1
<1>5. CallOK(x, send2, Total(Part(send2, x.own)))
  BY <1>2, <1>3 DEF SessionOK, CallOK
<1>6. QED
  BY <1>2, <1>3, <1>4, <1>5 DEF SessionOK

LEMMA OwnFinite ==
    ASSUME NEW own \in SUBSET Requests
    PROVE  IsFiniteSet(own) /\ Cardinality(own) \in Nat
<1>1. IsFiniteSet(Requests)
  BY BudgetAssumption, FS_Interval DEF Requests
<1>2. IsFiniteSet(own)
  BY <1>1, FS_Subset
<1>3. QED
  BY <1>2, FS_CardinalityType

\* What is Covers for a session that has changed to one that calls for nothing new.
LEMMA SharesStand ==
    ASSUME NEW w \in Shares, Covers(w), UNCHANGED <<sent, requests>>,
           Verified' => Verified /\ \A i \in Requests, m \in 1..MaxMonths :
                                       CostOf(i, m)' = CostOf(i, m),
           \A s \in Sessions : sessions'[s].pc = "calling" => sessions'[s] = sessions[s]
    PROVE  Covers(w)'
<1>1. ASSUME NEW m \in 1..MaxMonths, NEW i \in Requests
      PROVE  /\ (sent[i].month)' = m => Foreseen(i)' <= w[m][i]
             /\ Verified' => w[m][i] <= CostOf(i, m)'
             /\ i > requests' => w[m][i] = 0
  <2>1. Foreseen(i)' = Foreseen(i)
    BY DEF Foreseen
  <2>2. QED
    BY <2>1 DEF Covers
<1>2. ASSUME NEW m \in 1..MaxMonths, NEW s \in Sessions,
             sessions'[s].pc = "calling", sessions'[s].month = m
      PROVE  sessions'[s].reserved <= w[m][sessions'[s].id]
  BY <1>2 DEF Covers
<1>3. \A m \in 1..MaxMonths : Total(w[m]) <= MonthlyCap
  BY DEF Covers
<1>4. QED
  BY <1>1, <1>2, <1>3 DEF Covers

\* A request is admitted: the ledger, which can be read, has room for it.
LEMMA ShareGiven ==
    ASSUME BudgetTypes, NEW w \in Shares, Covers(w), NEW s \in Sessions,
           NEW estimate \in Nat, estimate + Booked(month) <= MonthlyCap, Verified,
           requests < MaxRequests, requests' = requests + 1, UNCHANGED sent,
           Written(requests + 1, month, estimate, TRUE),
           sessions'[s].id = requests + 1, sessions'[s].reserved = estimate,
           sessions'[s].month = month,
           \A t \in Sessions : t # s => sessions'[t] = sessions[t],
           \A t \in Sessions : sessions[t].pc = "calling" => sessions[t].id <= requests
    PROVE  \E v \in Shares : Covers(v)'
<1>1. PICK new : new = requests + 1
  OBVIOUS
<1>2. /\ month \in 1..MaxMonths /\ requests \in Nat /\ lines \in Seq(Line)
      /\ new \in Requests /\ new > requests
  BY <1>1, BudgetAssumption DEF BudgetTypes, Requests
<1>3. PICK mo \in 1..MaxMonths : mo = month
  BY <1>2
<1>4. PICK v : v = [w EXCEPT ![mo] = [w[mo] EXCEPT ![new] = estimate]]
  OBVIOUS
<1>5. /\ v \in Shares /\ w[mo] \in Amounts
      /\ \A m \in 1..MaxMonths : m # mo => v[m] = w[m]
      /\ v[mo] = [w[mo] EXCEPT ![new] = estimate] /\ v[mo][new] = estimate
      /\ \A i \in Requests : i # new => v[mo][i] = w[mo][i]
  BY <1>2, <1>4 DEF Shares, Amounts
<1>6. \A m \in 1..MaxMonths : w[m][new] = 0
  BY <1>2 DEF Covers
<1>7. PICK costs \in Amounts : costs = [i \in Requests |-> CostOf(i, mo)]
  BY <1>2, CostNat DEF Amounts
<1>8. Total(v[mo]) <= MonthlyCap
  <2>1. \A i \in Requests : w[mo][i] <= costs[i]
    BY <1>7 DEF Covers
  <2>2. Total(w[mo]) <= Total(costs)
    BY <1>5, <2>1, TotalMonotone
  <2>3. Total(v[mo]) + w[mo][new] = Total(w[mo]) + v[mo][new]
    <3>1. v[mo] \in Amounts
      BY <1>5 DEF Shares
    <3>2. QED
      BY <1>2, <1>5, <3>1, TotalChanges
  <2>4. Total(v[mo]) \in Nat /\ Total(w[mo]) \in Nat /\ Total(costs) \in Nat
    BY <1>5, <1>7, TotalNat DEF Shares
  <2>5. Booked(month) = Total(costs)
    BY <1>3, <1>7 DEF Booked
  <2>6. QED
    BY <1>5, <1>6, <2>2, <2>3, <2>4, <2>5, BudgetAssumption
<1>9. Verified' => \A i \in Requests, m \in 1..MaxMonths :
         CostOf(i, m)' = IF m = mo /\ i = new THEN estimate ELSE CostOf(i, m)
  <2>1. PICK whole \in BOOLEAN : whole = TRUE
    OBVIOUS
  <2>2. Written(new, mo, estimate, whole)
    BY <1>1, <1>3, <2>1
  <2>3. ASSUME Verified', NEW i \in Requests, NEW m \in 1..MaxMonths
        PROVE  CostOf(i, m)' = IF m = mo /\ i = new THEN estimate ELSE CostOf(i, m)
    <3>1. lines \in Seq(Line) /\ new \in Requests /\ mo \in 1..MaxMonths /\ estimate \in Nat /\ whole \in BOOLEAN
      BY <1>2, <1>3, <2>1
    <3>2. QED
      BY ONLY <3>1, <2>2, <2>3, LedgerTells
  <2>4. QED
    BY <2>3
<1>10. ASSUME NEW m \in 1..MaxMonths
       PROVE  /\ Total(v[m]) <= MonthlyCap
              /\ \A i \in Requests :
                    /\ (sent[i].month)' = m => Foreseen(i)' <= v[m][i]
                    /\ Verified' => v[m][i] <= CostOf(i, m)'
                    /\ i > requests' => v[m][i] = 0
              /\ \A t \in Sessions :
                    sessions'[t].pc = "calling" /\ sessions'[t].month = m =>
                        sessions'[t].reserved <= v[m][sessions'[t].id]
  <2>1. Total(v[m]) <= MonthlyCap
    BY <1>5, <1>8 DEF Covers
  <2>2. ASSUME NEW i \in Requests
        PROVE  /\ (sent[i].month)' = m => Foreseen(i)' <= v[m][i]
               /\ Verified' => v[m][i] <= CostOf(i, m)'
               /\ i > requests' => v[m][i] = 0
    <3>1. Foreseen(i)' = Foreseen(i) /\ (sent[i].month)' = sent[i].month
      BY DEF Foreseen
    <3>2. CASE m = mo /\ i = new
      <4>1. v[m][i] = estimate /\ w[m][i] = 0
        BY <1>5, <1>6, <3>2
      <4>2. Foreseen(i) \in Nat
        BY ForeseenNat DEF BudgetTypes
      <4>3. sent[i].month = m => Foreseen(i) <= estimate
        BY <4>1, <4>2 DEF Covers
      <4>4. QED
        BY <1>1, <1>2, <1>9, <3>1, <3>2, <4>1, <4>3
    <3>3. CASE ~(m = mo /\ i = new)
      <4>1. v[m][i] = w[m][i]
        BY <1>5, <3>3
      <4>2. Verified' => CostOf(i, m)' = CostOf(i, m)
        BY <1>9, <3>3
      <4>3. i > requests' => i > requests
        BY <1>2 DEF Requests
      <4>4. QED
        BY <3>1, <4>1, <4>2, <4>3 DEF Covers
    <3>4. QED
      BY <3>2, <3>3
  <2>3. ASSUME NEW t \in Sessions, sessions'[t].pc = "calling", sessions'[t].month = m
        PROVE  sessions'[t].reserved <= v[m][sessions'[t].id]
    <3>1. CASE t = s
      <4>1. m = mo /\ sessions'[t].id = new /\ sessions'[t].reserved = estimate
        BY <1>1, <1>3, <2>3, <3>1
      <4>2. v[m][new] = estimate
        BY <1>5, <4>1
      <4>3. QED
        BY <4>1, <4>2
    <3>2. CASE t # s
      <4>1. sessions'[t] = sessions[t] /\ sessions[t].id <= requests
        BY <2>3, <3>2
      <4>2. sessions[t].id # new /\ sessions[t].id \in Nat
        BY <1>2, <4>1, SMTT(30) DEF BudgetTypes, SessionRecord
      <4>3. sessions[t].reserved <= w[m][sessions[t].id]
        BY <2>3, <4>1 DEF Covers
      <4>4. v[m][sessions[t].id] = w[m][sessions[t].id]
        BY <1>4, <1>5, <4>2 DEF Shares, Amounts
      <4>5. QED
        BY <4>1, <4>3, <4>4
    <3>3. QED
      BY <3>1, <3>2
  <2>4. QED
    BY <2>1, <2>2, <2>3
<1>11. Covers(v)'
  BY <1>10 DEF Covers
<1>12. QED
  BY <1>5, <1>11

\* A session that has nothing to do with the request j and with what another one has become.
Elsewhere(y, x, j) ==
    j \notin y.own /\ (y.pc # "idle" => y.id # j) /\ Apart(y, x)

\* A session has changed, and perhaps what was sent for its request.
LEMMA SessionsStand ==
    ASSUME BudgetInv, NEW s \in Sessions, NEW x \in SessionRecord,
           sessions' = [sessions EXCEPT ![s] = x], SessionOK(x, sent', requests'),
           requests' \in 0..MaxRequests, requests <= requests',
           sent' \in [Requests -> SentRecord], NEW j,
           \A i \in Requests : i # j => sent'[i] = sent[i],
           \A t \in Sessions : t # s => Elsewhere(sessions[t], x, j)
    PROVE  /\ sessions' \in [Sessions -> SessionRecord]
           /\ \A t \in Sessions : SessionOK(sessions'[t], sent', requests')
           /\ \A t, u \in Sessions : t # u => Apart(sessions'[t], sessions'[u])
<1>1. /\ sessions \in [Sessions -> SessionRecord] /\ requests \in Nat /\ requests <= MaxRequests
      /\ sent \in [Requests -> SentRecord] /\ requests' \in Nat
  BY BudgetAssumption DEF BudgetInv, BudgetTypes
<1>2. sessions'[s] = x /\ \A t \in Sessions : t # s => sessions'[t] = sessions[t]
  BY <1>1
<1>3. sessions' \in [Sessions -> SessionRecord]
  BY <1>1
<1>4. ASSUME NEW t \in Sessions
      PROVE  SessionOK(sessions'[t], sent', requests')
  <2>1. CASE t = s
    BY <1>2, <2>1
  <2>2. CASE t # s
    <3>1. /\ sessions'[t] = sessions[t] /\ sessions[t] \in SessionRecord
          /\ SessionOK(sessions[t], sent, requests)
      BY <1>1, <1>2, <2>2 DEF BudgetInv
    <3>2. j \notin sessions[t].own /\ (sessions[t].pc # "idle" => sessions[t].id # j)
      BY <2>2 DEF Elsewhere
    <3>3. SessionOK(sessions[t], sent', requests')
      BY <1>1, <3>1, <3>2, SessionStays
    <3>4. QED
      BY <3>1, <3>3
  <2>3. QED
    BY <2>1, <2>2
<1>5. ASSUME NEW t \in Sessions, NEW u \in Sessions, t # u
      PROVE  Apart(sessions'[t], sessions'[u])
  <2>1. CASE t # s /\ u # s
    BY <1>2, <1>5, <2>1 DEF BudgetInv
  <2>2. CASE t = s
    BY <1>2, <1>5, <2>2 DEF Apart, Elsewhere
  <2>3. CASE u = s
    BY <1>2, <1>5, <2>3 DEF Apart, Elsewhere
  <2>4. QED
    BY <2>1, <2>2, <2>3
<1>6. QED
  BY <1>3, <1>4, <1>5

\* A session becomes idle, or a new one, or what it was.
LEMMA IdleStands ==
    ASSUME BudgetInv, NEW s \in Sessions, NEW x \in SessionRecord,
           sessions' = [sessions EXCEPT ![s] = x], x.pc = "idle", SessionOK(x, sent, requests),
           requests' \in 0..MaxRequests, requests <= requests', UNCHANGED sent
    PROVE  /\ sessions' \in [Sessions -> SessionRecord]
           /\ \A t \in Sessions : SessionOK(sessions'[t], sent', requests')
           /\ \A t, u \in Sessions : t # u => Apart(sessions'[t], sessions'[u])
           /\ \A t \in Sessions : sessions'[t].pc = "calling" => sessions'[t] = sessions[t]
<1>1. /\ sessions \in [Sessions -> SessionRecord] /\ requests \in Nat
      /\ sent \in [Requests -> SentRecord] /\ requests' \in Nat
  BY BudgetAssumption DEF BudgetInv, BudgetTypes
<1>2. 0 \notin Requests /\ 0 \notin 1..requests
  BY <1>1, BudgetAssumption DEF Requests
<1>3. \A t \in Sessions : 0 \notin sessions[t].own /\ (sessions[t].pc # "idle" => sessions[t].id # 0)
  BY <1>1, <1>2 DEF BudgetInv, SessionOK, SessionRecord
<1>4. SessionOK(x, sent', requests')
  BY DEF SessionOK
<1>5. \A t \in Sessions : sessions'[t].pc = "calling" => sessions'[t] = sessions[t]
  BY <1>1
<1>6. PICK j : j = 0
  OBVIOUS
<1>7. \A t \in Sessions : t # s => Elsewhere(sessions[t], x, j)
  BY <1>3, <1>6 DEF Elsewhere, Apart
<1>8. sent' \in [Requests -> SentRecord] /\ \A i \in Requests : i # j => sent'[i] = sent[i]
  BY <1>1
<1>9. QED
  BY <1>4, <1>5, <1>7, <1>8, SessionsStand

LEMMA FreshIs ==
    ASSUME BudgetTypes
    PROVE  Fresh \in SessionRecord /\ SessionOK(Fresh, sent, requests)
<1>1. Fresh \in SessionRecord
  BY BudgetAssumption DEF Fresh, SessionRecord
<1>2. Part(sent, Fresh.own) = [i \in Requests |-> 0]
  BY DEF Part, Fresh
<1>3. Total(Part(sent, Fresh.own)) = 0
  BY <1>2, TotalOfNothing
<1>4. Cardinality(Fresh.own) = 0
  BY FS_EmptySet DEF Fresh
<1>5. QED
  BY <1>1, <1>3, <1>4, BudgetAssumption DEF SessionOK, CallOK, Fresh

LEMMA BeginKeeps ==
    ASSUME BudgetInv, NEW s \in Sessions, NEW estimate \in Estimates, Begin(s, estimate)
    PROVE  BudgetInv'
<1>1. /\ sessions[s].pc = "idle" /\ requests < MaxRequests /\ sessions[s].calls < MaxCalls
      /\ sessions[s].spent + estimate <= RunCap
      /\ Verified /\ Booked(month) + estimate <= MonthlyCap
      /\ requests' = requests + 1 /\ UNCHANGED <<month, sent>>
      /\ Written(requests + 1, month, estimate, TRUE)
  BY DEF Begin, Admitted
<1>2. /\ sessions \in [Sessions -> SessionRecord] /\ requests \in Nat /\ requests <= MaxRequests
      /\ sent \in [Requests -> SentRecord] /\ month \in 1..MaxMonths
      /\ estimate \in Nat /\ requests' \in 0..MaxRequests /\ lines \in Seq(Line)
  BY <1>1, BudgetAssumption DEF BudgetInv, BudgetTypes
<1>3. PICK me \in SessionRecord : me = sessions[s]
  BY <1>2
<1>4. PICK x : x = [pc |-> "calling", calls |-> me.calls + 1, spent |-> me.spent + estimate,
                    id |-> requests + 1, reserved |-> estimate, month |-> month, own |-> me.own]
  OBVIOUS
<1>5. sessions' = [sessions EXCEPT ![s] = x]
  BY <1>3, <1>4 DEF Begin
<1>6. /\ x \in SessionRecord /\ x.pc = "calling" /\ x.own = me.own /\ x.id = requests + 1
      /\ x.reserved = estimate /\ x.month = month
      /\ x.spent = me.spent + estimate /\ x.calls = me.calls + 1
  <2>1. /\ me.calls + 1 \in 0..MaxCalls /\ me.spent + estimate \in Nat
        /\ requests + 1 \in 0..MaxRequests /\ me.own \in SUBSET Requests
    BY <1>1, <1>2, <1>3, BudgetAssumption, SMTT(30) DEF SessionRecord
  <2>2. QED
    BY <1>2, <1>4, <2>1 DEF SessionRecord
<1>7. SessionOK(me, sent, requests) /\ me.own \in SUBSET Requests
  BY <1>3 DEF BudgetInv, SessionRecord
<1>8. SessionOK(x, sent', requests')
  <2>1. Total(Part(sent, me.own)) \in Nat /\ Cardinality(me.own) \in Nat
    BY <1>2, <1>7, PartNat, TotalNat, OwnFinite
  <2>2. sent[requests + 1].month = 0
    <3>1. requests + 1 \in Requests /\ ~(requests + 1 <= requests)
      BY <1>1, <1>2, BudgetAssumption DEF Requests
    <3>2. QED
      BY <3>1 DEF BudgetInv
  <2>3. /\ Total(Part(sent, me.own)) <= me.spent /\ Cardinality(me.own) <= me.calls
        /\ Total(Part(sent, me.own)) <= RunCap
    BY <1>1, <1>3, <1>7 DEF SessionOK, CallOK
  <2>4. me.spent \in Nat /\ me.calls \in Nat /\ me.spent + estimate <= RunCap
    BY <1>1, <1>3 DEF SessionRecord
  <2>5. CallOK(x, sent, Total(Part(sent, x.own)))
    BY <1>2, <1>6, <2>1, <2>2, <2>3, <2>4, SMTT(30) DEF CallOK
  <2>6. x.id \in 1..requests'
    BY <1>1, <1>2, <1>6
  <2>7. QED
    BY <1>1, <1>6, <1>7, <2>3, <2>5, <2>6 DEF SessionOK
<1>9. \A t \in Sessions : sessions[t].pc # "idle" => sessions[t].id \in Nat /\ sessions[t].id <= requests
  BY <1>2 DEF BudgetInv, SessionOK
<1>10. PICK j : j = requests + 1
  OBVIOUS
<1>11. \A t \in Sessions : t # s => Elsewhere(sessions[t], x, j)
  <2>1. ASSUME NEW t \in Sessions
        PROVE  j \notin sessions[t].own
    <3>1. /\ sessions[t].own \subseteq Requests
          /\ \A i \in sessions[t].own : sent[i].month # 0
      BY <1>2 DEF BudgetInv, SessionOK, SessionRecord
    <3>2. \A i \in sessions[t].own : i <= requests
      BY <3>1 DEF BudgetInv
    <3>3. QED
      BY <1>2, <1>10, <3>2
  <2>2. QED
    BY <1>2, <1>6, <1>9, <1>10, <2>1 DEF Elsewhere, Apart
<1>12. /\ sessions' \in [Sessions -> SessionRecord]
       /\ \A t \in Sessions : SessionOK(sessions'[t], sent', requests')
       /\ \A t, u \in Sessions : t # u => Apart(sessions'[t], sessions'[u])
  <2>1. /\ sent' \in [Requests -> SentRecord] /\ requests <= requests'
        /\ \A i \in Requests : i # j => sent'[i] = sent[i]
    BY <1>1, <1>2
  <2>2. x \in SessionRecord /\ BudgetInv /\ s \in Sessions
    BY <1>6
  <2>3. QED
    BY <1>2, <1>5, <1>8, <1>11, <2>1, <2>2, SessionsStand
<1>13. \E v \in Shares : Covers(v)'
  <2>1. PICK w \in Shares : Covers(w)
    BY DEF BudgetInv
  <2>2. /\ sessions'[s].id = requests + 1 /\ sessions'[s].reserved = estimate
        /\ sessions'[s].month = month
        /\ \A t \in Sessions : t # s => sessions'[t] = sessions[t]
    BY <1>2, <1>5, <1>6
  <2>3. estimate + Booked(month) <= MonthlyCap
    <3>1. PICK costs \in Amounts : costs = [i \in Requests |-> CostOf(i, month)]
      BY <1>2, CostNat DEF Amounts
    <3>2. Booked(month) \in Nat
      BY <3>1, TotalNat DEF Booked
    <3>3. QED
      BY <1>1, <1>2, <3>2, BudgetAssumption
  <2>4. BudgetTypes /\ \A t \in Sessions : sessions[t].pc = "calling" => sessions[t].id <= requests
    BY <1>9 DEF BudgetInv
  <2>5. QED
    BY <1>1, <1>2, <2>1, <2>2, <2>3, <2>4, ShareGiven
<1>14. lines' \in Seq(Line)
  <2>1. requests + 1 \in Requests
    BY <1>1, <1>2, BudgetAssumption DEF Requests
  <2>2. PICK whole \in BOOLEAN : Written(requests + 1, month, estimate, whole)
    BY <1>1
  <2>3. QED
    BY ONLY <1>2, <2>1, <2>2, LedgerWritten
<1>15. \A i \in Requests : sent'[i].month # 0 => i <= requests'
  BY <1>1, <1>2 DEF BudgetInv, Requests
<1>16. QED
  BY <1>1, <1>2, <1>12, <1>13, <1>14, <1>15 DEF BudgetInv, BudgetTypes

\* The reservation is not written in full: nobody can read the ledger any more.
LEMMA BeginBrokenKeeps ==
    ASSUME BudgetInv, NEW s \in Sessions, NEW estimate \in Estimates, BeginBroken(s, estimate)
    PROVE  BudgetInv'
<1>1. /\ sessions[s].pc = "idle" /\ requests < MaxRequests
      /\ requests' = requests + 1 /\ UNCHANGED <<month, sent>>
      /\ Written(requests + 1, month, estimate, FALSE)
      /\ UNCHANGED sessions \/ sessions' = [sessions EXCEPT ![s] = Fresh]
  BY DEF BeginBroken, Admitted
<1>2. /\ sessions \in [Sessions -> SessionRecord] /\ requests \in Nat /\ requests <= MaxRequests
      /\ sent \in [Requests -> SentRecord] /\ month \in 1..MaxMonths
      /\ estimate \in Nat /\ requests' \in 0..MaxRequests /\ lines \in Seq(Line)
      /\ requests <= requests'
  BY <1>1, BudgetAssumption DEF BudgetInv, BudgetTypes
<1>3. lines' \in Seq(Line) /\ ~Verified'
  <2>1. requests + 1 \in Requests
    BY <1>1, <1>2, BudgetAssumption DEF Requests
  <2>2. PICK whole \in BOOLEAN : whole = FALSE /\ Written(requests + 1, month, estimate, whole)
    BY <1>1
  <2>3. lines' \in Seq(Line) /\ (Verified' => Verified /\ whole = TRUE)
    BY ONLY <1>2, <2>1, <2>2, LedgerWritten
  <2>4. QED
    BY <2>2, <2>3
<1>4. PICK x \in SessionRecord : /\ sessions' = [sessions EXCEPT ![s] = x]
                                 /\ x.pc = "idle" /\ SessionOK(x, sent, requests)
  <2>1. CASE UNCHANGED sessions
    <3>1. sessions' = [sessions EXCEPT ![s] = sessions[s]] /\ sessions[s] \in SessionRecord
      BY <1>2, <2>1
    <3>2. SessionOK(sessions[s], sent, requests)
      BY DEF BudgetInv
    <3>3. QED
      BY <1>1, <3>1, <3>2
  <2>2. CASE sessions' = [sessions EXCEPT ![s] = Fresh]
    <3>1. Fresh \in SessionRecord /\ SessionOK(Fresh, sent, requests) /\ Fresh.pc = "idle"
      BY FreshIs DEF BudgetInv, Fresh
    <3>2. QED
      BY <2>2, <3>1
  <2>3. QED
    BY <1>1, <2>1, <2>2
<1>5. /\ sessions' \in [Sessions -> SessionRecord]
      /\ \A t \in Sessions : SessionOK(sessions'[t], sent', requests')
      /\ \A t, u \in Sessions : t # u => Apart(sessions'[t], sessions'[u])
      /\ \A t \in Sessions : sessions'[t].pc = "calling" => sessions'[t] = sessions[t]
  BY <1>1, <1>2, <1>4, IdleStands
<1>6. \E w \in Shares : Covers(w)'
  <2>1. PICK w \in Shares : Covers(w)
    BY DEF BudgetInv
  <2>2. ASSUME NEW m \in 1..MaxMonths, NEW i \in Requests
        PROVE  /\ (sent[i].month)' = m => Foreseen(i)' <= w[m][i]
               /\ i > requests' => w[m][i] = 0
    <3>1. Foreseen(i)' = Foreseen(i) /\ (sent[i].month)' = sent[i].month
      BY <1>1 DEF Foreseen
    <3>2. i > requests' => i > requests
      BY <1>1, <1>2 DEF Requests
    <3>3. QED
      BY <2>1, <3>1, <3>2 DEF Covers
  <2>3. ASSUME NEW m \in 1..MaxMonths, NEW t \in Sessions,
               sessions'[t].pc = "calling", sessions'[t].month = m
        PROVE  sessions'[t].reserved <= w[m][sessions'[t].id]
    BY <1>5, <2>1, <2>3 DEF Covers
  <2>4. \A m \in 1..MaxMonths : Total(w[m]) <= MonthlyCap
    BY <2>1 DEF Covers
  <2>5. Covers(w)'
    BY <1>3, <2>2, <2>3, <2>4 DEF Covers
  <2>6. QED
    BY <2>5
<1>7. \A i \in Requests : sent'[i].month # 0 => i <= requests'
  BY <1>1, <1>2 DEF BudgetInv, Requests
<1>8. QED
  BY <1>1, <1>2, <1>3, <1>5, <1>6, <1>7 DEF BudgetInv, BudgetTypes

\* A request is sent: what is charged for it counts up to the reserve.
LEMMA CallKeeps ==
    ASSUME BudgetInv, NEW s \in Sessions, Call(s)
    PROVE  BudgetInv'
<1>1. /\ sessions[s].pc = "calling" /\ UNCHANGED <<lines, month, requests>>
  BY DEF Call
<1>2. /\ sessions \in [Sessions -> SessionRecord] /\ requests \in 0..MaxRequests
      /\ sent \in [Requests -> SentRecord] /\ month \in 1..MaxMonths /\ lines \in Seq(Line)
      /\ requests \in Nat /\ requests <= MaxRequests
  BY BudgetAssumption DEF BudgetInv, BudgetTypes
<1>3. PICK me \in SessionRecord : me = sessions[s]
  BY <1>2
<1>4. PICK charge \in Charges :
         sent' = [sent EXCEPT ![me.id] =
                    [month |-> me.month, reserved |-> me.reserved, charge |-> charge]]
  BY <1>3 DEF Call
<1>5. PICK item : item = [month |-> me.month, reserved |-> me.reserved, charge |-> charge]
  OBVIOUS
<1>6. PICK own : own = me.own \cup {me.id}
  OBVIOUS
<1>7. PICK x : x = [me EXCEPT !.pc = "called", !.own = own]
  OBVIOUS
<1>8. sessions' = [sessions EXCEPT ![s] = x]
  BY <1>3, <1>6, <1>7 DEF Call
<1>9. SessionOK(me, sent, requests) /\ me.own \in SUBSET Requests /\ me.pc = "calling"
  BY <1>1, <1>3 DEF BudgetInv, SessionRecord
<1>10. me.id \in 1..requests /\ me.id \in Requests
  BY <1>2, <1>9, BudgetAssumption DEF SessionOK, Requests
<1>11. /\ sent[me.id].month = 0 /\ me.id \notin me.own
       /\ \A t \in Sessions : me.id \notin sessions[t].own
  <2>1. sent[me.id].month = 0
    BY <1>9 DEF SessionOK, CallOK
  <2>2. \A t \in Sessions : me.id \notin sessions[t].own
    BY <2>1 DEF BudgetInv, SessionOK
  <2>3. QED
    BY <1>3, <2>1, <2>2
<1>12. item \in SentRecord /\ item.month = me.month /\ item.reserved = me.reserved
       /\ me.month # 0 /\ me.month \in 1..MaxMonths /\ me.reserved \in Nat
  <2>1. charge \in Nat /\ me.month \in 1..MaxMonths /\ me.reserved \in Nat
    BY <1>3, <1>4, BudgetAssumption DEF SessionRecord
  <2>2. me.month \in 0..MaxMonths /\ me.month # 0
    BY <2>1, BudgetAssumption
  <2>3. QED
    BY <1>5, <2>1, <2>2 DEF SentRecord
<1>13. /\ sent' \in [Requests -> SentRecord] /\ sent'[me.id] = item
       /\ \A i \in Requests : i # me.id => sent'[i] = sent[i]
  BY <1>2, <1>4, <1>5, <1>10, <1>12
<1>14. /\ x \in SessionRecord /\ x.pc = "called" /\ x.own = own /\ x.id = me.id
       /\ x.reserved = me.reserved /\ x.month = me.month /\ x.spent = me.spent
       /\ x.calls = me.calls
  <2>1. own \in SUBSET Requests
    BY <1>6, <1>9, <1>10
  <2>2. QED
    BY <1>3, <1>7, <2>1 DEF SessionRecord
<1>15. /\ ForeseenOf(item) \in Nat /\ ForeseenOf(item) <= me.reserved
  BY <1>12, ForeseenNat
<1>16. SessionOK(x, sent', requests')
  <2>1. Part(sent, me.own) \in Amounts /\ Part(sent', own) \in Amounts
    BY <1>2, <1>13, PartNat
  <2>2. /\ Part(sent, me.own)[me.id] = 0 /\ Part(sent', own)[me.id] = ForeseenOf(item)
    BY <1>6, <1>10, <1>11, <1>13 DEF Part
  <2>3. \A i \in Requests : i # me.id => Part(sent, me.own)[i] = Part(sent', own)[i]
    BY <1>6, <1>13 DEF Part
  <2>4. Total(Part(sent', own)) + 0 = Total(Part(sent, me.own)) + ForeseenOf(item)
    BY <1>10, <2>1, <2>2, <2>3, TotalChanges
  <2>5. Total(Part(sent, me.own)) \in Nat /\ Total(Part(sent', own)) \in Nat
    BY <2>1, TotalNat
  <2>6. /\ Total(Part(sent, me.own)) + me.reserved <= me.spent /\ me.spent <= RunCap
        /\ Cardinality(me.own) + 1 <= me.calls
    BY <1>9 DEF SessionOK, CallOK
  <2>7. me.spent \in Nat /\ me.reserved \in Nat /\ me.calls \in Nat /\ RunCap \in Nat
    BY <1>3, BudgetAssumption DEF SessionRecord
  <2>8. Cardinality(own) = Cardinality(me.own) + 1
    <3>1. IsFiniteSet(me.own)
      BY <1>9, OwnFinite
    <3>2. QED
      BY <1>6, <1>11, <3>1, FS_AddElement
  <2>9. Total(Part(sent', own)) + me.reserved <= me.spent + ForeseenOf(item)
    BY <1>15, <2>4, <2>5, <2>6, <2>7
  <2>10. Total(Part(sent', own)) <= RunCap
    BY <1>15, <2>4, <2>5, <2>6, <2>7
  <2>11. CallOK(x, sent', Total(Part(sent', own)))
    BY <1>6, <1>12, <1>13, <1>14, <2>6, <2>8, <2>9 DEF CallOK
  <2>12. \A i \in own : sent'[i].month # 0
    <3>1. ASSUME NEW i \in own
          PROVE  sent'[i].month # 0
      <4>1. CASE i = me.id
        BY <1>12, <1>13, <4>1
      <4>2. CASE i # me.id
        <5>1. i \in me.own /\ i \in Requests
          BY <1>6, <1>9, <4>2
        <5>2. QED
          BY <1>9, <1>13, <4>2, <5>1 DEF SessionOK
      <4>3. QED
        BY <4>1, <4>2
    <3>2. QED
      BY <3>1
  <2>13. QED
    BY <1>1, <1>10, <1>14, <2>10, <2>11, <2>12 DEF SessionOK
<1>17. PICK j : j = me.id
  OBVIOUS
<1>18. /\ sessions' \in [Sessions -> SessionRecord]
       /\ \A t \in Sessions : SessionOK(sessions'[t], sent', requests')
       /\ \A t, u \in Sessions : t # u => Apart(sessions'[t], sessions'[u])
  <2>1. \A t \in Sessions : t # s => Elsewhere(sessions[t], x, j)
    <3>1. ASSUME NEW t \in Sessions, t # s
          PROVE  Elsewhere(sessions[t], x, j)
      <4>1. Apart(sessions[t], me)
        BY <1>3, <3>1 DEF BudgetInv
      <4>2. QED
        BY <1>9, <1>11, <1>14, <1>17, <4>1 DEF Apart, Elsewhere
    <3>2. QED
      BY <3>1
  <2>2. \A i \in Requests : i # j => sent'[i] = sent[i]
    BY <1>13, <1>17
  <2>3. requests' \in 0..MaxRequests /\ requests <= requests'
    BY <1>1, <1>2
  <2>4. QED
    BY <1>8, <1>13, <1>14, <1>16, <2>1, <2>2, <2>3, SessionsStand
<1>19. \E w \in Shares : Covers(w)'
  <2>1. PICK w \in Shares : Covers(w)
    BY DEF BudgetInv
  <2>2. ASSUME NEW m \in 1..MaxMonths, NEW i \in Requests
        PROVE  /\ (sent[i].month)' = m => Foreseen(i)' <= w[m][i]
               /\ Verified' => w[m][i] <= CostOf(i, m)'
               /\ i > requests' => w[m][i] = 0
    <3>1. CostOf(i, m)' = CostOf(i, m) /\ (Verified' <=> Verified)
      BY <1>1 DEF CostOf, Last, Tells, Verified
    <3>2. Foreseen(i)' = ForeseenOf(sent'[i])
      BY DEF Foreseen, ForeseenOf
    <3>3. CASE i = me.id
      <4>1. m = me.month => me.reserved <= w[m][i]
        BY <1>3, <1>9, <2>1, <3>3 DEF Covers
      <4>2. w[m][i] \in Nat
        BY DEF Shares, Amounts
      <4>3. (sent[i].month)' = m => Foreseen(i)' <= w[m][i]
        BY <1>12, <1>13, <1>15, <3>2, <3>3, <4>1, <4>2
      <4>4. QED
        BY <1>1, <2>1, <3>1, <4>3 DEF Covers
    <3>4. CASE i # me.id
      <4>1. Foreseen(i)' = Foreseen(i) /\ (sent[i].month)' = sent[i].month
        BY <1>13, <3>2, <3>4, ForeseenNat
      <4>2. QED
        BY <1>1, <2>1, <3>1, <4>1 DEF Covers
    <3>5. QED
      BY <3>3, <3>4
  <2>3. ASSUME NEW m \in 1..MaxMonths, NEW t \in Sessions,
               sessions'[t].pc = "calling", sessions'[t].month = m
        PROVE  sessions'[t].reserved <= w[m][sessions'[t].id]
    <3>1. sessions'[t] = sessions[t]
      BY <1>2, <1>8, <1>14, <2>3
    <3>2. QED
      BY <2>1, <2>3, <3>1 DEF Covers
  <2>4. \A m \in 1..MaxMonths : Total(w[m]) <= MonthlyCap
    BY <2>1 DEF Covers
  <2>5. Covers(w)'
    BY <2>2, <2>3, <2>4 DEF Covers
  <2>6. QED
    BY <2>5
<1>20. \A i \in Requests : sent'[i].month # 0 => i <= requests'
  BY <1>1, <1>2, <1>10, <1>13 DEF BudgetInv
<1>21. QED
  BY <1>1, <1>2, <1>13, <1>18, <1>19, <1>20 DEF BudgetInv, BudgetTypes

\* What is reported takes the place of the reserve: it is no less than what was foreseen.
LEMMA ShareSettled ==
    ASSUME BudgetTypes, NEW w \in Shares, Covers(w), UNCHANGED <<sent, requests>>,
           NEW id \in Requests, NEW mo \in 1..MaxMonths, sent[id].month = mo,
           Verified' => Verified /\ \A i \in Requests, m \in 1..MaxMonths :
               IF m = mo /\ i = id THEN Foreseen(i) <= CostOf(i, m)'
               ELSE CostOf(i, m)' = CostOf(i, m),
           \A s \in Sessions : sessions'[s].pc = "calling" =>
               sessions'[s] = sessions[s] /\ sessions[s].id # id
    PROVE  \E v \in Shares : Covers(v)'
<1>1. PICK share : share = Foreseen(id)
  OBVIOUS
<1>2. share \in Nat /\ share <= w[mo][id]
  <2>1. sent[id] \in SentRecord
    BY DEF BudgetTypes
  <2>2. share \in Nat
    BY <1>1, <2>1, ForeseenNat
  <2>3. QED
    BY <1>1, <2>2 DEF Covers
<1>3. PICK v : v = [w EXCEPT ![mo] = [w[mo] EXCEPT ![id] = share]]
  OBVIOUS
<1>4. /\ v \in Shares /\ w \in Shares
      /\ \A m \in 1..MaxMonths : v[m] \in Amounts /\ w[m] \in Amounts
      /\ v[mo][id] = share
      /\ \A m \in 1..MaxMonths : \A i : ~(m = mo /\ i = id) => v[m][i] = w[m][i]
  BY <1>2, <1>3 DEF Shares, Amounts
<1>5. ASSUME NEW m \in 1..MaxMonths
      PROVE  Total(v[m]) <= MonthlyCap
  <2>1. \A i \in Requests : v[m][i] <= w[m][i]
    <3>1. \A i \in Requests : v[m][i] \in Nat /\ w[m][i] \in Nat
      BY <1>4 DEF Amounts
    <3>2. QED
      BY <1>2, <1>4, <3>1
  <2>2. Total(v[m]) <= Total(w[m])
    BY <1>4, <2>1, TotalMonotone
  <2>3. Total(v[m]) \in Nat /\ Total(w[m]) \in Nat
    BY <1>4, TotalNat
  <2>4. QED
    BY <2>2, <2>3, BudgetAssumption DEF Covers
<1>6. ASSUME NEW m \in 1..MaxMonths, NEW i \in Requests
      PROVE  /\ (sent[i].month)' = m => Foreseen(i)' <= v[m][i]
             /\ Verified' => v[m][i] <= CostOf(i, m)'
             /\ i > requests' => v[m][i] = 0
  <2>1. Foreseen(i)' = Foreseen(i)
    BY DEF Foreseen
  <2>2. CASE m = mo /\ i = id
    <3>1. v[m][i] = share /\ Foreseen(i) = share
      BY <1>1, <1>4, <2>2
    <3>2. i > requests' => share = 0
      BY <1>2, <2>2 DEF Covers
    <3>3. QED
      BY <1>2, <2>1, <2>2, <3>1, <3>2
  <2>3. CASE ~(m = mo /\ i = id)
    <3>1. v[m][i] = w[m][i]
      BY <1>4, <2>3
    <3>2. Verified' => Verified /\ CostOf(i, m)' = CostOf(i, m)
      BY <2>3
    <3>3. QED
      BY <2>1, <3>1, <3>2 DEF Covers
  <2>4. QED
    BY <2>2, <2>3
<1>7. ASSUME NEW m \in 1..MaxMonths, NEW s \in Sessions,
             sessions'[s].pc = "calling", sessions'[s].month = m
      PROVE  sessions'[s].reserved <= v[m][sessions'[s].id]
  <2>1. sessions'[s] = sessions[s] /\ sessions[s].id # id
    BY <1>7
  <2>2. v[m][sessions[s].id] = w[m][sessions[s].id]
    BY <1>4, <2>1
  <2>3. QED
    BY <1>7, <2>1, <2>2 DEF Covers
<1>8. Covers(v)'
  BY <1>5, <1>6, <1>7 DEF Covers
<1>9. QED
  BY <1>4, <1>8

\* A request is settled, in full, in part or not at all.
LEMMA FinishKeeps ==
    ASSUME BudgetInv, NEW s \in Sessions, Finish(s)
    PROVE  BudgetInv'
<1>1. sessions[s].pc = "called" /\ UNCHANGED <<month, requests, sent>>
  BY DEF Finish
<1>2. /\ sessions \in [Sessions -> SessionRecord] /\ requests \in 0..MaxRequests
      /\ sent \in [Requests -> SentRecord] /\ month \in 1..MaxMonths /\ lines \in Seq(Line)
      /\ requests \in Nat /\ requests <= MaxRequests
  BY BudgetAssumption DEF BudgetInv, BudgetTypes
<1>3. PICK me \in SessionRecord : me = sessions[s]
  BY <1>2
<1>4. PICK cost : /\ cost = me.reserved \/ cost = sent[me.id].charge
                  /\ sessions' = [sessions EXCEPT ![s] =
                        [@ EXCEPT !.pc = "idle", !.spent = me.spent + cost - me.reserved]]
                  /\ \/ UNCHANGED lines
                     \/ Written(me.id, me.month, cost, TRUE)
                     \/ Written(me.id, me.month, cost, FALSE)
  <2>1. PICK reported \in BOOLEAN :
          /\ sessions' = [sessions EXCEPT ![s] =
                [@ EXCEPT !.pc = "idle", !.spent = Corrected(s, reported)]]
          /\ \/ UNCHANGED lines
             \/ Written(sessions[s].id, sessions[s].month, Cost(s, reported), TRUE)
             \/ Written(sessions[s].id, sessions[s].month, Cost(s, reported), FALSE)
    BY DEF Finish
  <2>2. PICK cost : cost = Cost(s, reported)
    OBVIOUS
  <2>3. cost = me.reserved \/ cost = sent[me.id].charge
    BY <1>3, <2>2 DEF Cost
  <2>4. Corrected(s, reported) = me.spent + cost - me.reserved
    BY <1>3, <2>2 DEF Corrected
  <2>5. QED
    BY <1>3, <2>1, <2>2, <2>3, <2>4
<1>5. SessionOK(me, sent, requests) /\ me.own \in SUBSET Requests /\ me.pc = "called"
  BY <1>1, <1>3 DEF BudgetInv, SessionRecord
<1>6. /\ me.id \in 1..requests /\ me.id \in Requests /\ me.id \in me.own
      /\ sent[me.id].month = me.month /\ sent[me.id].reserved = me.reserved
      /\ me.month \in 1..MaxMonths /\ me.reserved \in Nat /\ me.spent \in Nat
      /\ sent[me.id] \in SentRecord
  BY <1>2, <1>3, <1>5, BudgetAssumption DEF SessionOK, CallOK, SessionRecord, Requests
<1>7. /\ cost \in Nat /\ ForeseenOf(sent[me.id]) \in Nat /\ ForeseenOf(sent[me.id]) <= cost
  BY <1>4, <1>6, ForeseenNat DEF SentRecord
<1>8. Total(Part(sent, me.own)) \in Nat
  BY <1>2, PartNat, TotalNat
<1>9. /\ Total(Part(sent, me.own)) + me.reserved <= me.spent + ForeseenOf(sent[me.id])
      /\ Cardinality(me.own) <= me.calls /\ Total(Part(sent, me.own)) <= RunCap
  BY <1>5 DEF SessionOK, CallOK
<1>10. PICK left : left = me.spent + cost - me.reserved
  OBVIOUS
<1>11. left \in Nat /\ Total(Part(sent, me.own)) <= left
  BY <1>6, <1>7, <1>8, <1>9, <1>10
<1>12. PICK x : x = [me EXCEPT !.pc = "idle", !.spent = left]
  OBVIOUS
<1>13. sessions' = [sessions EXCEPT ![s] = x]
  BY <1>3, <1>4, <1>10, <1>12
<1>14. /\ x \in SessionRecord /\ x.pc = "idle" /\ x.own = me.own /\ x.spent = left
       /\ x.calls = me.calls
  BY <1>3, <1>11, <1>12 DEF SessionRecord
<1>15. SessionOK(x, sent, requests)
  BY <1>5, <1>9, <1>11, <1>14 DEF SessionOK, CallOK
<1>16. /\ sessions' \in [Sessions -> SessionRecord]
       /\ \A t \in Sessions : SessionOK(sessions'[t], sent', requests')
       /\ \A t, u \in Sessions : t # u => Apart(sessions'[t], sessions'[u])
       /\ \A t \in Sessions : sessions'[t].pc = "calling" => sessions'[t] = sessions[t]
  <2>1. requests' \in 0..MaxRequests /\ requests <= requests' /\ UNCHANGED sent
    BY <1>1, <1>2
  <2>2. BudgetInv /\ s \in Sessions /\ x \in SessionRecord
    BY <1>14
  <2>3. QED
    BY ONLY <1>13, <1>14, <1>15, <2>1, <2>2, IdleStands
<1>17. /\ lines' \in Seq(Line)
       /\ Verified' => Verified /\ \A i \in Requests, m \in 1..MaxMonths :
               IF m = me.month /\ i = me.id THEN CostOf(i, m)' = cost \/ CostOf(i, m)' = CostOf(i, m)
               ELSE CostOf(i, m)' = CostOf(i, m)
  <2>1. CASE UNCHANGED lines
    BY <1>2, <2>1 DEF CostOf, Last, Tells, Verified
  <2>2. CASE ~UNCHANGED lines
    <3>1. PICK whole \in BOOLEAN : Written(me.id, me.month, cost, whole)
      BY <1>4, <2>2
    <3>2. lines' \in Seq(Line) /\ (Verified' => Verified /\ whole = TRUE)
      BY ONLY <1>2, <1>6, <1>7, <3>1, LedgerWritten
    <3>3. ASSUME Verified', NEW i \in Requests, NEW m \in 1..MaxMonths
          PROVE  CostOf(i, m)' = IF m = me.month /\ i = me.id THEN cost ELSE CostOf(i, m)
      BY ONLY <1>2, <1>6, <1>7, <3>1, <3>3, LedgerTells
    <3>4. QED
      BY <3>2, <3>3
  <2>3. QED
    BY <2>1, <2>2
<1>18. \E v \in Shares : Covers(v)'
  <2>1. PICK w \in Shares : Covers(w)
    BY DEF BudgetInv
  <2>2. ASSUME Verified', NEW i \in Requests, NEW m \in 1..MaxMonths
        PROVE  IF m = me.month /\ i = me.id THEN Foreseen(i) <= CostOf(i, m)'
               ELSE CostOf(i, m)' = CostOf(i, m)
    <3>1. CASE m = me.month /\ i = me.id
      <4>1. Foreseen(i) = ForeseenOf(sent[me.id])
        BY <3>1, ForeseenNat
      <4>2. CASE CostOf(i, m)' = cost
        BY <1>7, <3>1, <4>1, <4>2
      <4>3. CASE CostOf(i, m)' = CostOf(i, m)
        <5>1. Foreseen(i) <= w[m][i] /\ w[m][i] <= CostOf(i, m)
          BY <1>6, <1>17, <2>1, <2>2, <3>1 DEF Covers
        <5>2. Foreseen(i) \in Nat /\ w[m][i] \in Nat /\ CostOf(i, m) \in Nat
          BY <1>2, <1>7, <4>1, CostNat DEF Shares, Amounts
        <5>3. QED
          BY <3>1, <4>3, <5>1, <5>2
      <4>4. QED
        BY <1>17, <2>2, <3>1, <4>2, <4>3
    <3>2. CASE ~(m = me.month /\ i = me.id)
      BY <1>17, <2>2, <3>2
    <3>3. QED
      BY <3>1, <3>2
  <2>3. ASSUME NEW t \in Sessions, sessions'[t].pc = "calling"
        PROVE  sessions'[t] = sessions[t] /\ sessions[t].id # me.id
    <3>1. sessions'[t] = sessions[t]
      BY <1>16, <2>3
    <3>2. t # s
      BY <1>1, <2>3, <3>1
    <3>3. Apart(sessions[t], me)
      BY <1>3, <3>2 DEF BudgetInv
    <3>4. QED
      BY <1>5, <2>3, <3>1, <3>3 DEF Apart
  <2>4. PICK id : id = me.id
    OBVIOUS
  <2>5. PICK mo : mo = me.month
    OBVIOUS
  <2>6. /\ BudgetTypes /\ UNCHANGED <<sent, requests>> /\ id \in Requests /\ mo \in 1..MaxMonths
        /\ sent[id].month = mo
    BY <1>1, <1>6, <2>4, <2>5 DEF BudgetInv
  <2>7. Verified' => Verified /\ \A i \in Requests, m \in 1..MaxMonths :
               IF m = mo /\ i = id THEN Foreseen(i) <= CostOf(i, m)'
               ELSE CostOf(i, m)' = CostOf(i, m)
    BY <1>17, <2>2, <2>4, <2>5
  <2>8. \A t \in Sessions : sessions'[t].pc = "calling" =>
               sessions'[t] = sessions[t] /\ sessions[t].id # id
    BY <2>3, <2>4
  <2>9. QED
    BY ONLY <2>1, <2>6, <2>7, <2>8, ShareSettled
<1>19. \A i \in Requests : sent'[i].month # 0 => i <= requests'
  BY <1>1 DEF BudgetInv
<1>20. QED
  BY <1>1, <1>2, <1>16, <1>17, <1>18, <1>19 DEF BudgetInv, BudgetTypes

\* A new run begins, or a process dies.
LEMMA ScopeKeeps ==
    ASSUME BudgetInv, NEW s \in Sessions, sessions' = [sessions EXCEPT ![s] = Fresh],
           UNCHANGED <<lines, month, requests, sent>>
    PROVE  BudgetInv'
<1>1. /\ requests \in 0..MaxRequests /\ requests <= requests /\ BudgetTypes
      /\ sessions \in [Sessions -> SessionRecord]
  BY BudgetAssumption DEF BudgetInv, BudgetTypes
<1>2. PICK x \in SessionRecord : x = Fresh
  BY <1>1, FreshIs
<1>3. SessionOK(x, sent, requests) /\ x.pc = "idle" /\ sessions' = [sessions EXCEPT ![s] = x]
  BY <1>1, <1>2, FreshIs DEF Fresh
<1>4. /\ sessions' \in [Sessions -> SessionRecord]
      /\ \A t \in Sessions : SessionOK(sessions'[t], sent', requests')
      /\ \A t, u \in Sessions : t # u => Apart(sessions'[t], sessions'[u])
      /\ \A t \in Sessions : sessions'[t].pc = "calling" => sessions'[t] = sessions[t]
  <2>1. requests' \in 0..MaxRequests /\ requests <= requests' /\ UNCHANGED sent
    BY <1>1
  <2>2. BudgetInv /\ s \in Sessions /\ x \in SessionRecord
    OBVIOUS
  <2>3. QED
    BY ONLY <1>3, <2>1, <2>2, IdleStands
<1>5. \E v \in Shares : Covers(v)'
  <2>1. PICK w \in Shares : Covers(w)
    BY DEF BudgetInv
  <2>2. Verified' => Verified /\ \A i \in Requests, m \in 1..MaxMonths :
                                     CostOf(i, m)' = CostOf(i, m)
    BY DEF Verified, CostOf, Last, Tells
  <2>3. Covers(w)'
    BY <1>4, <2>1, <2>2, SharesStand
  <2>4. QED
    BY <2>3
<1>6. QED
  BY <1>1, <1>4, <1>5 DEF BudgetInv, BudgetTypes

\* The month goes on, or nothing happens.
LEMMA MonthKeeps ==
    ASSUME BudgetInv, UNCHANGED <<lines, sessions, requests, sent>>, month' \in 1..MaxMonths
    PROVE  BudgetInv'
<1>1. \E v \in Shares : Covers(v)'
  <2>1. PICK w \in Shares : Covers(w)
    BY DEF BudgetInv
  <2>2. Verified' => Verified /\ \A i \in Requests, m \in 1..MaxMonths :
                                     CostOf(i, m)' = CostOf(i, m)
    BY DEF Verified, CostOf, Last, Tells
  <2>3. \A t \in Sessions : sessions'[t].pc = "calling" => sessions'[t] = sessions[t]
    OBVIOUS
  <2>4. Covers(w)'
    BY <2>1, <2>2, <2>3, SharesStand
  <2>5. QED
    BY <2>4
<1>2. BudgetTypes'
  BY DEF BudgetInv, BudgetTypes
<1>3. /\ \A i \in Requests : sent'[i].month # 0 => i <= requests'
      /\ \A s \in Sessions : SessionOK(sessions'[s], sent', requests')
      /\ \A s, t \in Sessions : s # t => Apart(sessions'[s], sessions'[t])
  BY DEF BudgetInv
<1>4. QED
  BY <1>1, <1>2, <1>3 DEF BudgetInv

LEMMA BudgetStart == ASSUME BudgetInit PROVE BudgetInv
<1>1. BudgetTypes
  <2>1. Fresh \in SessionRecord
    BY BudgetAssumption DEF Fresh, SessionRecord
  <2>2. NotSent \in SentRecord
    BY BudgetAssumption DEF NotSent, SentRecord
  <2>3. <<>> \in Seq(Line)
    BY EmptySeq
  <2>4. QED
    BY <2>1, <2>2, <2>3, BudgetAssumption DEF BudgetInit, BudgetTypes
<1>2. \A i \in Requests : sent[i].month = 0 /\ Foreseen(i) = 0
  BY DEF BudgetInit, NotSent, Foreseen
<1>3. \A s \in Sessions : sessions[s] = Fresh /\ sessions[s].pc = "idle"
  BY DEF BudgetInit, Fresh
<1>4. \A s \in Sessions : SessionOK(sessions[s], sent, requests)
  BY <1>1, <1>3, FreshIs
<1>5. \E w \in Shares : Covers(w)
  <2>1. PICK w : w = [m \in 1..MaxMonths |-> [i \in Requests |-> 0]]
    OBVIOUS
  <2>2. w \in Shares /\ \A m \in 1..MaxMonths : w[m] = [i \in Requests |-> 0]
    BY <2>1 DEF Shares, Amounts
  <2>3. \A m \in 1..MaxMonths : Total(w[m]) <= MonthlyCap
    BY <2>2, TotalOfNothing, BudgetAssumption
  <2>4. ASSUME NEW m \in 1..MaxMonths, NEW i \in Requests
        PROVE  Foreseen(i) <= w[m][i] /\ w[m][i] <= CostOf(i, m) /\ w[m][i] = 0
    <3>1. w[m][i] = 0
      BY <2>2
    <3>2. CostOf(i, m) \in Nat
      BY <1>1, CostNat DEF BudgetTypes
    <3>3. QED
      BY <1>2, <3>1, <3>2
  <2>5. Covers(w)
    BY <1>3, <2>3, <2>4 DEF Covers
  <2>6. QED
    BY <2>2, <2>5
<1>6. QED
  BY <1>1, <1>2, <1>3, <1>4, <1>5 DEF BudgetInv, Apart

LEMMA BudgetHolds == BudgetSpec => []BudgetInv
<1>1. BudgetInit => BudgetInv
  BY BudgetStart
<1>2. BudgetInv /\ [BudgetNext]_budgetVars => BudgetInv'
  <2>1. SUFFICES ASSUME BudgetInv, [BudgetNext]_budgetVars PROVE BudgetInv'
    OBVIOUS
  <2>2. month \in 1..MaxMonths
    BY <2>1 DEF BudgetInv, BudgetTypes
  <2>3. ASSUME NEW s \in Sessions, NEW estimate \in Estimates, Begin(s, estimate)
        PROVE  BudgetInv'
    BY <2>1, <2>3, BeginKeeps
  <2>4. ASSUME NEW s \in Sessions, NEW estimate \in Estimates, BeginBroken(s, estimate)
        PROVE  BudgetInv'
    BY <2>1, <2>4, BeginBrokenKeeps
  <2>5. ASSUME NEW s \in Sessions, Call(s) PROVE BudgetInv'
    BY <2>1, <2>5, CallKeeps
  <2>6. ASSUME NEW s \in Sessions, Finish(s) PROVE BudgetInv'
    BY <2>1, <2>6, FinishKeeps
  <2>7. ASSUME NEW s \in Sessions, NewScope(s) PROVE BudgetInv'
    BY <2>1, <2>7, ScopeKeeps DEF NewScope
  <2>8. ASSUME NEW s \in Sessions, KillSession(s) PROVE BudgetInv'
    BY <2>1, <2>8, ScopeKeeps DEF KillSession
  <2>9. CASE NextMonth
    <3>1. month' \in 1..MaxMonths
      BY <2>2, <2>9, BudgetAssumption DEF NextMonth
    <3>2. QED
      BY <2>1, <2>9, <3>1, MonthKeeps DEF NextMonth
  <2>10. CASE UNCHANGED budgetVars
    BY <2>1, <2>2, <2>10, MonthKeeps DEF budgetVars
  <2>11. QED
    BY <2>1, <2>3, <2>4, <2>5, <2>6, <2>7, <2>8, <2>9, <2>10 DEF BudgetNext
<1>3. QED
  BY <1>1, <1>2, PTL DEF BudgetSpec

\* The ledger, the trackers and what was sent have their types: no amount is ever negative,
\* the corrected expense of a run included, and no run makes more calls than it may.
THEOREM BudgetTypesHold == BudgetSpec => []BudgetTypeOK
<1>1. BudgetInv => BudgetTypeOK
  BY DEF BudgetInv, BudgetTypes, BudgetTypeOK, SessionRecord, SentRecord
<1>2. QED
  BY <1>1, BudgetHolds, PTL

\* Neither the month's budget nor a run's is exceeded by what was really sent, for any number
\* of processes, requests and failures, whatever the estimates and the charges
\* (UsageTracker.begin and finish, UsageLedger.reserve and settle).
THEOREM CapsHold == BudgetSpec => []WithinCaps
<1>1. BudgetInv => MonthWithinCap
  <2>1. SUFFICES ASSUME BudgetInv, NEW m \in 1..MaxMonths
                 PROVE  SpentIn({i \in Requests : sent[i].month = m}) <= MonthlyCap
    BY DEF MonthWithinCap
  <2>2. PICK w \in Shares : Covers(w)
    BY <2>1 DEF BudgetInv
  <2>3. PICK ids : ids = {i \in Requests : sent[i].month = m}
    OBVIOUS
  <2>4. PICK f : f = [i \in Requests |-> IF i \in ids THEN Foreseen(i) ELSE 0]
    OBVIOUS
  <2>5. w[m] \in Amounts /\ \A i \in Requests : w[m][i] \in Nat
    BY DEF Shares, Amounts
  <2>6. \A i \in Requests : Foreseen(i) \in Nat
    BY <2>1, ForeseenNat DEF BudgetInv, BudgetTypes
  <2>7. f \in Amounts /\ \A i \in Requests : f[i] <= w[m][i]
    BY <2>2, <2>3, <2>4, <2>5, <2>6 DEF Covers, Amounts
  <2>8. Total(f) <= Total(w[m]) /\ Total(w[m]) <= MonthlyCap
    BY <2>2, <2>5, <2>7, TotalMonotone DEF Covers
  <2>9. Total(f) \in Nat /\ Total(w[m]) \in Nat
    BY <2>5, <2>7, TotalNat
  <2>10. SpentIn(ids) = Total(f)
    BY <2>4 DEF SpentIn
  <2>11. QED
    BY <2>3, <2>8, <2>9, <2>10, BudgetAssumption
<1>2. BudgetInv => RunWithinCap
  <2>1. SUFFICES ASSUME BudgetInv, NEW s \in Sessions
                 PROVE  /\ SpentIn(sessions[s].own) <= RunCap
                        /\ Cardinality(sessions[s].own) <= MaxCalls
    BY DEF RunWithinCap
  <2>2. PICK me \in SessionRecord : me = sessions[s] /\ SessionOK(me, sent, requests)
    BY <2>1 DEF BudgetInv, BudgetTypes
  <2>3. me.own \in SUBSET Requests /\ me.calls \in 0..MaxCalls
    BY <2>2 DEF SessionRecord
  <2>4. SpentIn(me.own) = Total(Part(sent, me.own))
    BY ForeseenNat DEF SpentIn, Part
  <2>5. Total(Part(sent, me.own)) <= RunCap
    BY <2>2 DEF SessionOK
  <2>6. Cardinality(me.own) \in Nat
    BY <2>3, OwnFinite
  <2>7. Cardinality(me.own) <= MaxCalls
    BY <2>2, <2>3, <2>6, BudgetAssumption DEF SessionOK, CallOK
  <2>8. QED
    BY <2>2, <2>4, <2>5, <2>7
<1>3. BudgetInv => WithinCaps
  BY <1>1, <1>2 DEF WithinCaps
<1>4. QED
  BY <1>3, BudgetHolds, PTL

-----------------------------------------------------------------------------
(***************************************************************************)
(* ExecutionGraphs: the depth-first search accepts what the loop can       *)
(* finish, and calls cyclic what no order fits.                            *)
(***************************************************************************)
\* Some node of every set of these has no dependency in the set.
Founded(ids) ==
    \A S \in SUBSET ids : S # {} => \E n \in S : DependsOn(n) \cap S = {}

OrderFits(place) == \A a \in Names : \A b \in DependsOn(a) : place[b] < place[a]

\* An order would put every node that is being visited before those whose visit is further out.
Descends(place) ==
    \A i, k \in DOMAIN visiting : i < k => place[visiting[k]] < place[visiting[i]]

GraphInv ==
    /\ graph \in Seq(GraphNodes)
    /\ verdict \in {"none", "searching", "accepted", "refused", "cyclic"}
    /\ verdict \in {"searching", "accepted", "cyclic"} => WellFormed
    /\ visiting \in Seq(Names) /\ visited \subseteq Names /\ done \subseteq Names
    /\ \A a \in visited : DependsOn(a) \subseteq visited
    /\ Founded(visited)
    /\ \A place \in [Names -> 1..Len(graph)] : OrderFits(place) => Descends(place)
    /\ verdict = "accepted" => visited = Names
    /\ verdict = "cyclic" => ~Orderable

\* The nodes of a well-formed graph depend on one another.
LEMMA DependenciesNamed ==
    ASSUME WellFormed, NEW id \in Names
    PROVE  DependsOn(id) \subseteq Names
<1>1. PICK i \in DOMAIN graph : graph[i].id = id
  BY DEF Names
<1>2. (CHOOSE k \in DOMAIN graph : graph[k].id = id) \in DOMAIN graph
  BY <1>1
<1>3. QED
  BY <1>2 DEF WellFormed, DependsOn, NodeOf

\* What depends on visited nodes only can join them.
LEMMA FoundedGrows ==
    ASSUME NEW ids, NEW id, Founded(ids), \A a \in ids : DependsOn(a) \subseteq ids,
           DependsOn(id) \subseteq ids
    PROVE  Founded(ids \cup {id})
<1>1. CASE id \in ids
  <2>1. ids \cup {id} = ids
    BY <1>1
  <2>2. QED
    BY <2>1
<1>2. CASE id \notin ids
  <2>1. SUFFICES ASSUME NEW S \in SUBSET (ids \cup {id}), S # {}
                 PROVE  \E n \in S : DependsOn(n) \cap S = {}
    BY DEF Founded
  <2>2. CASE S \cap ids # {}
    <3>1. PICK n \in S \cap ids : DependsOn(n) \cap (S \cap ids) = {}
      BY <2>2 DEF Founded
    <3>2. DependsOn(n) \subseteq ids
      BY <3>1
    <3>3. QED
      BY <3>1, <3>2
  <2>3. CASE S \cap ids = {}
    <3>1. S = {id}
      BY <2>1, <2>3
    <3>2. QED
      BY <1>2, <3>1
  <2>4. QED
    BY <2>2, <2>3
<1>3. QED
  BY <1>1, <1>2

\* A step that leaves the graph alone leaves what is said of it.
LEMMA GraphStands ==
    ASSUME graph' = graph
    PROVE  /\ Names' = Names /\ WellFormed' = WellFormed /\ Orderable' = Orderable
           /\ \A a : DependsOn(a)' = DependsOn(a)
           /\ \A place : OrderFits(place)' = OrderFits(place)
           /\ visited' = visited => Founded(visited)' = Founded(visited)
           /\ visiting' = visiting => \A place : Descends(place)' = Descends(place)
<1>1. Names' = Names /\ \A a : DependsOn(a)' = DependsOn(a)
  BY DEF Names, DependsOn, NodeOf
<1>2. WellFormed' = WellFormed
  BY <1>1 DEF WellFormed
<1>3. \A place : OrderFits(place)' = OrderFits(place)
  BY <1>1 DEF OrderFits
<1>4. Orderable' = Orderable
  BY <1>1 DEF Orderable
<1>5. visited' = visited => Founded(visited)' = Founded(visited)
  BY <1>1 DEF Founded
<1>6. visiting' = visiting => \A place : Descends(place)' = Descends(place)
  BY DEF Descends
<1>7. QED
  BY <1>1, <1>2, <1>3, <1>4, <1>5, <1>6

LEMMA GraphStarts == ASSUME GraphInit PROVE GraphInv
<1>1. PICK n \in 0..MaxNodes : graph \in [1..n -> GraphNodes]
  BY DEF GraphInit
<1>2. n \in Nat
  BY <1>1
<1>3. graph \in Seq(GraphNodes)
  BY <1>1, <1>2
<1>4. visiting \in Seq(Names) /\ DOMAIN visiting = {}
  BY DEF GraphInit
<1>5. QED
  BY <1>3, <1>4 DEF GraphInit, GraphInv, Founded, Descends

LEMMA ValidateGraphKeeps ==
    ASSUME GraphInv, ValidateGraph
    PROVE  GraphInv'
<1>1. /\ UNCHANGED <<graph, visiting, visited, done>> /\ verdict' \in {"searching", "refused"}
      /\ verdict' = "searching" => WellFormed
  BY DEF ValidateGraph
<1>2. QED
  BY <1>1, GraphStands DEF GraphInv

\* A visit that finds itself at work closes a cycle; another one is one further in.
LEMMA BeginVisitKeeps ==
    ASSUME GraphInv, NEW id \in LoopsOver, BeginVisit(id)
    PROVE  GraphInv'
<1>1. /\ UNCHANGED <<graph, visited, done>> /\ verdict = "searching" /\ WellFormed
      /\ visiting \in Seq(Names)
  BY DEF BeginVisit, GraphInv
<1>2. PICK n \in Nat : n = Len(visiting) /\ DOMAIN visiting = 1..n
  BY <1>1
<1>3. visiting # <<>> => n \in 1..n /\ visiting[n] \in Names /\ id \in DependsOn(visiting[n])
  BY <1>1, <1>2 DEF LoopsOver
<1>4. id \in Names
  BY <1>1, <1>2, <1>3, DependenciesNamed DEF LoopsOver
\* An order puts the new one before all that are being visited.
<1>8. ASSUME NEW place \in [Names -> 1..Len(graph)], OrderFits(place), NEW i \in 1..n
      PROVE  place[id] < place[visiting[i]]
  <2>1. Descends(place) /\ visiting # <<>>
    BY <1>2, <1>8 DEF GraphInv
  <2>2. place[id] < place[visiting[n]]
    BY <1>3, <1>8, <2>1 DEF OrderFits
  <2>3. i = n \/ place[visiting[n]] < place[visiting[i]]
    BY <1>2, <1>3, <1>8, <2>1 DEF Descends
  <2>4. place[id] \in Nat /\ place[visiting[n]] \in Nat /\ place[visiting[i]] \in Nat
    <3>1. visiting[i] \in Names /\ visiting[n] \in Names
      BY <1>1, <1>2, <1>3, <1>8, <2>1
    <3>2. Len(graph) \in Nat
      BY DEF GraphInv
    <3>3. QED
      BY <1>4, <1>8, <3>1, <3>2
  <2>5. QED
    BY <2>2, <2>3, <2>4
<1>9. CASE \E i \in DOMAIN visiting : visiting[i] = id
  <2>1. PICK i \in 1..n : visiting[i] = id
    BY <1>2, <1>9
  <2>2. UNCHANGED visiting /\ verdict' = "cyclic"
    BY <1>9 DEF BeginVisit
  <2>3. ~Orderable
    <3>1. SUFFICES ASSUME NEW place \in [Names -> 1..Len(graph)], OrderFits(place)
                   PROVE  FALSE
      BY DEF Orderable, OrderFits
    <3>2. place[id] < place[id]
      BY <1>8, <2>1, <3>1
    <3>3. place[id] \in Nat
      <4>1. Len(graph) \in Nat
        BY DEF GraphInv
      <4>2. QED
        BY <1>4, <3>1, <4>1
    <3>4. QED
      BY <3>2, <3>3
  <2>4. ~Orderable'
    BY <1>1, <2>3, GraphStands
  <2>5. QED
    BY <1>1, <2>2, <2>4, GraphStands DEF GraphInv
<1>10. CASE ~\E i \in DOMAIN visiting : visiting[i] = id
  <2>1. visiting' = Append(visiting, id) /\ UNCHANGED verdict
    BY <1>10 DEF BeginVisit
  <2>2. /\ visiting' \in Seq(Names) /\ DOMAIN visiting' = 1..(n + 1)
        /\ \A i \in 1..n : visiting'[i] = visiting[i]
        /\ visiting'[n + 1] = id
    BY <1>1, <1>2, <1>4, <2>1
  <2>3. ASSUME NEW place \in [Names -> 1..Len(graph)], OrderFits(place)
        PROVE  Descends(place)'
    <3>1. SUFFICES ASSUME NEW i \in 1..(n + 1), NEW k \in 1..(n + 1), i < k
                   PROVE  place[visiting'[k]] < place[visiting'[i]]
      BY <2>2 DEF Descends
    <3>2. i \in 1..n
      BY <3>1
    <3>3. CASE k = n + 1
      BY <1>8, <2>2, <2>3, <3>2, <3>3
    <3>4. CASE k # n + 1
      <4>1. k \in 1..n
        BY <3>1, <3>4
      <4>2. Descends(place)
        BY <2>3 DEF GraphInv
      <4>3. QED
        BY <1>2, <2>2, <3>1, <3>2, <4>1, <4>2 DEF Descends
    <3>5. QED
      BY <3>3, <3>4
  <2>4. QED
    BY <1>1, <2>1, <2>2, <2>3, GraphStands DEF GraphInv
<1>11. QED
  BY <1>9, <1>10

LEMMA EndVisitKeeps ==
    ASSUME GraphInv, EndVisit
    PROVE  GraphInv'
<1>1. /\ UNCHANGED <<graph, done>> /\ verdict = "searching" /\ WellFormed
      /\ visiting \in Seq(Names)
      /\ LoopsOver \subseteq visited
  BY DEF EndVisit, GraphInv, WasVisited
<1>4. CASE visiting = <<>>
  <2>1. UNCHANGED <<visiting, visited>> /\ verdict' = "accepted"
    BY <1>4 DEF EndVisit
  <2>2. visited = Names
    BY <1>1, <1>4 DEF LoopsOver, GraphInv
  <2>3. QED
    BY <1>1, <2>1, <2>2, GraphStands DEF GraphInv
<1>5. CASE visiting # <<>>
  <2>1. PICK n \in Nat : n = Len(visiting) /\ DOMAIN visiting = 1..n /\ n # 0
    BY <1>1, <1>5
  <2>2. PICK id \in Names : id = visiting[n]
    BY <1>1, <2>1
  <2>3. visited' = visited \cup {id} /\ visiting' = SubSeq(visiting, 1, n - 1) /\ UNCHANGED verdict
    BY <1>5, <2>1, <2>2 DEF EndVisit
  <2>4. DependsOn(id) \subseteq visited
    BY <1>1, <1>5, <2>1, <2>2 DEF LoopsOver
  <2>5. Founded(visited \cup {id})
    BY <2>4, FoundedGrows DEF GraphInv
  <2>6. Founded(visited)'
    BY <1>1, <2>3, <2>5, GraphStands DEF Founded
  <2>7. /\ visiting' \in Seq(Names) /\ DOMAIN visiting' = 1..(n - 1)
        /\ \A i \in 1..(n - 1) : visiting'[i] = visiting[i]
    BY <1>1, <2>1, <2>3
  <2>8. \A place \in [Names -> 1..Len(graph)] : OrderFits(place) => Descends(place)'
    <3>1. \A i \in 1..(n - 1) : i \in 1..n
      BY <2>1
    <3>2. QED
      BY <2>1, <2>7, <3>1 DEF GraphInv, Descends
  <2>9. QED
    BY <1>1, <2>2, <2>3, <2>4, <2>6, <2>7, <2>8, GraphStands DEF GraphInv
<1>6. QED
  BY <1>4, <1>5

LEMMA GraphAlways == GraphSpec => []GraphInv
<1>1. GraphInv /\ [GraphNext]_graphVars => GraphInv'
  <2>1. SUFFICES ASSUME GraphInv, [GraphNext]_graphVars PROVE GraphInv'
    OBVIOUS
  <2>2. ASSUME NEW id \in Names, RunNode(id)
        PROVE  GraphInv'
    <3>1. /\ UNCHANGED <<graph, verdict, visiting, visited>> /\ verdict = "accepted"
          /\ done' = done \cup {id}
      BY <2>2 DEF RunNode
    <3>2. QED
      BY <2>1, <2>2, <3>1, GraphStands DEF GraphInv
  <2>3. CASE UNCHANGED graphVars
    BY <2>1, <2>3, GraphStands DEF graphVars, GraphInv
  <2>4. QED
    BY <2>1, <2>2, <2>3, ValidateGraphKeeps, BeginVisitKeeps, EndVisitKeeps DEF GraphNext
<1>2. QED
  BY <1>1, GraphStarts, PTL DEF GraphSpec

\* The search of _assert_acyclic decides what the loop of resume_run needs, for graphs of any
\* size: an accepted graph is never left with nodes that cannot run, and one that is refused
\* as cyclic has no order to run it in.
THEOREM CyclesDecided == GraphSpec => []ValidationDecidesCycles
<1>1. GraphInv => ValidationDecidesCycles
  <2>1. SUFFICES ASSUME GraphInv, verdict = "accepted", done # Names
                 PROVE  \E id \in Names : CanRun(id)
    BY DEF ValidationDecidesCycles, GraphInv
  <2>2. /\ Names \ done # {} /\ Names \ done \subseteq visited /\ visited = Names
        /\ WellFormed
    BY <2>1 DEF GraphInv
  <2>3. PICK id \in Names \ done : DependsOn(id) \cap (Names \ done) = {}
    BY <2>1, <2>2 DEF GraphInv, Founded
  <2>4. DependsOn(id) \subseteq Names
    BY <2>2, <2>3, DependenciesNamed
  <2>5. QED
    BY <2>3, <2>4 DEF CanRun
<1>2. QED
  BY <1>1, GraphAlways, PTL
=============================================================================
