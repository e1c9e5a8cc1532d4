----------------------------- MODULE ToolPolicy -----------------------------
(***************************************************************************)
(* The registry of tool permissions and policy rules                       *)
(* (src/src/aeai_os/security/policy.py): what the orchestrator and the     *)
(* deployment approvals ask before a tool is used.  A registry starts with *)
(* the default permissions and rules; a deployment adds rules of its own,  *)
(* one at a time, and the registry refuses only an id it has already.      *)
(*                                                                         *)
(* A pattern is abstracted to the tools it matches.  The connector, the    *)
(* artifact type and the destination of a rule work alike and are one      *)
(* `place' here.  Reasons and targets of escalation are left out, and with *)
(* them the order among rules of one decision.                             *)
(***************************************************************************)
EXTENDS Integers, FiniteSets

CONSTANTS Extensions,    \* rules that a deployment may add
          Places,        \* connectors, artifact types, destinations
          MetadataKeys          \* keys of metadata that rules look for

VARIABLES registered,    \* the rules of the registry
          asked          \* the last question and its answer

policyVars == <<registered, asked>>

ReadOnly == {"dataset_reader", "schema_profiler", "quality_checker",
             "dataframe_query", "artifact_reader", "deterministic_evaluator"}
Writers == {"code_artifact_writer", "chart_renderer", "dashboard_renderer",
            "markdown_report_writer", "evaluation_writer"}
External == {"external_http", "snowflake_query"}
Blocked == {"delete_artifact", "shell_exec"}
Tools == ReadOnly \cup Writers \cup External \cup Blocked
             \cup {"python_analysis", "deploy_artifact"}

Level(tool) ==
    CASE tool \in ReadOnly -> "read_only"
      [] tool \in Writers \cup {"delete_artifact"} -> "write"
      [] tool \in External -> "external_network"
      [] tool = "deploy_artifact" -> "deployment"
      [] OTHER -> "code_execution"

Risk(tool) ==
    CASE tool \in ReadOnly -> "low"
      [] tool \in Writers \cup {"python_analysis"} -> "medium"
      [] OTHER -> "high"

Levels == {"read_only", "write", "external_network", "code_execution", "deployment"}
Risks == {"low", "medium", "high"}
Decisions == {"block", "retry", "escalate", "approval_required", "allow"}

\* sensitive  what a rule demands of artifact_sensitive: nothing, or a value
PolicyRule ==
    [id : STRING, decision : Decisions, tools : SUBSET Tools,
     levels : SUBSET Levels, risks : SUBSET Risks, places : SUBSET Places,
     sensitive : SUBSET BOOLEAN, keys : SUBSET MetadataKeys]

Context == [approved : BOOLEAN, place : Places, sensitive : BOOLEAN,
            keys : SUBSET MetadataKeys]

\* A rule with nothing in it but an id and a decision; an empty condition is
\* no condition.
Plain(id, decision, tools) ==
    [id |-> id, decision |-> decision, tools |-> tools, levels |-> {},
     risks |-> {}, places |-> {}, sensitive |-> BOOLEAN, keys |-> {}]

ASSUME PolicyAssumption == Extensions \subseteq PolicyRule /\ Places # {}

\* default_tool_permission_registry; no default tool is an untrusted one.
DefaultRules ==
    {Plain("code-execution-approval", "approval_required", {}),
     [Plain("deployment-promotion-approval", "approval_required", Tools)
         EXCEPT !.levels = {"deployment"}],
     [Plain("external-connector-escalation", "escalate", Tools)
         EXCEPT !.levels = {"external_network"}],
     [Plain("sensitive-artifact-approval", "approval_required",
            {"artifact_reader", "dataset_reader"})
         EXCEPT !.sensitive = {TRUE}, !.keys = MetadataKeys],
     Plain("destructive-action-deny", "block", Blocked)}

-----------------------------------------------------------------------------
(* evaluate                                                                *)

Unless(set, value) == set = {} \/ value \in set

\* A key of the metadata stands in for the sensitivity that is asked for, and
\* is asked for itself where the sensitivity is as demanded.
Sensitivity(rule, ctx) ==
    \/ rule.keys \cap ctx.keys # {}
    \/ ctx.sensitive \in rule.sensitive /\ rule.keys = {}

\* _rule_matches
Matches(rule, tool, ctx) ==
    /\ tool \in rule.tools
    /\ Unless(rule.levels, Level(tool))
    /\ Unless(rule.risks, Risk(tool))
    /\ Unless(rule.places, ctx.place)
    /\ Sensitivity(rule, ctx)

Says(rules, decision, tool, ctx) ==
    \E rule \in rules : rule.decision = decision /\ Matches(rule, tool, ctx)

\* What an approval makes of a decision that waits for one.
Approvable(decision, ctx) == IF ctx.approved THEN "allow" ELSE decision

\* The permission alone, when no rule matches.
ByPermission(tool, ctx) ==
    IF tool \in Blocked THEN "block"
    ELSE IF Risk(tool) = "high" THEN Approvable("approval_required", ctx)
    ELSE "allow"

\* Fault: rules that allow come first.
Evaluate_AllowFirst(rules, tool, ctx) ==
    CASE tool \notin Tools -> "block"
      [] Says(rules, "allow", tool, ctx) -> "allow"
      [] Says(rules, "block", tool, ctx) -> "block"
      [] Says(rules, "retry", tool, ctx) -> "retry"
      [] Says(rules, "escalate", tool, ctx) -> Approvable("escalate", ctx)
      [] Says(rules, "approval_required", tool, ctx) ->
            Approvable("approval_required", ctx)
      [] OTHER -> ByPermission(tool, ctx)

\* An unknown tool is blocked; of the rules that match, the one with the
\* highest priority decides (_highest_priority_rule, _decision_from_rule), and
\* the permission is not looked at any more.
Evaluate(rules, tool, ctx) ==
    IF tool \notin Tools \/ Says(rules, "block", tool, ctx) THEN "block"
    ELSE IF Says(rules, "retry", tool, ctx) THEN "retry"
    ELSE IF Says(rules, "escalate", tool, ctx) THEN Approvable("escalate", ctx)
    ELSE IF Says(rules, "approval_required", tool, ctx)
    THEN Approvable("approval_required", ctx)
    ELSE IF Says(rules, "allow", tool, ctx) THEN "allow"
    ELSE ByPermission(tool, ctx)

-----------------------------------------------------------------------------
NotAsked == [tool |-> "none", verdict |-> "none"]

\* register_rule, as build_policy_registry_from_rules calls it.
RegisterRule(rule) ==
    /\ \A known \in registered : known.id # rule.id
    /\ registered' = registered \cup {rule}
    /\ asked' = NotAsked

\* The gate in front of a tool call, or of a deployment.
Ask(tool, ctx) ==
    /\ asked = NotAsked
    /\ asked' = [tool |-> tool, ctx |-> ctx, verdict |-> Evaluate(registered, tool, ctx)]
    /\ UNCHANGED registered

PolicyInit == registered = DefaultRules /\ asked = NotAsked

PolicyNext ==
    \/ \E rule \in Extensions : RegisterRule(rule)
    \/ \E tool \in Tools, ctx \in Context : Ask(tool, ctx)

PolicySpec == PolicyInit /\ [][PolicyNext]_policyVars

-----------------------------------------------------------------------------
(* Properties.                                                             *)

PolicyTypeOK ==
    /\ registered \subseteq PolicyRule
    /\ asked # NotAsked => asked \in [tool : Tools, ctx : Context, verdict : Decisions]

\* The rule that matches a tool replaces the judgement of its permission
\* (evaluate), so that a single rule with "allow" would open a tool that is
\* blocked or wants an approval.  It does not: whatever rules a deployment adds
\* to the defaults, and in whatever order, no tool is allowed in a context in
\* which the default registry does not allow it.
ExtensionNeverLoosens ==
    asked.verdict = "allow" => Evaluate(DefaultRules, asked.tool, asked.ctx) = "allow"
=============================================================================
