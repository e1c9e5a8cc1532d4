---------------------------- MODULE Investigation ----------------------------
(***************************************************************************)
(* The investigation agent (src/src/aeai_os/agents/investigation.py and    *)
(* followup.py): a model is asked up to three times, which read-only       *)
(* checks to run, whether to run more of them, and for a review; Python    *)
(* validates each answer, runs the checks and numbers their evidence, and  *)
(* falls back to checks of its own when the model fails.  What was found   *)
(* is written to two files and registered as two artifacts, one call after *)
(* the other.  The orchestrator may execute the agent again after a        *)
(* failure; files of an earlier attempt are overwritten then.              *)
(*                                                                         *)
(* An answer is abstracted to the names it lists and to whether the rest   *)
(* of it is valid; texts, facts and prompts are left out.                  *)
(***************************************************************************)
EXTENDS Integers, FiniteSets, Sequences

CONSTANTS Preferred,     \* the checks in the order of _fallback_checks
          Unpreferred,   \* CHECKS that _fallback_checks never takes
          MaxNames,      \* bound: names in an answer
          MaxFollowups,  \* reasoning_max_followup_checks
          MaxTries       \* bound: executions of the agent

ASSUME InvestigationAssumption ==
    /\ Preferred \in Seq({Preferred[i] : i \in DOMAIN Preferred})
    /\ \A i, k \in DOMAIN Preferred : Preferred[i] = Preferred[k] => i = k
    \* every analysis supports these two (investigation.py)
    /\ {"dataset_overview", "data_quality"}
          \subseteq {Preferred[i] : i \in DOMAIN Preferred} \cup Unpreferred
    /\ MaxNames \in Nat /\ MaxFollowups \in Nat /\ MaxTries \in Nat

VARIABLES analysis,      \* the checks it supports, and those that fail on it
          inquiry,       \* local variables of execute
          dossier,       \* the two files, by the attempt that wrote them
          exhibits,      \* the artifacts, <<kind, attempt>>, in order
          tries          \* attempts so far

investigationVars == <<analysis, inquiry, dossier, exhibits, tries>>

ToSetOf(s) == {s[i] : i \in DOMAIN s}
Checks == ToSetOf(Preferred) \cup Unpreferred
InitialLimit == 3
FollowupLimit == IF MaxFollowups < 2 THEN MaxFollowups ELSE 2

Quiet == [pc |-> "idle", chosen |-> <<>>, directed |-> FALSE, steps |-> <<>>,
          review |-> {}]

\* One item of evidence: its check, its number, and what it is based on.
Step(check, n, basis) == [check |-> check, id |-> n, basis |-> basis]

EvidenceIds(steps) == {steps[i].id : i \in DOMAIN steps}

\* An answer: some names, in some order, perhaps repeated.
Answers == UNION {[1..n -> Checks] : n \in 0..MaxNames}

\* The names at these positions, in their order.
Picked(s, positions) ==
    [n \in 1..Cardinality(positions) |->
        s[CHOOSE i \in positions : Cardinality({k \in positions : k <= i}) = n]]

\* list(dict.fromkeys(names)): the first occurrence of each.
FirstOnes(s) == Picked(s, {i \in DOMAIN s : \A k \in 1..(i - 1) : s[k] # s[i]})

Leading(s, n) == SubSeq(s, 1, IF Len(s) < n THEN Len(s) ELSE n)

\* validate_check_selection
ValidSelection(s) == s # <<>> /\ ToSetOf(s) \subseteq analysis.available

\* _fallback_checks
Fallback ==
    Leading(Picked(Preferred, {i \in DOMAIN Preferred : Preferred[i] \in analysis.available}),
            InitialLimit)

\* Fault: what was checked already is on offer again.
Remaining_All == analysis.available

Remaining == analysis.available \ ToSetOf(inquiry.chosen)

\* validate_followup, for "continue"; the citations must be known.
ValidFollowup(s, cited) ==
    /\ ToSetOf(s) \subseteq Remaining
    /\ Len(FirstOnes(s)) \in 1..FollowupLimit
    /\ cited # {} /\ cited \subseteq EvidenceIds(inquiry.steps)

-----------------------------------------------------------------------------
(* execute                                                                 *)

BeginInquiry(a) ==
    /\ inquiry.pc \in {"idle", "failed"}
    /\ tries < MaxTries
    /\ tries' = tries + 1
    /\ analysis' = a
    /\ inquiry' = [Quiet EXCEPT !.pc = "selecting"]
    /\ UNCHANGED <<dossier, exhibits>>

\* The newest analysis is read; the first two checks need none of its parts.
ReadAnalysis ==
    \E extra \in SUBSET (Checks \ {"dataset_overview", "data_quality"}) :
        \E broken \in SUBSET extra :
            BeginInquiry([available |-> extra \cup {"dataset_overview", "data_quality"},
                    broken |-> broken])

Select(checks, directed) ==
    /\ inquiry.pc = "selecting"
    /\ inquiry' = [inquiry EXCEPT !.pc = "checking", !.chosen = checks,
                                  !.directed = directed]
    /\ UNCHANGED <<analysis, dossier, exhibits, tries>>

\* No gateway, a failed call (no budget, no provider), or an invalid answer.
SelectFallback == Select(Fallback, FALSE)

SelectDirected ==
    \E s \in Answers :
        ValidSelection(s) /\ Select(Leading(FirstOnes(s), InitialLimit), TRUE)

\* execute_check for one after the other; what fails fails the agent.
RunChecks ==
    /\ inquiry.pc = "checking"
    /\ inquiry' =
          IF ToSetOf(inquiry.chosen) \cap analysis.broken = {}
          THEN [inquiry EXCEPT
                  !.pc = "following up",
                  !.steps = [i \in DOMAIN inquiry.chosen |->
                                Step(inquiry.chosen[i], i, {})]]
          ELSE [inquiry EXCEPT !.pc = "failed"]
    /\ UNCHANGED <<analysis, dossier, exhibits, tries>>

\* Disabled, not directed, nothing left, declined, failed, or invalid.
NoFollowup ==
    /\ inquiry.pc = "following up"
    /\ inquiry' = [inquiry EXCEPT !.pc = "reviewing"]
    /\ UNCHANGED <<analysis, dossier, exhibits, tries>>

\* The first n of the further checks; n falls short when one of them fails,
\* and what was found until then is kept.
Extended(s, cited, n) ==
    inquiry.steps \o
        [i \in 1..n |-> Step(s[i], Len(inquiry.steps) + i, cited)]

Followup ==
    /\ inquiry.pc = "following up"
    /\ inquiry.directed
    /\ \E s \in Answers, cited \in SUBSET EvidenceIds(inquiry.steps), n \in 0..FollowupLimit :
          /\ ValidFollowup(s, cited)
          /\ LET more == FirstOnes(s)
             IN  /\ n <= Len(more)
                 /\ \A i \in 1..n : more[i] \notin analysis.broken
                 /\ n < Len(more) => more[n + 1] \in analysis.broken
                 /\ inquiry' = [inquiry EXCEPT !.pc = "reviewing",
                                               !.steps = Extended(more, cited, n)]
    /\ UNCHANGED <<analysis, dossier, exhibits, tries>>

\* validate_review; without one the investigation is published all the same.
Review ==
    /\ inquiry.pc = "reviewing"
    /\ \E cited \in SUBSET EvidenceIds(inquiry.steps) :
          /\ cited # {} => inquiry.directed /\ Cardinality(cited) <= 3
          /\ inquiry' = [inquiry EXCEPT !.pc = "writing evidence", !.review = cited]
    /\ UNCHANGED <<analysis, dossier, exhibits, tries>>

WriteEvidence ==
    /\ inquiry.pc = "writing evidence"
    /\ dossier' = [dossier EXCEPT !.evidence = tries]
    /\ inquiry' = [inquiry EXCEPT !.pc = "writing report"]
    /\ UNCHANGED <<analysis, exhibits, tries>>

WriteReport ==
    /\ inquiry.pc = "writing report"
    /\ dossier' = [dossier EXCEPT !.report = tries]
    /\ inquiry' = [inquiry EXCEPT !.pc = "registering evidence"]
    /\ UNCHANGED <<analysis, exhibits, tries>>

Register(pc, kind, next) ==
    /\ inquiry.pc = pc
    /\ exhibits' = Append(exhibits, <<kind, tries>>)
    /\ inquiry' = [inquiry EXCEPT !.pc = next]
    /\ UNCHANGED <<analysis, dossier, tries>>

RegisterEvidence == Register("registering evidence", "evidence", "registering report")
RegisterReport == Register("registering report", "report", "idle")

\* A file or a repository call fails, or the process dies.
FailInquiry ==
    /\ inquiry.pc \notin {"idle", "failed"}
    /\ inquiry' = [inquiry EXCEPT !.pc = "failed"]
    /\ UNCHANGED <<analysis, dossier, exhibits, tries>>

-----------------------------------------------------------------------------
InvestigationInit ==
    /\ analysis = [available |-> {}, broken |-> {}]
    /\ inquiry = Quiet
    /\ dossier = [evidence |-> 0, report |-> 0]
    /\ exhibits = <<>>
    /\ tries = 0

InvestigationNext ==
    \/ ReadAnalysis \/ SelectFallback \/ SelectDirected \/ RunChecks \/ NoFollowup
    \/ Followup \/ Review \/ WriteEvidence \/ WriteReport \/ RegisterEvidence
    \/ RegisterReport \/ FailInquiry

InvestigationSpec == InvestigationInit /\ [][InvestigationNext]_investigationVars

-----------------------------------------------------------------------------
(* Properties.                                                             *)

InvestigationTypeOK ==
    /\ analysis.available \subseteq Checks /\ analysis.broken \subseteq Checks
    /\ dossier \in [evidence : 0..MaxTries, report : 0..MaxTries]
    /\ exhibits \in Seq({"evidence", "report"} \X (1..MaxTries))
    /\ tries \in 0..MaxTries

\* "It cannot widen the tool whitelist or repeat prior checks"
\* (investigation.py:386): whatever the model answers, and whichever of its
\* answers or checks fails half-way, the evidence is of distinct checks of this
\* analysis, numbered without gap, and every citation, of a further check or of
\* the review, is of evidence that came before it.
EvidenceSound ==
    LET steps == inquiry.steps
    IN  /\ Len(steps) <= InitialLimit + FollowupLimit
        /\ \A i \in DOMAIN steps :
              /\ steps[i].id = i
              /\ steps[i].check \in analysis.available \ analysis.broken
              /\ \A k \in DOMAIN steps : steps[k].check = steps[i].check => k = i
              /\ \A n \in steps[i].basis : n < i /\ steps[n].basis = {}
        /\ inquiry.review \subseteq EvidenceIds(steps)
=============================================================================
