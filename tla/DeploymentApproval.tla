------------------------- MODULE DeploymentApproval -------------------------
(***************************************************************************)
(* Requests to deploy the artifacts of one run and their approval or       *)
(* denial (src/src/aeai_os/deployments/approvals.py).  A request is a      *)
(* workflow job that waits and is never claimed; a decision is five        *)
(* repository calls, one after the other, none of which looks at what the  *)
(* others left: the artifact, the run's status, the job's result, the      *)
(* event.  Every repository call is a step, calls overlap, and a call may  *)
(* end anywhere by an exception or the death of its process.               *)
(*                                                                         *)
(* Artifact ids, destination, policy and texts are checked before the      *)
(* first write and abstracted to whether the request is accepted.          *)
(***************************************************************************)
EXTENDS Integers, FiniteSets, Sequences

CONSTANTS Deployments,   \* ids of deployment jobs
          Approvers,       \* requests to the API that may be at work at once
          MaxDecisions,  \* bound: decisions begun
          MaxBreaks      \* bound: calls that end half-way

VARIABLES jobOf,         \* the deployment jobs: status and registered artifact
          runStatus,     \* the status of the run
          releases,      \* the deployment artifacts, as the job each is for
          journal,       \* the approval events, <<job, kind>>, in order
          calls,         \* the calls at work
          decisions, breaks,
          disturbed      \* auxiliary: jobs on which calls overlapped or broke

approvalVars ==
    <<jobOf, runStatus, releases, journal, calls, decisions, breaks, disturbed>>

ASSUME ApprovalAssumption == MaxDecisions \in Nat /\ MaxBreaks \in Nat /\ "none" \notin Deployments

NoArtifact == 0

NoCall == [pc |-> "idle", job |-> "none", approved |-> FALSE, artifact |-> NoArtifact]

\* A second call on the job while one is at work on it, or one that breaks.
Busy(d) == \E c \in Approvers : calls[c].pc # "idle" /\ calls[c].job = d

-----------------------------------------------------------------------------
(* request_deployment_approval                                             *)

\* A failed run is refused; artifacts and policy are looked at.
CheckRequest(c) ==
    /\ calls[c].pc = "idle"
    /\ runStatus # "failed"
    /\ \E d \in Deployments : jobOf[d].status = "absent"
    /\ calls' = [calls EXCEPT ![c].pc = "requesting"]
    /\ UNCHANGED <<jobOf, runStatus, releases, journal, decisions, breaks, disturbed>>

EnqueueWaiting(c) ==
    /\ calls[c].pc = "requesting"
    /\ \E d \in Deployments :
          /\ jobOf[d].status = "absent"
          /\ jobOf' = [jobOf EXCEPT ![d].status = "waiting"]
          /\ calls' = [calls EXCEPT ![c].pc = "pausing", ![c].job = d]
    /\ UNCHANGED <<runStatus, releases, journal, decisions, breaks, disturbed>>

PauseRun(c) ==
    /\ calls[c].pc = "pausing"
    /\ runStatus' = "waiting"
    /\ calls' = [calls EXCEPT ![c].pc = "announcing"]
    /\ UNCHANGED <<jobOf, releases, journal, decisions, breaks, disturbed>>

AnnounceRequest(c) ==
    /\ calls[c].pc = "announcing"
    /\ journal' = Append(journal, <<calls[c].job, "requested">>)
    /\ calls' = [calls EXCEPT ![c] = NoCall]
    /\ UNCHANGED <<jobOf, runStatus, releases, decisions, breaks, disturbed>>

-----------------------------------------------------------------------------
(* decide_deployment_approval                                              *)

BeginDecision(c, d, approved) ==
    /\ decisions < MaxDecisions
    /\ decisions' = decisions + 1
    /\ calls' = [calls EXCEPT ![c] =
          [NoCall EXCEPT !.pc = IF approved THEN "registering" ELSE "settling run",
                         !.job = d, !.approved = approved]]
    /\ disturbed' = IF Busy(d) THEN disturbed \cup {d} ELSE disturbed
    /\ UNCHANGED <<jobOf, runStatus, releases, journal, breaks>>

\* Fault: a job that was decided before is decided again.
ReadDecidable_Any(c, d, approved) ==
    /\ calls[c].pc = "idle"
    /\ jobOf[d].status # "absent"
    /\ BeginDecision(c, d, approved)

\* The job is read and must be waiting.
ReadDecidable(c, d, approved) ==
    /\ calls[c].pc = "idle"
    /\ jobOf[d].status = "waiting"
    /\ BeginDecision(c, d, approved)

RegisterRelease(c) ==
    /\ calls[c].pc = "registering"
    /\ releases' = Append(releases, calls[c].job)
    /\ calls' = [calls EXCEPT ![c].pc = "settling run",
                              ![c].artifact = Len(releases) + 1]
    /\ UNCHANGED <<jobOf, runStatus, journal, decisions, breaks, disturbed>>

\* Outcome of a decision, for the run and for the job alike.
Verdict(c) == IF calls[c].approved THEN "completed" ELSE "failed"

SettleRun(c) ==
    /\ calls[c].pc = "settling run"
    /\ runStatus' = Verdict(c)
    /\ calls' = [calls EXCEPT ![c].pc = "settling job"]
    /\ UNCHANGED <<jobOf, releases, journal, decisions, breaks, disturbed>>

\* update_workflow_job_result, on the record as it is by now.
SettleJob(c) ==
    /\ calls[c].pc = "settling job"
    /\ jobOf' = [jobOf EXCEPT ![calls[c].job] =
          [status |-> Verdict(c), artifact |-> calls[c].artifact]]
    /\ calls' = [calls EXCEPT ![c].pc = "reporting"]
    /\ UNCHANGED <<runStatus, releases, journal, decisions, breaks, disturbed>>

ReportDecision(c) ==
    /\ calls[c].pc = "reporting"
    /\ journal' = Append(journal, <<calls[c].job, Verdict(c)>>)
    /\ calls' = [calls EXCEPT ![c] = NoCall]
    /\ UNCHANGED <<jobOf, runStatus, releases, decisions, breaks, disturbed>>

-----------------------------------------------------------------------------
\* An exception of the repository or the death of the process.
BreakOff(c) ==
    /\ calls[c].pc # "idle"
    /\ breaks < MaxBreaks
    /\ breaks' = breaks + 1
    /\ disturbed' = disturbed \cup (Deployments \cap {calls[c].job})
    /\ calls' = [calls EXCEPT ![c] = NoCall]
    /\ UNCHANGED <<jobOf, runStatus, releases, journal, decisions>>

\* Some node of the workflow has left an artifact; the run may be anywhere.
ApprovalInit ==
    /\ jobOf = [d \in Deployments |-> [status |-> "absent", artifact |-> NoArtifact]]
    /\ runStatus \in {"pending", "running", "completed", "failed"}
    /\ releases = <<>>
    /\ journal = <<>>
    /\ calls = [c \in Approvers |-> NoCall]
    /\ decisions = 0
    /\ breaks = 0
    /\ disturbed = {}

CallStep(c) ==
    \/ CheckRequest(c) \/ EnqueueWaiting(c) \/ PauseRun(c) \/ AnnounceRequest(c)
    \/ \E d \in Deployments, approved \in BOOLEAN : ReadDecidable(c, d, approved)
    \/ RegisterRelease(c) \/ SettleRun(c) \/ SettleJob(c) \/ ReportDecision(c)
    \/ BreakOff(c)

ApprovalNext == \E c \in Approvers : CallStep(c)

ApprovalSpec == ApprovalInit /\ [][ApprovalNext]_approvalVars

-----------------------------------------------------------------------------
(* Properties.                                                             *)

ApprovalTypeOK ==
    /\ jobOf \in [Deployments -> [status : {"absent", "waiting", "completed", "failed"},
                                  artifact : Nat]]
    /\ runStatus \in {"pending", "running", "waiting", "completed", "failed"}
    /\ releases \in Seq(Deployments)
    /\ journal \in Seq(Deployments \X {"requested", "completed", "failed"})
    /\ calls \in [Approvers ->
          [pc : {"idle", "requesting", "pausing", "announcing", "registering",
                 "settling run", "settling job", "reporting"},
           job : Deployments \cup {"none"}, approved : BOOLEAN, artifact : Nat]]
    /\ decisions \in 0..MaxDecisions
    /\ breaks \in 0..MaxBreaks
    /\ disturbed \subseteq Deployments

ReleasesOf(d) == {i \in DOMAIN releases : releases[i] = d}
EventsOf(d, kind) == {i \in DOMAIN journal : journal[i] = <<d, kind>>}

\* "approval completes the job and creates a deployment artifact"
\* (docs/development.md:310): a completed deployment names an artifact that was
\* registered for it, whatever other decision was taken meanwhile and wherever
\* calls broke off.
CompletedIsReleased ==
    \A d \in Deployments :
        jobOf[d].status = "completed" => jobOf[d].artifact \in ReleasesOf(d)

\* As long as no two calls were at work on a job at once, and none broke off,
\* its record, its artifacts and its events tell one story: a request decided
\* exactly once, with an artifact exactly if it was approved.  The other jobs of
\* the run may be disturbed as they like.
RecordsAgree ==
    /\ CompletedIsReleased
    /\ \A d \in Deployments :
          (d \notin disturbed /\ ~Busy(d)) =>
             LET s == jobOf[d].status
             IN  /\ Cardinality(EventsOf(d, "requested"))
                       = IF s = "absent" THEN 0 ELSE 1
                 /\ Cardinality(ReleasesOf(d)) = IF s = "completed" THEN 1 ELSE 0
                 /\ \A kind \in {"completed", "failed"} :
                       Cardinality(EventsOf(d, kind)) = IF s = kind THEN 1 ELSE 0
=============================================================================
