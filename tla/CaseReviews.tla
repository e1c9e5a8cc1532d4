------------------------------ MODULE CaseReviews ------------------------------
(***************************************************************************)
(* The review of anomalies by investigators                                *)
(* (src/src/aeai_os/api/investigations.py).  A case is nowhere stored: it  *)
(* is an anomaly of the run's last analysis, known by the row it was found *)
(* in, together with the update events that name this row.  An update      *)
(* reads the case, and writes an event that repeats what it does not       *)
(* change; nothing keeps two updates apart.  The assignee is repeated in   *)
(* the same way as the status, and stands for nothing else here; of a      *)
(* resolved case the code knows nothing that it does not of one being      *)
(* investigated.                                                           *)
(***************************************************************************)
EXTENDS Naturals, Sequences

CONSTANTS
    Reviewers,
    Rows,          \* rows of the dataset in which anomalies may be found
    MaxUpdates, MaxAnalyses       \* bounds

VARIABLES
    anomalies,     \* rows of the last analysis' anomalies
    analyses,      \* how many analyses there have been
    updates,       \* the update events of the run, oldest first
    reviews        \* what each reviewer is at

caseVars == <<anomalies, analyses, updates, reviews>>

Dispositions == {"confirmed", "dismissed"}
Unasked == "unasked"

\* An update that asks for no status assigns the case, or comments on it.
ReviewRequests == [status : Dispositions \cup {"investigating", Unasked}, rationale : BOOLEAN]

\* A disposition comes with a rationale.
Admissible(request) == request.status \in Dispositions => request.rationale

History(row) == {i \in DOMAIN updates : updates[i].row = row}
Latest(history) == CHOOSE i \in history : \A k \in history : k <= i

\* The status of a case: that of its last event.
Status(row) == IF History(row) = {} THEN "new" ELSE updates[Latest(History(row))].status

NoReview == [pc |-> "idle"]
Overlapped(r, row) == \E q \in Reviewers \ {r} : reviews[q].pc = "read" /\ reviews[q].row = row

\* The case must be one of the last analysis.
ReadCase(r, row, request) ==
    /\ reviews[r].pc = "idle" /\ row \in anomalies
    /\ Len(updates) < MaxUpdates
    /\ Admissible(request)
    /\ reviews' = [q \in Reviewers |->
           IF q = r THEN [pc |-> "read", row |-> row, request |-> request, current |-> Status(row),
                          alone |-> ~Overlapped(r, row)]
           ELSE IF reviews[q].pc = "read" /\ reviews[q].row = row
           THEN [reviews[q] EXCEPT !.alone = FALSE]
           ELSE reviews[q]]
    /\ UNCHANGED <<anomalies, analyses, updates>>

\* Fault: the comment of a disposition reopens the case.
Kept_Fresh(asked, current) == IF asked = Unasked THEN "new" ELSE asked
Kept(asked, current) == IF asked = Unasked THEN current ELSE asked

WriteUpdate(r) ==
    /\ reviews[r].pc = "read"
    /\ LET request == reviews[r].request
           current == reviews[r].current
       IN  updates' = Append(updates,
               [row |-> reviews[r].row, asked |-> request.status, alone |-> reviews[r].alone,
                status |-> Kept(request.status, current), rationale |-> request.rationale])
    /\ reviews' = [reviews EXCEPT ![r] = NoReview]
    /\ UNCHANGED <<anomalies, analyses>>

\* Another execution finds anomalies in other rows, or in rows that hold something else by now.
AnalyzeAgain ==
    /\ analyses < MaxAnalyses
    /\ analyses' = analyses + 1
    /\ anomalies' \in SUBSET Rows
    /\ UNCHANGED <<updates, reviews>>

CasesInit ==
    /\ anomalies = {} /\ analyses = 0
    /\ updates = <<>>
    /\ reviews = [r \in Reviewers |-> NoReview]

CasesNext ==
    \/ \E r \in Reviewers :
           \/ \E row \in Rows, request \in ReviewRequests : ReadCase(r, row, request)
           \/ WriteUpdate(r)
    \/ AnalyzeAgain

CasesSpec == CasesInit /\ [][CasesNext]_caseVars

(***************************************************************************)
(* Properties                                                              *)
(***************************************************************************)

\* What was asked for last.
LastAsked(row) ==
    LET asked == {i \in History(row) : updates[i].asked # Unasked}
    IN  IF asked = {} THEN "new" ELSE updates[Latest(asked)].asked

\* A confirmed or dismissed case has a rationale for just that disposition on file, through
\* comments and assignments that repeat the status, overlapping updates and new analyses;
\* and as long as the updates of a case did not overlap, its status is the last one asked for
\* (update_investigation; the "audited rationale" of README.md).
CasesAsDecided ==
    \A row \in Rows :
        /\ Status(row) \in Dispositions =>
              \E i \in History(row) : updates[i].asked = Status(row) /\ updates[i].rationale
        /\ (\A i \in History(row) : updates[i].alone) => Status(row) = LastAsked(row)
=============================================================================
