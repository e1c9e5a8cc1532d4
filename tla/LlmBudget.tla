----------------------------- MODULE LlmBudget ------------------------------
(***************************************************************************)
(* The budget of model calls: one ledger file of reservations and          *)
(* settlements shared by every process (UsageLedger), the tracker of one   *)
(* workflow run (UsageTracker), both in src/src/aeai_os/llm/budget.py, and *)
(* the gateway that calls the provider between begin and finish            *)
(* (src/src/aeai_os/llm/gateway.py).                                       *)
(*                                                                         *)
(* The file is locked from the reading of its lines to the writing of a    *)
(* new one.  A write may be cut short, by a full disk or by the death of   *)
(* the process; what is written next continues the broken line.            *)
(* Amounts are in an arbitrary unit.                                       *)
(***************************************************************************)
EXTENDS Integers, FiniteSets, Sequences

CONSTANTS Sessions,      \* processes, each with the tracker of its current run
          Estimates,     \* prices that begin may estimate
          Charges,       \* prices that the provider may really charge
          MonthlyCap,    \* policy.monthly_usd
          RunCap,        \* policy.workflow_usd
          MaxCalls,      \* policy.max_calls
          MaxRequests,   \* bound: requests made by all runs together
          MaxMonths,     \* bound: months
          MaxFailures    \* bound: cut or failed writes and dying processes

ASSUME BudgetAssumption ==
    /\ Estimates \subseteq Nat /\ Charges \subseteq Nat
    /\ MonthlyCap \in Nat /\ RunCap \in Nat /\ MaxCalls \in Nat
    /\ MaxRequests \in Nat /\ MaxMonths \in Nat \ {0} /\ MaxFailures \in Nat

VARIABLES lines,         \* the ledger file
          sessions,      \* the trackers
          month,         \* the current month
          requests,      \* request ids drawn so far
          sent,          \* auxiliary: what was really sent, per request id
          failures       \* failures so far

budgetVars == <<lines, sessions, month, requests, sent, failures>>

Requests == 1..MaxRequests

\* A line says that a request costs this much; a later one overrides it.
Line == [whole : BOOLEAN, id : Requests, month : 1..MaxMonths, cost : Nat]

\* calls, spent  requests and _reserved_run_usd   id, reserved, month  the
\* RequestReservation at work   own  ids of this run (auxiliary)
Fresh == [pc |-> "idle", calls |-> 0, spent |-> 0, id |-> 0, reserved |-> 0,
          month |-> 1, own |-> {}]

-----------------------------------------------------------------------------
(* The ledger.                                                             *)

Verified == \A i \in DOMAIN lines : lines[i].whole

\* A sum over the requests.
Total(f) ==
    LET upto[n \in 0..MaxRequests] == IF n = 0 THEN 0 ELSE upto[n - 1] + f[n]
    IN  upto[MaxRequests]

Tells(k, i, m) == lines[k].whole /\ lines[k].month = m /\ lines[k].id = i

\* The line that speaks last for a request in a month, if there is one.
Last(i, m) ==
    {k \in DOMAIN lines : Tells(k, i, m) /\ \A j \in DOMAIN lines : j > k => ~Tells(j, i, m)}

CostOf(i, m) == IF Last(i, m) = {} THEN 0 ELSE lines[CHOOSE k \in Last(i, m) : TRUE].cost

\* Fault: only settled requests count.
Booked_Settled(m) ==
    Total([i \in Requests |->
              IF \E j, k \in DOMAIN lines : j # k /\ Tells(j, i, m) /\ Tells(k, i, m)
              THEN CostOf(i, m) ELSE 0])

\* _monthly_reserved
Booked(m) == Total([i \in Requests |-> CostOf(i, m)])

BrokenEnd == lines # <<>> /\ ~lines[Len(lines)].whole

\* _append: in full, or cut short.
Written(id, m, cost, whole) ==
    lines' = IF BrokenEnd THEN lines
             ELSE Append(lines, [whole |-> whole, id |-> id, month |-> m, cost |-> cost])

Failure == failures < MaxFailures /\ failures' = failures + 1

-----------------------------------------------------------------------------
(* The tracker and the gateway.                                            *)

\* begin: the calls and the budget of the run, then the ledger; nothing is
\* sent unless all three agree.
Admitted(s, estimate) ==
    /\ sessions[s].pc = "idle"
    /\ requests < MaxRequests
    /\ sessions[s].calls < MaxCalls
    /\ sessions[s].spent + estimate <= RunCap
    /\ Verified
    /\ Booked(month) + estimate <= MonthlyCap

Begin(s, estimate) ==
    /\ Admitted(s, estimate)
    /\ requests' = requests + 1
    /\ Written(requests + 1, month, estimate, TRUE)
    /\ sessions' = [sessions EXCEPT ![s] =
          [pc |-> "calling", calls |-> @.calls + 1, spent |-> @.spent + estimate,
           id |-> requests + 1, reserved |-> estimate, month |-> month, own |-> @.own]]
    /\ UNCHANGED <<month, sent, failures>>

\* The write of the reservation is cut short: the request is not sent, by an
\* exception or because the process is gone.
BeginBroken(s, estimate) ==
    /\ Admitted(s, estimate)
    /\ Failure
    /\ requests' = requests + 1
    /\ Written(requests + 1, month, estimate, FALSE)
    /\ \/ UNCHANGED sessions
       \/ sessions' = [sessions EXCEPT ![s] = Fresh]
    /\ UNCHANGED <<month, sent>>

\* The provider is called, and charges what it charges.
Call(s) ==
    /\ sessions[s].pc = "calling"
    /\ \E charge \in Charges :
          sent' = [sent EXCEPT ![sessions[s].id] =
              [month |-> sessions[s].month, reserved |-> sessions[s].reserved,
               charge |-> charge]]
    /\ LET own == sessions[s].own \cup {sessions[s].id}
       IN  sessions' = [sessions EXCEPT ![s] = [@ EXCEPT !.pc = "called", !.own = own]]
    /\ UNCHANGED <<lines, month, requests, failures>>

\* The price of what the provider reported, and the reserve if the call failed
\* or reported nothing.
Cost(s, reported) ==
    IF reported THEN sent[sessions[s].id].charge ELSE sessions[s].reserved

Corrected(s, reported) ==
    sessions[s].spent + Cost(s, reported) - sessions[s].reserved

\* finish: the run's account is corrected, then the settlement is written, cut
\* short, or given up; the run goes on in every case.
Finish(s) ==
    /\ sessions[s].pc = "called"
    /\ \E reported \in BOOLEAN :
          /\ sessions' = [sessions EXCEPT ![s] =
                [@ EXCEPT !.pc = "idle", !.spent = Corrected(s, reported)]]
          /\ \/ /\ Written(sessions[s].id, sessions[s].month, Cost(s, reported), TRUE)
                /\ UNCHANGED failures
             \/ /\ Written(sessions[s].id, sessions[s].month, Cost(s, reported), FALSE)
                /\ Failure
             \/ Failure /\ UNCHANGED lines
    /\ UNCHANGED <<month, requests, sent>>

\* llm_usage_scope: the next run begins with a tracker of its own.
NewScope(s) ==
    /\ sessions[s].pc = "idle"
    /\ sessions[s] # Fresh
    /\ sessions' = [sessions EXCEPT ![s] = Fresh]
    /\ UNCHANGED <<lines, month, requests, sent, failures>>

\* The process dies; what it had reserved stays in the file.
KillSession(s) ==
    /\ sessions[s].pc # "idle"
    /\ Failure
    /\ sessions' = [sessions EXCEPT ![s] = Fresh]
    /\ UNCHANGED <<lines, month, requests, sent>>

NextMonth ==
    /\ month < MaxMonths
    /\ month' = month + 1
    /\ UNCHANGED <<lines, sessions, requests, sent, failures>>

-----------------------------------------------------------------------------
NotSent == [month |-> 0, reserved |-> 0, charge |-> 0]

BudgetInit ==
    /\ lines = <<>>
    /\ sessions = [s \in Sessions |-> Fresh]
    /\ month = 1
    /\ requests = 0
    /\ sent = [i \in Requests |-> NotSent]
    /\ failures = 0

BudgetNext ==
    \/ \E s \in Sessions :
          \/ \E estimate \in Estimates : Begin(s, estimate) \/ BeginBroken(s, estimate)
          \/ Call(s) \/ Finish(s) \/ NewScope(s) \/ KillSession(s)
    \/ NextMonth

BudgetSpec == BudgetInit /\ [][BudgetNext]_budgetVars

-----------------------------------------------------------------------------
(* Properties.                                                             *)

BudgetTypeOK ==
    /\ lines \in Seq(Line)
    /\ sessions \in [Sessions ->
          [pc : {"idle", "calling", "called"}, calls : 0..MaxCalls, spent : Nat,
           id : 0..MaxRequests, reserved : Nat, month : 1..MaxMonths,
           own : SUBSET Requests]]
    /\ requests \in 0..MaxRequests
    /\ sent \in [Requests -> [month : 0..MaxMonths, reserved : Nat, charge : Nat]]

\* What a request costs as far as its estimate was right: the tracker cannot
\* know of a charge beyond the reserve before it is reported.
Foreseen(i) ==
    IF sent[i].charge < sent[i].reserved THEN sent[i].charge ELSE sent[i].reserved

SpentIn(ids) == Total([i \in Requests |-> IF i \in ids THEN Foreseen(i) ELSE 0])

\* All processes together stay within the month's budget.
MonthWithinCap ==
    \A m \in 1..MaxMonths :
        SpentIn({i \in Requests : sent[i].month = m}) <= MonthlyCap

\* One run stays within its own budget and its number of calls.
RunWithinCap ==
    \A s \in Sessions : /\ SpentIn(sessions[s].own) <= RunCap
                        /\ Cardinality(sessions[s].own) <= MaxCalls

\* "Unsettled requests remain reserved after crashes: safer than overspend"
\* (budget.py:101): neither the month's budget nor a run's is exceeded by what
\* was really sent, whichever process dies with a reservation, whatever line of
\* the ledger is cut short, and whether calls fail, report nothing or cost more
\* than was reserved for them.
WithinCaps == MonthWithinCap /\ RunWithinCap
=============================================================================
