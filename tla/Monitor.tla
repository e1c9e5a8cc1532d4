------------------------------ MODULE Monitor -------------------------------
(***************************************************************************)
(* Scheduled monitoring: the SQLite store of monitors, dispatches and      *)
(* alerts (src/src/aeai_os/monitoring/store.py), and the worker processes  *)
(* that claim due monitors in batches and execute them one after the other *)
(* (engine.py, worker.py).                                                 *)
(*                                                                         *)
(* The store runs every statement in autocommit except claim, which is one *)
(* immediate transaction; so each statement is an action, and what         *)
(* execute_claim keeps between statements is in watchers[w].  An update    *)
(* that changes no column modelled here is part of the statement before    *)
(* it.  The investigation itself is one step that reads the dataset.       *)
(***************************************************************************)
EXTENDS Integers, FiniteSets, Sequences

CONSTANTS Monitors,      \* the monitors of a workspace
          OnChange,      \* those created with only_on_change
          Watchers,      \* worker processes
          Datasets,      \* versions the monitored files go through; their hash
          Anomalous,     \* versions whose anomaly count reaches anomaly_limit
          Incomplete,    \* versions below minimum_completeness
          Spend,         \* total_spend of each version
          SpendLimit,    \* spend_change_pct
          BatchLimit,    \* max_claims of process_due
          MaxDispatches, \* bound: occasions on which some monitor becomes due
          MaxTroubles    \* bound: exceptions and dying workers together

VARIABLES monitors,      \* the table monitors
          dispatches,    \* the table monitor_runs, in the order of its rows
          alerts,        \* the table monitoring_alerts, as <<dispatch, rule>>
          watchers,      \* where each worker is in process_due
          dataset,       \* the version of each monitored file
          occasions,     \* auxiliary: how often each monitor became due
          troubles       \* exceptions and deaths so far

monitorVars ==
    <<monitors, dispatches, alerts, watchers, dataset, occasions, troubles>>

ASSUME MonitorAssumption ==
    /\ IsFiniteSet(Monitors) /\ OnChange \subseteq Monitors
    /\ Datasets \subseteq Nat \ {0} /\ Datasets # {}
    /\ Anomalous \subseteq Datasets /\ Incomplete \subseteq Datasets
    /\ Spend \in [Datasets -> Nat]
    /\ SpendLimit \in Nat /\ BatchLimit \in Nat \ {0}
    /\ MaxDispatches \in Nat /\ MaxTroubles \in Nat

Unset == 0   \* no fingerprint, no baseline

\* seen, read  the version the dispatch was fingerprinted at, and analysed at
\* base        the version whose metrics it was compared with
\* done        its position among the completed ones (finished_at)
Dispatch ==
    [of : Monitors, status : {"running", "completed", "skipped", "failed"},
     seen : Datasets \cup {Unset}, read : Datasets \cup {Unset},
     base : Datasets \cup {Unset}, done : Nat]

NewDispatch(m) ==
    [of |-> m, status |-> "running", seen |-> Unset, read |-> Unset,
     base |-> Unset, done |-> 0]

\* A claimed record is a copy of the monitor's row before the claim.
ClaimedRow == [id : Nat \ {0}, of : Monitors, force : BOOLEAN,
            last : Datasets \cup {Unset}]

Resting == [pc |-> "idle", todo |-> <<>>, seen |-> Unset, read |-> Unset,
            base |-> Unset, found |-> {}]

Rules == {"anomalies", "completeness", "spend_change"}

\* evaluate_thresholds: what a check of version v finds, against baseline b.
Found(v, b) ==
    {rule \in Rules :
        \/ rule = "anomalies" /\ v \in Anomalous
        \/ rule = "completeness" /\ v \in Incomplete
        \/ /\ rule = "spend_change" /\ b # Unset
           /\ Spend[b] > 0
           /\ \/ 100 * (Spend[v] - Spend[b]) >= SpendLimit * Spend[b]
              \/ 100 * (Spend[b] - Spend[v]) >= SpendLimit * Spend[b]}

-----------------------------------------------------------------------------
(* The API and the clock.                                                  *)

\* A time at which the monitor is due; being due twice is being due once.
Due(m) ==
    /\ Len(dispatches) + Cardinality({k \in Monitors : monitors[k].due})
          < MaxDispatches
    /\ occasions' = [occasions EXCEPT ![m] = @ + 1]

SetEnabled(m) ==
    /\ monitors' = [monitors EXCEPT ![m].enabled = ~@]
    /\ UNCHANGED <<dispatches, alerts, watchers, dataset, occasions, troubles>>

\* trigger: due now, and executed whether or not the dataset has changed.
Trigger(m) ==
    /\ monitors[m].enabled
    /\ IF monitors[m].due THEN UNCHANGED occasions ELSE Due(m)
    /\ monitors' = [monitors EXCEPT ![m].due = TRUE, ![m].force = TRUE]
    /\ UNCHANGED <<dispatches, alerts, watchers, dataset, troubles>>

\* next_due_at has come.
Elapse(m) ==
    /\ ~monitors[m].due
    /\ Due(m)
    /\ monitors' = [monitors EXCEPT ![m].due = TRUE]
    /\ UNCHANGED <<dispatches, alerts, watchers, dataset, troubles>>

\* The file is replaced, perhaps by an earlier content.
EditDataset(m) ==
    /\ \E v \in Datasets \ {dataset[m]} : dataset' = [dataset EXCEPT ![m] = v]
    /\ UNCHANGED <<monitors, dispatches, alerts, watchers, occasions, troubles>>

-----------------------------------------------------------------------------
(* The worker.                                                             *)

\* Fault: only scheduled checks are looked for, not forced ones.
DueMonitors_NotForced == {m \in Monitors : monitors[m].enabled /\ monitors[m].due
                                         /\ ~monitors[m].force}

DueMonitors == {m \in Monitors : monitors[m].enabled /\ monitors[m].due}

Batches ==
    LET n == IF Cardinality(DueMonitors) < BatchLimit
             THEN Cardinality(DueMonitors) ELSE BatchLimit
    IN  {b \in [1..n -> DueMonitors] : \A i, k \in 1..n : b[i] = b[k] => i = k}

\* Fault: the time of the next check is left as it is.
Advanced_Kept(row) == [row EXCEPT !.force = FALSE]

\* next_due_at moves on before the execution, the request to force is used up.
Advanced(row) == [row EXCEPT !.due = FALSE, !.force = FALSE]

\* claim: the rows are updated and the dispatches recorded in one transaction.
ClaimDue(w) ==
    /\ watchers[w].pc = "idle"
    /\ DueMonitors # {}
    /\ \E batch \in Batches :
          /\ Len(dispatches) + Len(batch) <= MaxDispatches
          /\ monitors' = [m \in Monitors |->
                IF \E i \in DOMAIN batch : batch[i] = m
                THEN Advanced(monitors[m]) ELSE monitors[m]]
          /\ dispatches' = dispatches \o [i \in DOMAIN batch |-> NewDispatch(batch[i])]
          /\ watchers' = [watchers EXCEPT ![w].pc = "claimed",
                ![w].todo = [i \in DOMAIN batch |->
                    [id |-> Len(dispatches) + i, of |-> batch[i],
                     force |-> monitors[batch[i]].force,
                     last |-> monitors[batch[i]].last]]]
    /\ UNCHANGED <<alerts, dataset, occasions, troubles>>

Current(w) == Head(watchers[w].todo)

\* execute_claim returns; process_due goes on with the rest of its batch.
NextClaim(w) ==
    watchers' = [watchers EXCEPT ![w] =
        [Resting EXCEPT !.todo = Tail(watchers[w].todo),
                        !.pc = IF Len(watchers[w].todo) > 1 THEN "claimed" ELSE "idle"]]

\* The file is hashed and compared with the fingerprint of the claimed record.
Fingerprint(w) ==
    LET c == Current(w)
        same == c.of \in OnChange /\ ~c.force /\ dataset[c.of] = c.last
    IN  /\ watchers[w].pc = "claimed"
        /\ watchers' = [watchers EXCEPT
              ![w].seen = dataset[c.of],
              ![w].pc = IF same THEN "skipping" ELSE "comparing"]
        /\ UNCHANGED <<monitors, dispatches, alerts, dataset, occasions, troubles>>

Skip(w) ==
    /\ watchers[w].pc = "skipping"
    /\ dispatches' = [dispatches EXCEPT ![Current(w).id].status = "skipped",
                                        ![Current(w).id].seen = watchers[w].seen]
    /\ NextClaim(w)
    /\ UNCHANGED <<monitors, alerts, dataset, occasions, troubles>>

\* last_completed: the baseline is the check that finished last.
Compare(w) ==
    LET done == {i \in DOMAIN dispatches : /\ dispatches[i].of = Current(w).of
                                           /\ dispatches[i].status = "completed"}
    IN  /\ watchers[w].pc = "comparing"
        /\ \E b \in Datasets \cup {Unset} :
              /\ IF done = {} THEN b = Unset
                 ELSE \E i \in done : /\ b = dispatches[i].read
                                      /\ \A k \in done :
                                            dispatches[k].done <= dispatches[i].done
              /\ watchers' = [watchers EXCEPT ![w].pc = "executing", ![w].base = b]
        /\ UNCHANGED <<monitors, dispatches, alerts, dataset, occasions, troubles>>

\* create_run, execute_fn and the metrics: the file is read again.
Execute(w) ==
    LET v == dataset[Current(w).of]
    IN  /\ watchers[w].pc = "executing"
        /\ watchers' = [watchers EXCEPT ![w].pc = "alerting", ![w].read = v,
                                        ![w].found = Found(v, watchers[w].base)]
        /\ UNCHANGED <<monitors, dispatches, alerts, dataset, occasions, troubles>>

RaiseAlert(w) ==
    /\ watchers[w].pc = "alerting"
    /\ \E rule \in watchers[w].found :
          /\ alerts' = alerts \cup {<<Current(w).id, rule>>}
          /\ watchers' = [watchers EXCEPT ![w].found = @ \ {rule}]
    /\ UNCHANGED <<monitors, dispatches, dataset, occasions, troubles>>

Completed(w) ==
    /\ dispatches' = [dispatches EXCEPT ![Current(w).id] =
          [@ EXCEPT !.status = "completed", !.seen = watchers[w].seen,
                    !.read = watchers[w].read, !.base = watchers[w].base,
                    !.done = 1 + Cardinality({i \in DOMAIN dispatches :
                                     dispatches[i].status = "completed"})]]
    /\ watchers' = [watchers EXCEPT ![w].pc = "recording"]
    /\ UNCHANGED <<monitors, alerts, dataset, occasions, troubles>>

\* The first statement of finish(completed).
FinishRow(w) ==
    /\ watchers[w].pc = "alerting"
    /\ watchers[w].found = {}
    /\ Completed(w)

\* The second: the fingerprint that later checks are compared with.
Record(w) ==
    /\ watchers[w].pc = "recording"
    /\ monitors' = [monitors EXCEPT ![Current(w).of].last = watchers[w].seen]
    /\ NextClaim(w)
    /\ UNCHANGED <<dispatches, alerts, dataset, occasions, troubles>>

Trouble == troubles < MaxTroubles /\ troubles' = troubles + 1

\* Any statement or agent may raise; what is written stays written.
Raise(w) ==
    /\ watchers[w].pc \in {"claimed", "skipping", "comparing", "executing",
                           "alerting", "recording"}
    /\ Trouble
    /\ watchers' = [watchers EXCEPT ![w].pc = "failing"]
    /\ UNCHANGED <<monitors, dispatches, alerts, dataset, occasions>>

\* Fault: the fingerprint of a failed check is remembered as well.
FailRow_Recorded(w) ==
    /\ watchers[w].pc = "failing"
    /\ dispatches' = [dispatches EXCEPT ![Current(w).id].status =
          IF @ = "running" THEN "failed" ELSE @]
    /\ monitors' = [monitors EXCEPT ![Current(w).of].last = watchers[w].seen]
    /\ watchers' = [watchers EXCEPT ![w].pc = "reporting"]
    /\ UNCHANGED <<alerts, dataset, occasions, troubles>>

\* finish(failed): a dispatch that is completed already stays completed.
FailRow(w) ==
    /\ watchers[w].pc = "failing"
    /\ dispatches' = [dispatches EXCEPT ![Current(w).id].status =
          IF @ = "running" THEN "failed" ELSE @]
    /\ watchers' = [watchers EXCEPT ![w].pc = "reporting"]
    /\ UNCHANGED <<monitors, alerts, dataset, occasions, troubles>>

ReportFailure(w) ==
    /\ watchers[w].pc = "reporting"
    /\ alerts' = alerts \cup {<<Current(w).id, "execution_failure">>}
    /\ NextClaim(w)
    /\ UNCHANGED <<monitors, dispatches, dataset, occasions, troubles>>

\* The process dies, or an exception leaves the except clause; its batch is
\* forgotten.
StopWatching(w) ==
    /\ watchers[w].pc # "idle"
    /\ Trouble
    /\ watchers' = [watchers EXCEPT ![w] = Resting]
    /\ UNCHANGED <<monitors, dispatches, alerts, dataset, occasions>>

-----------------------------------------------------------------------------
\* As create leaves the monitors: disabled and due at once.
MonitorInit ==
    /\ monitors = [m \in Monitors |->
          [enabled |-> FALSE, due |-> TRUE, force |-> FALSE, last |-> Unset]]
    /\ dispatches = <<>>
    /\ alerts = {}
    /\ watchers = [w \in Watchers |-> Resting]
    /\ dataset \in [Monitors -> Datasets]
    /\ occasions = [m \in Monitors |-> 1]
    /\ troubles = 0

WatcherStep(w) ==
    \/ ClaimDue(w) \/ Fingerprint(w) \/ Skip(w) \/ Compare(w) \/ Execute(w)
    \/ RaiseAlert(w) \/ FinishRow(w) \/ Record(w) \/ FailRow(w) \/ ReportFailure(w)

MonitorNext ==
    \/ \E m \in Monitors : SetEnabled(m) \/ Trigger(m) \/ Elapse(m) \/ EditDataset(m)
    \/ \E w \in Watchers : WatcherStep(w) \/ Raise(w) \/ StopWatching(w)

MonitorSpec == MonitorInit /\ [][MonitorNext]_monitorVars

\* The worker loop polls for ever and what it executes returns.
FairMonitorSpec == MonitorSpec /\ \A w \in Watchers : WF_monitorVars(WatcherStep(w))

-----------------------------------------------------------------------------
(* Properties.                                                             *)

MonitorTypeOK ==
    /\ monitors \in [Monitors -> [enabled : BOOLEAN, due : BOOLEAN, force : BOOLEAN,
                                  last : Datasets \cup {Unset}]]
    /\ dispatches \in Seq(Dispatch)
    /\ Len(dispatches) <= MaxDispatches
    /\ alerts \subseteq (DOMAIN dispatches) \X (Rules \cup {"execution_failure"})
    /\ dataset \in [Monitors -> Datasets]
    /\ occasions \in [Monitors -> Nat]
    /\ troubles \in 0..MaxTroubles
    /\ \A w \in Watchers :
          /\ watchers[w].todo \in Seq(ClaimedRow)
          /\ watchers[w].pc = "idle" <=> watchers[w].todo = <<>>
          /\ watchers[w].found \subseteq Rules

DispatchesOf(m) == {i \in DOMAIN dispatches : dispatches[i].of = m}

\* "Advance next_due before executing (at-most-once)" (store.py:198): however
\* many workers poll, and whatever is forced meanwhile, a monitor is
\* dispatched no more often than it became due.
AtMostOnce == \A m \in Monitors : Cardinality(DispatchesOf(m)) <= occasions[m]

\* A check is skipped only on the strength of a completed check that recorded
\* the same fingerprint: a dataset whose analysis failed or died is never
\* taken for known (the CASE in finish).
SkippedIsKnown ==
    \A i \in DOMAIN dispatches :
        dispatches[i].status = "skipped" =>
            \E k \in DispatchesOf(dispatches[i].of) :
                /\ dispatches[k].status = "completed"
                /\ dispatches[k].seen = dispatches[i].seen

\* Nobody sees a completed check whose alerts are missing, also when the
\* worker died or an exception came between the two.
CompletedIsReported ==
    \A i \in DOMAIN dispatches :
        dispatches[i].status = "completed" =>
            \A rule \in Found(dispatches[i].read, dispatches[i].base) :
                <<i, rule>> \in alerts

\* What a dispatch came to can be relied on, by those who read it and by the
\* next check (finish, process_one).
OutcomesReliable == SkippedIsKnown /\ CompletedIsReported

\* A monitor that is due and enabled is dispatched, or disabled first, forced
\* checks like scheduled ones.
DueIsDispatched ==
    \A m \in Monitors :
        monitors[m].enabled /\ monitors[m].due
          ~> ~monitors[m].enabled \/ ~monitors[m].due
=============================================================================
