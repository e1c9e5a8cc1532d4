---------------------------- MODULE MCBackground -----------------------------
(***************************************************************************)
(* Two services that run in worker processes of their own beside the API:  *)
(* monitoring and ingestion.  They share no state, neither in the code     *)
(* (two SQLite databases) nor in their modules, and no property mentions   *)
(* both, so that nothing is lost by looking at one in each behaviour: the  *)
(* service is chosen at the start, and the other stays as it begins.       *)
(***************************************************************************)
EXTENDS Monitor, Ingestion

VARIABLE service

vars == <<monitorVars, ingestionVars, service>>

MCSpend == [v \in Datasets |-> IF v = 1 THEN 100 ELSE 130]

\* The third row of one source has the key of its first, the rows of the other
\* source all have the same.
MCKeyOf == [c \in Configs |-> IF c = 1 THEN <<"k1", "k2", "k1">> ELSE <<"k2", "k2">>]

BackgroundInit ==
    /\ service \in {"monitoring", "ingestion"}
    /\ MonitorInit /\ IngestionInit
    /\ service # "monitoring" => \A m \in Monitors : dataset[m] = 1
    /\ service # "ingestion" => config = 1

OnlyMonitoring == service = "monitoring" /\ UNCHANGED <<ingestionVars, service>>
OnlyIngestion == service = "ingestion" /\ UNCHANGED <<monitorVars, service>>

BackgroundNext ==
    \/ OnlyMonitoring /\ MonitorNext
    \/ OnlyIngestion /\ IngestionNext

\* The fairness of FairMonitorSpec, and IngestionFairness.
BackgroundFairness ==
    /\ \A w \in Watchers : WF_vars(OnlyMonitoring /\ WatcherStep(w))
    /\ \A w \in Ingesters : SF_vars(OnlyIngestion /\ IngesterStep(w))
    /\ WF_vars(OnlyIngestion /\ BecomeDue)

BackgroundSpec == BackgroundInit /\ [][BackgroundNext]_vars /\ BackgroundFairness
=============================================================================
