----------------------------- MODULE MCServices ------------------------------
(***************************************************************************)
(* What the API and the agents call beside jobs and nodes: the model       *)
(* budget, deployment approvals, the investigation agent, the registry of  *)
(* tool policies, the catalog of data sources, the artifacts of a run and  *)
(* the clients that look at them, the caches of stored files, the reviews  *)
(* of anomalies, the validation of graphs, the figures of a file, saved    *)
(* connections, and sources in warehouses.  No state is shared between     *)
(* them, but for sources and connections, and no property mentions two, so *)
(* that one is looked at in each behaviour, and the others stay as they    *)
(* begin.                                                                  *)
(*                                                                         *)
(* Requests and streams only read their run and no property mentions both: *)
(* a run has one kind of client, or none.  Where it has a client, attempts *)
(* do not break off, datasets are attached between executions, and the     *)
(* task speaks of procurement: the recipe then depends on the data.        *)
(***************************************************************************)
EXTENDS LlmBudget, DeploymentApproval, Investigation, ToolPolicy, SourceCatalog,
        RunResults, ArtifactCache, CaseReviews, ExecutionGraphs, SpendFigures,
        WarehouseData

VARIABLE service

toolVars == <<budgetVars, approvalVars, investigationVars, policyVars, catalogVars>>
runVars == <<pipelineVars, resultVars>>
storeVars == <<cacheVars, caseVars, graphVars, figureVars>>
dataVars == <<connectorVars, warehouseVars>>
vars == <<toolVars, runVars, storeVars, dataVars, service>>

MCPreferred == <<"anomaly_triage", "data_quality", "dataset_overview">>

\* Rules that would open what the defaults close, and rules that close more.
MCExtensions ==
    {Plain("open", "allow", Tools),
     [Plain("open-risky", "allow", Tools) EXCEPT !.risks = {"high"}],
     Plain("destructive-action-deny", "allow", Blocked),
     Plain("later", "retry", External \cup {"deploy_artifact"}),
     [Plain("elsewhere", "escalate", Tools) EXCEPT !.places = {"outside"}],
     [Plain("sealed", "block", ReadOnly) EXCEPT !.sensitive = {TRUE}, !.keys = {"secret"}]}

\* Rows for the audit, the overview and calculations: all kinds of cells.
MCEntries ==
    {Entry(Money(100), Named("a", FALSE), On(1, FALSE, FALSE), BlankName),
     Entry(Money(200), BlankName, On(1, FALSE, TRUE), BlankName),
     Entry(NoMoney, Named("n/a", FALSE), On(2, FALSE, FALSE), BlankName),
     Entry(Boundless, Named("a", FALSE), On(NoDay, FALSE, FALSE), BlankName)}

\* And for the screening: four of twenty, whose order plays no part.
MCPurchase(k) ==
    IF k < 18
    THEN Entry(Money(<<2000, 2300, 18000>>[(k % 3) + 1]), Named("a", (k \div 3) % 2 = 1),
               <<On(1, FALSE, FALSE), On(1, TRUE, FALSE), On(NoDay, FALSE, FALSE)>>[(k \div 6) + 1], BlankName)
    ELSE Entry(Money(2000), Named("a", FALSE), On(1, FALSE, FALSE), Named("7", k = 19))

MCPurchases ==
    {<<MCPurchase(q[1]), MCPurchase(q[2]), MCPurchase(q[3]), MCPurchase(q[4])>> :
        q \in {q \in (0..19) \X (0..19) \X (0..19) \X (0..19) :
                  q[1] <= q[2] /\ q[2] <= q[3] /\ q[3] <= q[4]}}

MCSheets == (MCEntries \X MCEntries) \cup MCPurchases \cup {<<>>}

\* The API and the worker may be deployed with different environments.
Environ(given, mounted) ==
    [k \in SettingKeys |-> IF k \in given THEN "set" ELSE IF k \in mounted THEN "file" ELSE "unset"]
Deployed(api, worker) == [p \in Servers |-> IF p = "api" THEN api ELSE worker]
Bare == Deployed(Environ({}, {}), Environ({"account", "login"}, {}))
MCEnvironments ==
    {Bare, Deployed(Environ({"account", "login", "aws"}, {}), Environ({}, {})),
     Deployed(Environ({"account", "stored"}, {"login"}), Environ({"account"}, {}))}

MCFile == [type |-> "sqlite", installed |-> FALSE, asset |-> FALSE, plain |-> FALSE,
           told |-> {}, uri |-> {"table", "place"}]
MCPosted ==
    {MCFile, [MCFile EXCEPT !.told = {"query"}, !.uri = {"place"}],
     [MCFile EXCEPT !.told = {"table", "place"}, !.uri = {}, !.plain = TRUE],
     [MCFile EXCEPT !.installed = TRUE], [MCFile EXCEPT !.type = "snowflake"],
     [MCFile EXCEPT !.type = "snowflake", !.installed = TRUE, !.told = {"place"}]}

Clients == {"run", "run and requests", "run and stream"}

\* Where a service has several initial states, it has one while another is looked at.
ServicesInit ==
    /\ service \in {"budget", "approval", "investigation", "policy", "catalog",
                    "cache", "reviews", "graph", "figures", "screening",
                    "connection", "warehouse"} \cup Clients
    /\ BudgetInit /\ ApprovalInit /\ InvestigationInit /\ PolicyInit /\ CatalogInit
    /\ ResultsInit /\ CacheInit /\ CasesInit
    /\ service # "approval" => runStatus = "pending"
    /\ service # "run" => intent
    /\ service # "cache" => kind = "url"
    /\ CASE service = "figures" -> file \in MCEntries \X MCEntries
         [] service = "screening" -> file \in MCPurchases
         [] OTHER -> file = <<>>
    /\ FiguresInit
    /\ ConnectorsInit /\ WarehouseInit
    /\ service \notin {"connection", "warehouse"} => environment = Bare /\ secret = {}
    /\ IF service = "graph" THEN GraphInit
       ELSE graph = <<>> /\ verdict = "none" /\ visiting = <<>> /\ visited = {} /\ done = {}

RunStep ==
    \/ /\ PipelineNext /\ UNCHANGED resultVars
       /\ service # "run" => history'.breaks = 0
       /\ service # "run" /\ execution'.status = "running" => ~execution'.shifted
    \/ service = "run and requests" /\ \E a \in Askers : Request(a)
    \/ service = "run and stream" /\ Snapshot

ToolStep ==
    \/ /\ service = "budget" /\ BudgetNext
       /\ UNCHANGED <<approvalVars, investigationVars, policyVars, catalogVars>>
    \/ /\ service = "approval" /\ ApprovalNext
       /\ UNCHANGED <<budgetVars, investigationVars, policyVars, catalogVars>>
    \/ /\ service = "investigation" /\ InvestigationNext
       /\ UNCHANGED <<budgetVars, approvalVars, policyVars, catalogVars>>
    \/ /\ service = "policy" /\ PolicyNext
       /\ UNCHANGED <<budgetVars, approvalVars, investigationVars, catalogVars>>
    \/ /\ service = "catalog" /\ CatalogNext
       /\ UNCHANGED <<budgetVars, approvalVars, investigationVars, policyVars>>

StoreStep ==
    \/ service = "cache" /\ CacheNext /\ UNCHANGED <<caseVars, graphVars, figureVars>>
    \/ service = "reviews" /\ CasesNext /\ UNCHANGED <<cacheVars, graphVars, figureVars>>
    \/ service = "graph" /\ GraphNext /\ UNCHANGED <<cacheVars, caseVars, figureVars>>
    \/ /\ \/ service = "figures" /\ FiguresNext
          \/ service = "screening" /\ Analyse
       /\ UNCHANGED <<cacheVars, caseVars, graphVars>>

\* Where a source is looked at nobody tests, and what no warehouse uses is left out.
DataStep ==
    \/ service = "connection" /\ ConnectorsNext /\ UNCHANGED warehouseVars
    \/ /\ service = "warehouse" /\ ConnectorsNext /\ tests' = tests /\ UNCHANGED warehouseVars
       /\ installation'.connector \in {"none", "sqlite", "snowflake"}
       /\ installation'.reference.names \subseteq {"login"}
       /\ secret' # {"stored"}
    \/ service = "warehouse" /\ WarehouseNext /\ UNCHANGED connectorVars

ServicesNext ==
    /\ UNCHANGED service
    /\ \/ ToolStep /\ UNCHANGED <<runVars, storeVars, dataVars>>
       \/ service \in Clients /\ RunStep /\ UNCHANGED <<toolVars, storeVars, dataVars>>
       \/ StoreStep /\ UNCHANGED <<toolVars, runVars, dataVars>>
       \/ DataStep /\ UNCHANGED <<toolVars, runVars, storeVars>>

ServicesSpec == ServicesInit /\ [][ServicesNext]_vars
=============================================================================
