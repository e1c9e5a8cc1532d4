---------------------------- MODULE WarehouseData -----------------------------
(***************************************************************************)
(* Data sources in warehouses and the runs that read them: what a source   *)
(* refers to and through which connection (src/src/aeai_os/data/           *)
(* warehouse.py), its validation in the API (data/sources.py), its         *)
(* publication from a saved connection (connectors/explorer.py,            *)
(* api/connectors.py), and the planner, the retrieval and the analysis     *)
(* agents of a run, which each resolve the connection again and read the   *)
(* table anew, in the API's process or in a worker's.                      *)
(*                                                                         *)
(* An agent fetches its rows, as many as the limit allows, and then asks   *)
(* for the columns.  The table may change at any time.                     *)
(***************************************************************************)
EXTENDS Connectors, Sequences

CONSTANTS FetchLimit,        \* row_limit of the adapters (10 000 in the code)
          Posted,          \* the sources that may be posted
          MaxAlterations   \* bound: how often the table changes

VARIABLES dataSource,      \* the registered source
          validated,       \* the connection and the secret of its last validation
          server,          \* the process that executes the run
          table,           \* how often the table changed, and its rows
          readings         \* what the agents of the run have read so far

warehouseVars == <<dataSource, validated, server, table, readings>>

ReadingAgents == <<"planner", "data_retrieval", "analytics_code">>

\* A source of a type, with the names its metadata and its URI tell of; the URI may be a plain
\* path; metadata may name the installation, which an asset published from it always does.
WarehouseNames == {"table", "query", "place"}
NoSource == [type |-> "none", installed |-> FALSE, asset |-> FALSE, plain |-> FALSE, told |-> {}, uri |-> {}]
PostedSources ==
    {s \in [type : {"sqlite", "snowflake"}, installed : BOOLEAN, asset : {FALSE}, plain : BOOLEAN,
            told : SUBSET WarehouseNames, uri : SUBSET WarehouseNames] : s.plain => s.uri = {}}

ASSUME WarehouseAssumption ==
    FetchLimit \in Nat /\ MaxAlterations \in Nat /\ Posted \subseteq PostedSources

\* registration_spec, with what the request adds.  A table is one of the configured database
\* and schema, or of the configured file.
AssetSource(extra) ==
    [type |-> installation.connector, installed |-> TRUE, asset |-> TRUE, plain |-> FALSE,
     told |-> {"table", "place"} \cup extra, uri |-> {"table", "place"}]

-----------------------------------------------------------------------------
(* References and connections.                                             *)

Told(s, name) == IF name \in s.told THEN "metadata" ELSE IF name \in s.uri THEN "uri" ELSE "none"

\* WarehouseDatasetReference: one of table and query.
RefersToOne(s) == (Told(s, "table") = "none") # (Told(s, "query") = "none")

\* The database and schema of Snowflake are of the URI where the table is.
PlaceOf(s) ==
    IF s.type = "snowflake" /\ Told(s, "table") = "uri" /\ "place" \in s.uri THEN "uri"
    ELSE IF s.type = "snowflake" /\ "place" \notin s.told THEN "none"
    ELSE Told(s, "place")

\* warehouse_reference_from_metadata.  The place of an asset is that of its installation.
Reference(s) ==
    [table |-> Told(s, "table"), query |-> Told(s, "query"),
     place |-> IF s.asset THEN "configuration" ELSE PlaceOf(s)]

NoConnection == [path |-> NotSet, account |-> NotSet, login |-> NotSet]

ToFile(by) == [NoConnection EXCEPT !.path = IF by = "none" THEN NotSet ELSE Setting(by, "none", 0)]

ToSnowflake(settings) ==
    IF SnowflakeOpens(settings)
    THEN [NoConnection EXCEPT !.account = settings["account"], !.login = settings["login"]]
    ELSE NoConnection

\* default_warehouse_registry
ByReference(s, p) ==
    IF s.type = "sqlite" THEN ToFile(Reference(s).place) ELSE ToSnowflake(OfProcess(p))

\* warehouse_connector of the explorer.
ByInstallation(p) ==
    CASE installation.connector = "sqlite" -> ToFile("configuration")
      [] installation.connector = "snowflake" /\ ReferenceResolves(p) -> ToSnowflake(Effective(p))
      [] OTHER -> NoConnection

\* validate_record.  SQLite is looked up without the installation, Snowflake with its settings
\* whatever its connector is; without an installation Snowflake is not asked.
Validation(s) ==
    IF ~RefersToOne(s) THEN NoConnection
    ELSE IF s.type # "snowflake" THEN ByReference(s, "api")
    ELSE IF s.installed
    THEN IF ReferenceResolves("api") THEN ToSnowflake(Effective("api")) ELSE NoConnection
    ELSE IF Complete("snowflake", OfProcess("api"))
    THEN [NoConnection EXCEPT !.account = OfProcess("api")["account"],
                              !.login = OfProcess("api")["login"]]
    ELSE NoConnection

\* The same in each agent.  The metadata of a run's dataset do not tell the warehouse: its
\* URI has to.
ForAgent(s, p) ==
    IF s.plain \/ ~RefersToOne(s) THEN NoConnection
    ELSE IF ~s.installed THEN ByReference(s, p)
    ELSE IF installation.connector = s.type THEN ByInstallation(p)
    ELSE NoConnection

-----------------------------------------------------------------------------
Validated(s) ==
    /\ Validation(s) # NoConnection
    /\ validated' = [connection |-> Validation(s), rotation |-> rotation]

\* register_installation_asset
PublishAsset(extra) ==
    /\ dataSource = NoSource /\ installation.connector \in {"sqlite", "snowflake"}
    /\ dataSource' = AssetSource(extra) /\ Validated(dataSource')
    /\ UNCHANGED <<server, table, readings>>

\* register_data_source
Post(s) ==
    /\ dataSource = NoSource /\ (s.installed => installation # NoInstallation)
    /\ dataSource' = s /\ Validated(s)
    /\ UNCHANGED <<server, table, readings>>

\* A run of the source: validate_for_execution in the API; it is executed by the process p.
BeginRun(p) ==
    /\ dataSource # NoSource /\ server = "none" /\ Validated(dataSource)
    /\ server' = p
    /\ UNCHANGED <<dataSource, table, readings>>

ReadingFailed(reading) == reading.connection = NoConnection
Halfway == readings # <<>> /\ ~ReadingFailed(readings[Len(readings)]) /\ readings[Len(readings)].columns < 0

\* LIMIT, without an order.
RowsRead == IF table.rows < FetchLimit THEN table.rows ELSE FetchLimit

\* rows() of the next agent's adapter; the run fails if it has no connection.
FetchRows ==
    /\ server # "none" /\ Len(readings) < Len(ReadingAgents) /\ ~Halfway
    /\ \A i \in DOMAIN readings : ~ReadingFailed(readings[i])
    /\ readings' = Append(readings,
           [connection |-> ForAgent(dataSource, server), reference |-> Reference(dataSource), rotation |-> rotation,
            rows |-> RowsRead, at |-> table.changes, columns |-> -1])
    /\ UNCHANGED <<dataSource, validated, server, table>>

\* columns(): described by the connector the adapter has.
DescribeColumns ==
    /\ Halfway
    /\ readings' = [readings EXCEPT ![Len(readings)].columns = table.changes]
    /\ UNCHANGED <<dataSource, validated, server, table>>

\* Somebody adds a row to the table, or a column.
Alter(rows) ==
    /\ table.changes < MaxAlterations /\ rows \in {table.rows, table.rows + 1}
    /\ table' = [changes |-> table.changes + 1, rows |-> rows]
    /\ UNCHANGED <<dataSource, validated, server, readings>>

WarehouseInit ==
    /\ dataSource = NoSource /\ validated = [connection |-> NoConnection, rotation |-> 0]
    /\ server = "none" /\ readings = <<>>
    /\ table = [changes |-> 0, rows |-> FetchLimit]

WarehouseNext ==
    \/ \E extra \in SUBSET {"query"} : PublishAsset(extra)
    \/ \E s \in Posted : Post(s)
    \/ \E p \in Servers : BeginRun(p)
    \/ FetchRows \/ DescribeColumns
    \/ \E rows \in {table.rows, table.rows + 1} : Alter(rows)

WarehouseSpec ==
    /\ ConnectorsInit /\ WarehouseInit
    /\ [][\/ ConnectorsNext /\ UNCHANGED warehouseVars
          \/ WarehouseNext /\ UNCHANGED connectorVars]_<<connectorVars, warehouseVars>>

-----------------------------------------------------------------------------
(* Properties.                                                             *)

\* What agreed with the installation when it was posted, or was published from it.
Faithful(s) == ~s.plain /\ (s.installed /\ ~s.asset => s.type = "snowflake" /\ installation.connector = "snowflake")

\* "Credential references are resolved only inside connector operations" (README.md:233), so
\* that nobody keeps a connection: the API validates a source before a run, and each agent of
\* the run, possibly in another process with another environment, finds its own.  While the
\* secret is not replaced, each of them reads through the file, the account and the login of
\* that validation, unless the validation took that one from its own environment; and agents
\* between which the table does not change have as many rows of as many columns.
\* Sources whose URI is a plain path fail in every run, and sources posted, not published,
\* with the id of an installation may be read from another file than they were validated in.
ReadAsValidated ==
    \A i \in DOMAIN readings :
        LET r == readings[i]
        IN  /\ Faithful(dataSource) /\ r.rotation = validated.rotation =>
                   \A part \in DOMAIN r.connection :
                       \/ validated.connection[part].by \in {"none", "process", "file"}
                       \/ r.connection[part] = validated.connection[part]
                       \* the other half may be missing in this process
                       \/ \E other \in DOMAIN r.connection :
                             validated.connection[other].by \in {"process", "file"} /\ ReadingFailed(r)
            /\ \A j \in 1..i :
                   ~ReadingFailed(r) /\ r.at = readings[j].at =>
                       r.rows = readings[j].rows /\ r.reference = readings[j].reference
=============================================================================
