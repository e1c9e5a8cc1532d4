----------------------------- MODULE Connectors ------------------------------
(***************************************************************************)
(* Saved connections to outside systems: the connector registry and its    *)
(* installations (src/src/aeai_os/connectors/registry.py, installations.py,*)
(* api/connectors.py), and the credential providers they name (connectors/ *)
(* credentials.py).                                                        *)
(*                                                                         *)
(* The settings of a connection come from three places: the environment of *)
(* the process, the configuration of the installation, and the secret its  *)
(* credential reference names, which is resolved anew at each use.  The    *)
(* installation never changes but for its status, which a test records in  *)
(* two steps: it resolves and checks, then saves.  A secret may be         *)
(* replaced at any time.                                                   *)
(*                                                                         *)
(* Settings that go together are one key: SNOWFLAKE_ACCOUNT, _WAREHOUSE,   *)
(* _DATABASE and _SCHEMA are "account", SNOWFLAKE_USER and _PASSWORD       *)
(* "login", the AEAI_ARTIFACT_S3_ keys "stored", and those of AWS_ "aws".  *)
(***************************************************************************)
EXTENDS Integers, FiniteSets

CONSTANTS Environments,  \* what the environments of the API and of a worker may hold
          Secrets,       \* what the secret may be: the keys it has, {} if it cannot be read
          ObjectBackend, \* whether artifacts are kept in an object store
          Testers,       \* requests that test the installation
          MaxRotations   \* bound: how often the secret is replaced

VARIABLES environment,   \* of each server: is a key not set, set, or set to a file
          installation,  \* the saved installation
          secret,        \* the keys of the secret its reference names
          rotation,      \* how often the secret was replaced
          tests,         \* where each request is
          fresh          \* auxiliary: the status is of a test that saw the present secret

connectorVars == <<environment, installation, secret, rotation, tests, fresh>>

Servers == {"api", "worker"}
SettingKeys == {"account", "login", "bucket", "stored", "aws", "token"}

ASSUME ConnectorAssumption ==
    /\ Environments \subseteq [Servers -> [SettingKeys -> {"unset", "set", "file"}]]
    /\ Secrets \subseteq SUBSET SettingKeys
    /\ ObjectBackend \in BOOLEAN /\ MaxRotations \in Nat

\* build_default_connector_registry.  A field that is not required does not matter but for
\* the root of local files; none is secret.
ConfigurationFields ==
    [local |-> {"root"}, sqlite |-> {"path"}, snowflake |-> {"account"}, object |-> {"bucket"}, github |-> {}]
RequiredFields == [ConfigurationFields EXCEPT !.local = {}]
RequiredKeys ==
    [local |-> {}, sqlite |-> {}, snowflake |-> {"account", "login"},
     object |-> IF ObjectBackend THEN {"bucket", "stored"} ELSE {}, github |-> {"token"}]
CredentialRequired == {"snowflake", "object", "github"}
ConnectorIds == DOMAIN ConfigurationFields

\* A reference to keys of the environment, to a managed secret, or of a scheme nobody resolves.
NoReference == [scheme |-> "none", names |-> {}]
References ==
    {NoReference, [scheme |-> "managed", names |-> {}], [scheme |-> "other", names |-> {}]} \cup
    {[scheme |-> "env", names |-> {k}] : k \in {"login", "stored", "aws", "token"}}

NoInstallation == [connector |-> "none", configured |-> {}, reference |-> NoReference, status |-> "none"]

-----------------------------------------------------------------------------
(* Where a setting comes from.                                             *)

Setting(by, server, n) == [by |-> by, server |-> server, version |-> n]
NotSet == Setting("none", "none", 0)

OfProcess(p) ==
    [k \in SettingKeys |-> CASE environment[p][k] = "set"  -> Setting("process", p, 0)
                             [] environment[p][k] = "file" -> Setting("file", p, 0)
                             [] OTHER                      -> NotSet]

\* A value, and not the name of a file that holds it.
Direct(setting) == setting.by \notin {"none", "file"}

\* CredentialProviderRegistry.resolve.
ReferenceResolves(p) ==
    LET reference == installation.reference
    IN  \/ reference.scheme = "none"
        \/ reference.scheme = "env" /\ \A k \in reference.names : Direct(OfProcess(p)[k])
        \/ reference.scheme = "managed" /\ secret # {}

OfCredential(p) ==
    CASE installation.reference.scheme = "env" ->
            [k \in installation.reference.names |-> OfProcess(p)[k]]
      [] installation.reference.scheme = "managed" ->
            [k \in secret |-> Setting("secret", "none", rotation)]
      [] OTHER -> [k \in {} |-> NotSet]

\* Fault: the environment of the process comes before the configuration.
Layered_ProcessFirst(p) ==
    [k \in SettingKeys |->
        IF k \in DOMAIN OfCredential(p) THEN OfCredential(p)[k]
        ELSE IF k \in installation.configured /\ OfProcess(p)[k] = NotSet
             THEN Setting("configuration", "none", 0)
             ELSE OfProcess(p)[k]]

Layered(p) ==
    [k \in SettingKeys |->
        IF k \in DOMAIN OfCredential(p) THEN OfCredential(p)[k]
        ELSE IF k \in installation.configured THEN Setting("configuration", "none", 0)
        ELSE OfProcess(p)[k]]

\* resolve_installation_environment: an object store takes the keys of AWS where its own
\* are not set.
Effective(p) ==
    LET layered == Layered(p)
    IN  IF installation.connector = "object" /\ Direct(layered["aws"]) /\ ~Direct(layered["stored"])
        THEN [layered EXCEPT !["stored"] = layered["aws"]]
        ELSE layered

Complete(connector, settings) == \A k \in RequiredKeys[connector] : settings[k] # NotSet

\* Fault: the environment of the process is checked instead.
Health_Process(p) ==
    IF ~ReferenceResolves(p) THEN "error"
    ELSE IF Complete(installation.connector, OfProcess(p)) THEN "ok" ELSE "not_configured"

\* ConnectorDefinition.health
Health(p) ==
    IF ~ReferenceResolves(p) THEN "error"
    ELSE IF Complete(installation.connector, Effective(p)) THEN "ok" ELSE "not_configured"

\* SnowflakeSettings.from_env reads the password, alone, from a file; the client of an object
\* store is given a pair of keys, and no file is read for them.
SnowflakeOpens(settings) == Direct(settings["account"]) /\ settings["login"] # NotSet
ObjectStoreOpens(settings) ==
    "bucket" \in installation.configured /\ (Direct(settings["aws"]) \/ Direct(settings["stored"]))

\* ConnectorExplorer.test, which a request may ask for when health is ok: does the client of
\* the outside system find its settings?  The answer is not recorded.
Opens(p) ==
    /\ ReferenceResolves(p)
    /\ IF installation.connector = "snowflake" THEN SnowflakeOpens(Effective(p))
                                               ELSE ObjectStoreOpens(Effective(p))

-----------------------------------------------------------------------------
StatusOf(health) == IF health = "ok" THEN "ready" ELSE "setup_required"

\* create_installation: the status is of the connector in the process's own environment.
Create(c, configured, reference) ==
    /\ installation = NoInstallation
    /\ RequiredFields[c] \subseteq configured /\ configured \subseteq ConfigurationFields[c]
    /\ c \in CredentialRequired => reference # NoReference
    /\ installation' = [connector |-> c, configured |-> configured, reference |-> reference,
                        status |-> StatusOf(IF Complete(c, OfProcess("api")) THEN "ok" ELSE "not_configured")]
    /\ UNCHANGED <<environment, secret, rotation, tests, fresh>>

\* test_installation
BeginTest(t) ==
    /\ tests[t].pc = "idle" /\ installation # NoInstallation
    /\ tests' = [tests EXCEPT ![t] = [pc |-> "checked", health |-> Health("api"), rotation |-> rotation]]
    /\ UNCHANGED <<environment, installation, secret, rotation, fresh>>

\* _record_installation_health saves the installation as it was read, with the new status.
RecordHealth(t) ==
    /\ tests[t].pc = "checked"
    /\ installation' = [installation EXCEPT !.status = StatusOf(tests[t].health)]
    /\ fresh' = (tests[t].rotation = rotation)
    /\ tests' = [tests EXCEPT ![t].pc = "idle"]
    /\ UNCHANGED <<environment, secret, rotation>>

\* The owner of the secret replaces it, deletes it or shuts the platform out.
Rotate(keys) ==
    /\ rotation < MaxRotations /\ keys # secret
    /\ secret' = keys /\ rotation' = rotation + 1
    /\ fresh' = FALSE
    /\ UNCHANGED <<environment, installation, tests>>

ConnectorsInit ==
    /\ environment \in Environments /\ secret \in Secrets
    /\ installation = NoInstallation /\ rotation = 0 /\ fresh = FALSE
    /\ tests = [t \in Testers |-> [pc |-> "idle", health |-> "ok", rotation |-> 0]]

ConnectorsNext ==
    \/ \E c \in ConnectorIds : \E configured \in SUBSET ConfigurationFields[c], reference \in References :
          Create(c, configured, reference)
    \/ \E t \in Testers : BeginTest(t) \/ RecordHealth(t)
    \/ \E keys \in Secrets : Rotate(keys)

ConnectorsSpec == ConnectorsInit /\ [][ConnectorsNext]_connectorVars

-----------------------------------------------------------------------------
(* Properties.                                                             *)

ConnectorsTypeOK ==
    /\ environment \in Environments /\ secret \in Secrets
    /\ rotation \in 0..MaxRotations /\ fresh \in BOOLEAN
    /\ installation.connector \in ConnectorIds \cup {"none"}
    /\ installation.configured \subseteq UNION {ConfigurationFields[c] : c \in ConnectorIds}
    /\ installation.reference \in References
    /\ installation.status \in {"none", "ready", "setup_required"}

\* "Run a live, tenant-scoped connection probe" (README.md:175) follows on a status that is
\* ready: a test that saw the present secret calls a warehouse or an object store ready
\* exactly if the client that then opens it, which gathers the settings on its own, finds
\* what it wants, whichever of the process, the configuration and the secret has it.  Keys
\* and accounts that the environment names a file for are left out: get_env_secret, which
\* the test uses, reads them, and the clients do not.
StatusTold ==
    fresh /\ (\A k \in SettingKeys \ {"login"} : environment["api"][k] # "file") =>
        \/ installation.connector \notin {"snowflake", "object"}
        \/ installation.connector = "object" /\ ~ObjectBackend
        \/ (installation.status = "ready") = Opens("api")
=============================================================================
