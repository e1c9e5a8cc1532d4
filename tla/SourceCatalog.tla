---------------------------- MODULE SourceCatalog ----------------------------
(***************************************************************************)
(* The registry of data sources and its catalog file                       *)
(* (src/src/aeai_os/data/sources.py).  The API's registry is a dictionary  *)
(* under a lock, which register and validate also write to the catalog;    *)
(* the monitoring worker, another process, reads the catalog into a        *)
(* registry of its own at each poll (monitoring/worker.py).  Only local    *)
(* files are written; a warehouse source lives as long as its process.     *)
(*                                                                         *)
(* register looks for the id under the lock, validates the source without  *)
(* it, and stores the record under the lock again; validate_for_execution  *)
(* does the same with the record it has read.  Each of these pieces is an  *)
(* action.  The file is replaced as a whole (os.replace), or not at all    *)
(* when the disk or the limit of records refuses.                          *)
(***************************************************************************)
EXTENDS Integers, FiniteSets

CONSTANTS Sources,       \* ids of data sources, of one workspace
          Threads,       \* requests to the API at work at once
          Watcher,       \* the monitoring worker
          MaxSources     \* records the catalog may hold (500 in the code)

ASSUME CatalogAssumption == Watcher \notin Threads /\ MaxSources \in Nat

VARIABLES memory,        \* the kind of each source, per process
          catalog,       \* the sources in the file
          tasks,         \* where each thread, and the worker, is in its call
          acknowledged,  \* auxiliary: registrations of local files that succeeded
          raced          \* auxiliary: ids registered by two threads at once

catalogVars == <<memory, catalog, tasks, acknowledged, raced>>

SourceKinds == {"local", "warehouse"}
Unknown == "unknown"

Agents == Threads \cup {Watcher}
Processes == {"api", "watcher"}
Home(a) == IF a = Watcher THEN "watcher" ELSE "api"

NoTask == [pc |-> "idle", id |-> Unknown, kind |-> Unknown]
Task(pc, id, kind) == [pc |-> pc, id |-> id, kind |-> kind]

\* _load_local_catalog
Loaded == [id \in Sources |-> IF id \in catalog THEN "local" ELSE Unknown]

LocalIn(store) == {id \in Sources : store[id] = "local"}

-----------------------------------------------------------------------------
\* _save_local_catalog of a registry; it may raise.
Saved(store) == Cardinality(LocalIn(store)) <= MaxSources /\ catalog' = LocalIn(store)
SaveFails == UNCHANGED catalog

\* register: the id is free.
CheckFree(t, id, kind) ==
    /\ tasks[t].pc = "idle"
    /\ memory["api"][id] = Unknown
    /\ tasks' = [tasks EXCEPT ![t] = Task("registering", id, kind)]
    /\ raced' = IF \E u \in Threads : tasks[u].pc = "registering" /\ tasks[u].id = id
                THEN raced \cup {id} ELSE raced
    /\ UNCHANGED <<memory, catalog, acknowledged>>

\* The source does not pass its validation.
Reject(t) ==
    /\ tasks[t].pc \in {"registering", "executing"}
    /\ tasks' = [tasks EXCEPT ![t] = NoTask]
    /\ UNCHANGED <<memory, catalog, acknowledged, raced>>

\* It does, and is stored, whether or not the id is still free.  The record
\* stays in memory when the file cannot be written, and the caller sees an
\* error.
Insert(t) ==
    LET id == tasks[t].id
        store == [memory["api"] EXCEPT ![id] = tasks[t].kind]
    IN  /\ tasks[t].pc = "registering"
        /\ memory' = [memory EXCEPT !["api"] = store]
        /\ tasks' = [tasks EXCEPT ![t] = NoTask]
        /\ \/ /\ Saved(store)
              /\ acknowledged' = IF tasks[t].kind = "local"
                                 THEN acknowledged \cup {id} ELSE acknowledged
           \/ SaveFails /\ UNCHANGED acknowledged
        /\ UNCHANGED raced

\* validate: the result is stored and the catalog written under one lock.
Validate(id) ==
    /\ memory["api"][id] # Unknown
    /\ Saved(memory["api"])
    /\ UNCHANGED <<memory, tasks, acknowledged, raced>>

\* validate_for_execution: the record is read.
ReadForExecution(a, id) ==
    /\ tasks[a].pc = "idle"
    /\ memory[Home(a)][id] # Unknown
    /\ tasks' = [tasks EXCEPT ![a] = Task("executing", id, memory[Home(a)][id])]
    /\ UNCHANGED <<memory, catalog, acknowledged, raced>>

\* Fault: the catalog is written as validate writes it.
WriteBack_Saved(a) ==
    LET store == [memory[Home(a)] EXCEPT ![tasks[a].id] = tasks[a].kind]
    IN  /\ tasks[a].pc = "executing"
        /\ memory' = [memory EXCEPT ![Home(a)] = store]
        /\ tasks' = [tasks EXCEPT ![a] = NoTask]
        /\ Saved(store)
        /\ UNCHANGED <<acknowledged, raced>>

\* The record as it was read goes back with its validation; the catalog is
\* left alone.
WriteBack(a) ==
    /\ tasks[a].pc = "executing"
    /\ memory' = [memory EXCEPT ![Home(a)][tasks[a].id] = tasks[a].kind]
    /\ tasks' = [tasks EXCEPT ![a] = NoTask]
    /\ UNCHANGED <<catalog, acknowledged, raced>>

-----------------------------------------------------------------------------
\* The next poll of the monitoring worker, or its restart.
Reload ==
    /\ tasks' = [tasks EXCEPT ![Watcher] = NoTask]
    /\ memory' = [memory EXCEPT !["watcher"] = Loaded]
    /\ UNCHANGED <<catalog, acknowledged, raced>>

RestartApi ==
    /\ memory' = [memory EXCEPT !["api"] = Loaded]
    /\ tasks' = [a \in Agents |-> IF a = Watcher THEN tasks[a] ELSE NoTask]
    /\ UNCHANGED <<catalog, acknowledged, raced>>

CatalogInit ==
    /\ memory = [p \in Processes |-> [id \in Sources |-> Unknown]]
    /\ catalog = {}
    /\ tasks = [a \in Agents |-> NoTask]
    /\ acknowledged = {}
    /\ raced = {}

CatalogNext ==
    \/ \E t \in Threads :
          \/ \E id \in Sources, kind \in SourceKinds : CheckFree(t, id, kind)
          \/ Insert(t)
    \/ \E id \in Sources : Validate(id)
    \/ \E a \in Agents :
          Reject(a) \/ WriteBack(a) \/ \E id \in Sources : ReadForExecution(a, id)
    \/ Reload \/ RestartApi

CatalogSpec == CatalogInit /\ [][CatalogNext]_catalogVars

-----------------------------------------------------------------------------
(* Properties.                                                             *)

CatalogTypeOK ==
    /\ memory \in [Processes -> [Sources -> SourceKinds \cup {Unknown}]]
    /\ catalog \subseteq Sources
    /\ tasks \in [Agents -> [pc : {"idle", "registering", "executing"},
                             id : Sources \cup {Unknown},
                             kind : SourceKinds \cup {Unknown}]]
    /\ acknowledged \subseteq Sources
    /\ raced \subseteq Sources

\* "Local CSV registry persistence"
\* (docs/operations/upgrade11-enterprise-intelligence.md:6): a local file whose
\* registration succeeded is in the catalog from then on, for the next start of
\* the API and the next poll of the monitoring worker, whatever either of them
\* writes back from an older copy, and whichever later write fails.  Only two
\* registrations of one id at once can undo one another.
AcknowledgedSurvive == acknowledged \subseteq catalog \cup raced
=============================================================================
