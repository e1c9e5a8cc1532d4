------------------------------ MODULE Ingestion ------------------------------
(***************************************************************************)
(* Incremental ingestion (src/src/aeai_os/connectors/ingestion.py) and the *)
(* worker processes that loop over it (scripts/run_ingestion_worker.py):   *)
(* one source with a unique increasing key is copied, a page at a time,    *)
(* into an SQLite database and from there into a CSV file.  The SQL and    *)
(* Snowflake kinds are modelled; a REST source pages in the same way by a  *)
(* cursor of its own, an S3 object is one page.                            *)
(*                                                                         *)
(* sync is one immediate transaction: nothing it writes is visible before  *)
(* the commit, and the database lock admits one writer.  The source grows  *)
(* meanwhile.  export_csv reads one snapshot into a temporary file and     *)
(* puts it in the place of the target.  A worker reads its configuration   *)
(* when it starts; the operator may change the file.                       *)
(***************************************************************************)
EXTENDS Integers, FiniteSets

CONSTANTS Ingesters,     \* worker processes
          Configs,       \* versions of the source's configuration
          Keys,          \* primary keys
          KeyOf,         \* KeyOf[c][n]: the primary key in the n-th row
          PageSize,      \* rows of a page (1000 in the code)
          MaxFaults      \* bound: failures, deaths and configuration changes

VARIABLES feed,          \* rows that each source has so far
          config,        \* the configuration file
          table,         \* the database: records, checkpoint, audit
          output,        \* the CSV file: what each key's row says
          ingesters,     \* where each worker is
          due,           \* the checkpoint's due time has come
          faults         \* faults so far

ingestionVars == <<feed, config, table, output, ingesters, due, faults>>

Row == {<<c, n>> : c \in Configs, n \in 1..10}
NoRow == <<0, 0>>     \* no such record

ASSUME IngestionAssumption ==
    /\ Configs \subseteq Nat \ {0} /\ Configs # {}
    /\ \A c \in Configs : \E n \in 0..10 : KeyOf[c] \in [1..n -> Keys]
    /\ PageSize \in Nat \ {0} /\ MaxFaults \in Nat

NoRecords == [k \in Keys |-> NoRow]
Unbound == 0           \* no checkpoint yet

\* The records once the first n rows of the source of c are stored: the last
\* row of a key overrides the earlier ones.
StoredFrom(c, n) ==
    [k \in Keys |->
        LET said == {i \in 1..n : KeyOf[c][i] = k}
        IN  IF said = {} THEN NoRow
            ELSE <<c, CHOOSE i \in said : \A j \in said : j <= i>>]

\* What the upserts of rows from+1 .. to make of the records.
Upserted(records, c, from, to) ==
    [k \in Keys |->
        LET said == {i \in (from + 1)..to : KeyOf[c][i] = k}
        IN  IF said = {} THEN records[k]
            ELSE <<c, CHOOSE i \in said : \A j \in said : j <= i>>]

Starting(c) == [pc |-> "idle", config |-> c, upto |-> 0, temp |-> NoRecords]

FaultHappens == faults < MaxFaults /\ faults' = faults + 1

-----------------------------------------------------------------------------
(* The source and the operator.                                            *)

Grow(c) ==
    /\ feed[c] + 1 \in DOMAIN KeyOf[c]
    /\ feed' = [feed EXCEPT ![c] = @ + 1]
    /\ UNCHANGED <<config, table, output, ingesters, due, faults>>

Reconfigure ==
    /\ FaultHappens
    /\ \E c \in Configs \ {config} : config' = c
    /\ UNCHANGED <<feed, table, output, ingesters, due>>

BecomeDue ==
    /\ ~due
    /\ due' = TRUE
    /\ UNCHANGED <<feed, config, table, output, ingesters, faults>>

-----------------------------------------------------------------------------
(* sync                                                                    *)

InTransaction == {"reading", "writing"}

\* BEGIN IMMEDIATE; the lock is waited for.
BeginSync(w) ==
    /\ ingesters[w].pc = "idle"
    /\ \A v \in Ingesters : ingesters[v].pc \notin InTransaction
    /\ ingesters' = [ingesters EXCEPT ![w].pc = "reading"]
    /\ UNCHANGED <<feed, config, table, output, due, faults>>

\* Fault: another configuration goes on from the cursor it finds.
SameSource_Unchecked(w) == TRUE

SameSource(w) == table.config \in {Unbound, ingesters[w].config}

\* A changed configuration is refused, before the due time is looked at; the
\* worker logs the exception and starts over, without an export.
Refuse(w) ==
    /\ ingesters[w].pc = "reading"
    /\ ~SameSource(w)
    /\ ingesters' = [ingesters EXCEPT ![w].pc = "idle"]
    /\ UNCHANGED <<feed, config, table, output, due, faults>>

\* Nothing is due; the export is made all the same.
NotDue(w) ==
    /\ ingesters[w].pc = "reading"
    /\ SameSource(w)
    /\ table.config # Unbound /\ ~due
    /\ ingesters' = [ingesters EXCEPT ![w].pc = "exporting"]
    /\ UNCHANGED <<feed, config, table, output, due, faults>>

\* The page behind the cursor, as the source is at this moment.
Fetch(w) ==
    LET c == ingesters[w].config
        upto == IF table.cursor + PageSize < feed[c]
                THEN table.cursor + PageSize ELSE feed[c]
    IN  /\ ingesters[w].pc = "reading"
        /\ SameSource(w)
        /\ table.config = Unbound \/ due
        /\ ingesters' = [ingesters EXCEPT
              ![w].pc = "writing",
              ![w].upto = IF upto > table.cursor THEN upto ELSE table.cursor]
        /\ UNCHANGED <<feed, config, table, output, due, faults>>

\* Fault: the file is exported only when rows have come in.
CommitSync_IfChanged(w) ==
    LET me == ingesters[w]
    IN  /\ me.pc = "writing"
        /\ table' = [config |-> me.config, cursor |-> me.upto,
                     records |-> Upserted(table.records, me.config,
                                          table.cursor, me.upto)]
        /\ due' = FALSE
        /\ ingesters' = [ingesters EXCEPT
              ![w].pc = IF me.upto > table.cursor THEN "exporting" ELSE "idle"]
        /\ UNCHANGED <<feed, config, output, faults>>

\* Records, checkpoint and audit are committed together.
CommitSync(w) ==
    LET me == ingesters[w]
    IN  /\ me.pc = "writing"
        /\ table' = [config |-> me.config, cursor |-> me.upto,
                     records |-> Upserted(table.records, me.config,
                                          table.cursor, me.upto)]
        /\ due' = FALSE
        /\ ingesters' = [ingesters EXCEPT ![w].pc = "exporting"]
        /\ UNCHANGED <<feed, config, output, faults>>

-----------------------------------------------------------------------------
(* export_csv                                                              *)

\* The snapshot that the first SELECT of the transaction opens.
ReadSnapshot(w) ==
    /\ ingesters[w].pc = "exporting"
    /\ ingesters' = [ingesters EXCEPT ![w].pc = "replacing", ![w].temp = table.records]
    /\ UNCHANGED <<feed, config, table, output, due, faults>>

\* os.replace
Replace(w) ==
    /\ ingesters[w].pc = "replacing"
    /\ output' = ingesters[w].temp
    /\ ingesters' = [ingesters EXCEPT ![w] = Starting(ingesters[w].config)]
    /\ UNCHANGED <<feed, config, table, due, faults>>

\* The source, the database or the disk fails: the transaction is rolled back,
\* the temporary file removed.
FailSync(w) ==
    /\ ingesters[w].pc # "idle"
    /\ FaultHappens
    /\ ingesters' = [ingesters EXCEPT ![w] = Starting(ingesters[w].config)]
    /\ UNCHANGED <<feed, config, table, output, due>>

\* The process dies or is stopped, and is started again.
Restart(w) ==
    /\ FaultHappens
    /\ ingesters' = [ingesters EXCEPT ![w] = Starting(config)]
    /\ UNCHANGED <<feed, config, table, output, due>>

-----------------------------------------------------------------------------
IngestionInit ==
    /\ feed = [c \in Configs |-> 0]
    /\ config \in Configs
    /\ table = [config |-> Unbound, cursor |-> 0, records |-> NoRecords]
    /\ output = NoRecords
    /\ ingesters = [w \in Ingesters |-> Starting(config)]
    /\ due = TRUE
    /\ faults = 0

IngesterStep(w) ==
    \/ BeginSync(w) \/ Refuse(w) \/ NotDue(w) \/ Fetch(w) \/ CommitSync(w)
    \/ ReadSnapshot(w) \/ Replace(w)

IngestionNext ==
    \/ \E c \in Configs : Grow(c)
    \/ Reconfigure \/ BecomeDue
    \/ \E w \in Ingesters : IngesterStep(w) \/ FailSync(w) \/ Restart(w)

IngestionSpec == IngestionInit /\ [][IngestionNext]_ingestionVars

\* Workers loop for ever and sleep between two passes, so that the lock is free
\* again and again; time passes.
IngestionFairness ==
    /\ \A w \in Ingesters : SF_ingestionVars(IngesterStep(w))
    /\ WF_ingestionVars(BecomeDue)

FairIngestionSpec == IngestionSpec /\ IngestionFairness

-----------------------------------------------------------------------------
(* Properties.                                                             *)

IngestionTypeOK ==
    /\ \A c \in Configs : feed[c] \in {0} \cup DOMAIN KeyOf[c]
    /\ config \in Configs
    /\ table.config \in Configs \cup {Unbound}
    /\ table.cursor \in 0..10
    /\ table.records \in [Keys -> Row \cup {NoRow}]
    /\ output \in [Keys -> Row \cup {NoRow}]
    /\ \A w \in Ingesters :
          /\ ingesters[w].pc \in {"idle", "reading", "writing", "exporting", "replacing"}
          /\ ingesters[w].config \in Configs
          /\ ingesters[w].temp \in [Keys -> Row \cup {NoRow}]
    /\ due \in BOOLEAN
    /\ faults \in 0..MaxFaults

\* "A crash or source failure leaves the old cursor intact" (ingestion.py:153)
\* and "Changing a source configuration requires a new source ID"
\* (roadmap-13-16.md:49): the records are at any time the rows up to the cursor,
\* of one source, and none is skipped or stored twice, whoever synchronises,
\* fails, dies or comes back with another configuration.
CursorTellsRecords == table.records = StoredFrom(table.config, table.cursor)

\* "An interrupted export is recovered on the next tick" (roadmap-13-16.md:22):
\* although workers may replace the file with an older snapshot than another
\* worker did, or die between commit and export, the file comes to show the
\* whole source and keeps showing it, as long as some worker still has the
\* configuration of the first synchronisation.
ExportConverges ==
    (<>[](\E w \in Ingesters : ingesters[w].config = table.config))
      => <>[](/\ table.config # Unbound
              /\ output = StoredFrom(table.config, feed[table.config]))
=============================================================================
