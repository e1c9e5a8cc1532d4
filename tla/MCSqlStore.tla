----------------------------- MODULE MCSqlStore ------------------------------
(***************************************************************************)
(* The SQLAlchemy repository on small instances: the workflow jobs of a    *)
(* run, and all else it keeps of one.  The jobs are rows of a table that   *)
(* the calls on the other records do not touch, and no property mentions   *)
(* both: one of the two is chosen at the start, the other stays as it      *)
(* begins.                                                                 *)
(***************************************************************************)
EXTENDS MCSqlJobs, RunRecords

VARIABLE table

storeVars == <<sqlvars, recordVars, table>>

MCWork == <<"analysis", "evaluation">>

StoreInit == table \in {"jobs", "records"} /\ SqlInit /\ RecordsInit

StoreNext ==
    \/ table = "jobs" /\ SqlNext /\ UNCHANGED <<recordVars, table>>
    \/ table = "records" /\ RecordsNext /\ UNCHANGED <<sqlvars, table>>

StoreSpec == StoreInit /\ [][StoreNext]_storeVars
=============================================================================
