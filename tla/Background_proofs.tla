-------------------------- MODULE Background_proofs --------------------------
(***************************************************************************)
(* Proofs about the two services that run beside the API, each by itself:  *)
(*                                                                         *)
(*   Ingestion  for any sources, keys, page size, workers and faults, the  *)
(*              records of an incremental ingestion are the rows up to the *)
(*              cursor, of one source.  What makes it inductive is the     *)
(*              database lock: between the reading of the cursor and the   *)
(*              commit nobody else moves the cursor, so that the page a    *)
(*              worker stores begins where the records end.                *)
(*   Monitor    for any monitors, workers, data and faults, no check is    *)
(*              dispatched more often than it became due, and what a       *)
(*              dispatch came to can be relied on.  Two things make it     *)
(*              inductive: a dispatch is in the hands of one worker, and   *)
(*              a completed one stays as it is, so that the fingerprints   *)
(*              in rows and claimed copies of rows remain those of a       *)
(*              completed check, however old the copies are.               *)
(***************************************************************************)
EXTENDS Monitor, Ingestion, FiniteSetTheorems, SequenceTheorems, TLAPS

-----------------------------------------------------------------------------
(* Ingestion.                                                              *)

IngesterOK(x) ==
    /\ x = [pc |-> x.pc, config |-> x.config, upto |-> x.upto, temp |-> x.temp]
    /\ x.config \in Configs

\* What a worker is about to store follows what is stored.
PageFollows(x) ==
    x.pc = "writing" => /\ x.upto \in Nat /\ table.cursor <= x.upto
                        /\ table.config \in {Unbound, x.config}

IngestionInv ==
    /\ feed \in [Configs -> Nat] /\ config \in Configs
    /\ table = [config |-> table.config, cursor |-> table.cursor,
                records |-> table.records]
    /\ table.cursor \in Nat
    /\ table.config = Unbound => table.cursor = 0
    /\ CursorTellsRecords
    /\ ingesters = [w \in Ingesters |-> ingesters[w]]
    /\ \A w \in Ingesters : IngesterOK(ingesters[w]) /\ PageFollows(ingesters[w])
    /\ \A v, w \in Ingesters :
          ingesters[v].pc \in InTransaction /\ ingesters[w].pc \in InTransaction => v = w

\* The rows from the m-th to the n-th that say something of a key, and the
\* last of them.
Saying(c, k, m, n) == {i \in m..n : KeyOf[c][i] = k}
Latest(S) == CHOOSE i \in S : \A j \in S : j <= i

\* Rows before a page do not matter to a key that the page speaks of.
LEMMA LatestInPage ==
    ASSUME NEW from \in Nat, NEW all, NEW page \in SUBSET all,
           all \subseteq Nat, page # {},
           \A i \in all : i \in page <=> i > from
    PROVE  Latest(page) = Latest(all)
<1>1. PICK e \in page : e > from
  OBVIOUS
<1>2. ASSUME NEW i, i \in page, \A j \in page : j <= i, NEW j \in all
      PROVE  j <= i
  BY <1>2
<1>3. ASSUME NEW i, i \in all, \A j \in all : j <= i
      PROVE  i \in page /\ \A j \in page : j <= i
  <2>1. e <= i /\ e \in Nat /\ i \in Nat
    BY <1>1, <1>3
  <2>2. i > from
    BY <1>1, <2>1
  <2>3. QED
    BY <1>3, <2>2
<1>4. \A i : (i \in page /\ \A j \in page : j <= i) <=> (i \in all /\ \A j \in all : j <= i)
  BY <1>2, <1>3
<1>5. QED
  BY <1>4 DEF Latest

\* Storing the rows of one more page is storing all the rows up to its end.
LEMMA PageStored ==
    ASSUME NEW c, NEW from \in Nat, NEW to \in Nat, from <= to
    PROVE  Upserted(StoredFrom(c, from), c, from, to) = StoredFrom(c, to)
<1>1. ASSUME NEW k \in Keys
      PROVE  Upserted(StoredFrom(c, from), c, from, to)[k] = StoredFrom(c, to)[k]
  <2>1. PICK before, page, all : /\ before = Saying(c, k, 1, from)
                                 /\ page = Saying(c, k, from + 1, to)
                                 /\ all = Saying(c, k, 1, to)
    OBVIOUS
  <2>2. /\ StoredFrom(c, from)[k] = IF before = {} THEN NoRow ELSE <<c, Latest(before)>>
        /\ StoredFrom(c, to)[k] = IF all = {} THEN NoRow ELSE <<c, Latest(all)>>
        /\ Upserted(StoredFrom(c, from), c, from, to)[k]
              = IF page = {} THEN StoredFrom(c, from)[k] ELSE <<c, Latest(page)>>
    <3>1. \A n : StoredFrom(c, n)[k] = IF Saying(c, k, 1, n) = {} THEN NoRow
                                        ELSE <<c, Latest(Saying(c, k, 1, n))>>
      BY Zenon DEF StoredFrom, Saying, Latest
    <3>2. \A records : Upserted(records, c, from, to)[k] =
             IF Saying(c, k, from + 1, to) = {} THEN records[k]
             ELSE <<c, Latest(Saying(c, k, from + 1, to))>>
      BY Zenon DEF Upserted, Saying, Latest
    <3>3. QED
      BY <2>1, <3>1, <3>2
  <2>3. /\ \A i : i \in 1..to <=> i \in 1..from \/ i \in (from + 1)..to
        /\ \A i \in 1..to : i \in (from + 1)..to <=> i > from
        /\ 1..to \subseteq Nat
    OBVIOUS
  <2>4. all = before \cup page /\ all \subseteq 1..to
    BY <2>1, <2>3 DEF Saying
  <2>5. \A i \in all : i \in page <=> i > from
    BY <2>1, <2>3 DEF Saying
  <2>6. CASE page = {}
    BY <2>2, <2>4, <2>6
  <2>7. CASE page # {}
    <3>1. Latest(page) = Latest(all) /\ all # {}
      BY <2>3, <2>4, <2>5, <2>7, LatestInPage
    <3>2. QED
      BY <2>2, <2>7, <3>1
  <2>8. QED
    BY <2>6, <2>7
<1>2. QED
  BY <1>1, Zenon DEF StoredFrom, Upserted

LEMMA NothingStored == \A c : StoredFrom(c, 0) = NoRecords
<1>1. 1..0 = {}
  OBVIOUS
<1>2. QED
  BY <1>1, Zenon DEF StoredFrom, NoRecords

\* A step of one worker that leaves the table alone: the lock and what the
\* worker carries are left to show.
LEMMA OffTable ==
    ASSUME IngestionInv, NEW w \in Ingesters, NEW x,
           ingesters' = [ingesters EXCEPT ![w] = x],
           IngesterOK(x), PageFollows(x),
           \/ x.pc \notin InTransaction
           \/ ingesters[w].pc \in InTransaction
           \/ \A v \in Ingesters : ingesters[v].pc \notin InTransaction,
           UNCHANGED <<table, feed, config>>
    PROVE  IngestionInv'
<1>1. ingesters' = [v \in Ingesters |-> IF v = w THEN x ELSE ingesters[v]]
  BY DEF IngestionInv
<1>2. \A v \in Ingesters : IngesterOK(ingesters[v])' /\ PageFollows(ingesters[v])'
  BY <1>1 DEF IngestionInv, IngesterOK, PageFollows
<1>3. ASSUME NEW u \in Ingesters, NEW v \in Ingesters,
             ingesters'[u].pc \in InTransaction, ingesters'[v].pc \in InTransaction
      PROVE  u = v
  BY <1>1, <1>3 DEF IngestionInv
<1>4. CursorTellsRecords'
  BY DEF IngestionInv, CursorTellsRecords
<1>5. ingesters' = [v \in Ingesters |-> ingesters'[v]]
  BY <1>1
<1>6. QED
  BY <1>2, <1>3, <1>4, <1>5 DEF IngestionInv

LEMMA FetchStep ==
    ASSUME IngestionInv, NEW w \in Ingesters, Fetch(w)
    PROVE  IngestionInv'
<1> DEFINE c == ingesters[w].config
           limit == IF table.cursor + PageSize < feed[c]
                    THEN table.cursor + PageSize ELSE feed[c]
<1>1. /\ IngesterOK(ingesters[w]) /\ c \in Configs /\ table.cursor \in Nat
      /\ feed[c] \in Nat /\ PageSize \in Nat
  BY IngestionAssumption DEF IngestionInv, IngesterOK
<1>2. PICK upto : upto = IF limit > table.cursor THEN limit ELSE table.cursor
  OBVIOUS
<1>3. limit \in Nat /\ upto \in Nat /\ table.cursor <= upto
  BY <1>1, <1>2
<1>4. PICK x : x = [ingesters[w] EXCEPT !.pc = "writing", !.upto = upto]
  OBVIOUS
<1>5. /\ ingesters' = [ingesters EXCEPT ![w] = x]
      /\ UNCHANGED <<table, feed, config>>
      /\ ingesters[w].pc \in InTransaction
      /\ table.config \in {Unbound, c}
  BY <1>2, <1>4 DEF Fetch, IngestionInv, InTransaction, SameSource
<1>6. IngesterOK(x) /\ x.upto = upto /\ x.config = c
  BY <1>1, <1>4 DEF IngesterOK
<1>7. PageFollows(x)
  BY <1>3, <1>5, <1>6 DEF PageFollows
<1>8. QED
  BY <1>5, <1>6, <1>7, OffTable

\* The commit: the page follows the records, because the lock was held since
\* the cursor was read.
LEMMA CommitStep ==
    ASSUME IngestionInv, NEW w \in Ingesters, CommitSync(w)
    PROVE  IngestionInv'
<1> DEFINE me == ingesters[w]
<1>1. /\ IngesterOK(me) /\ me.pc = "writing" /\ me.upto \in Nat
      /\ table.cursor <= me.upto /\ table.cursor \in Nat
      /\ table.config \in {Unbound, me.config}
  BY DEF CommitSync, IngestionInv, PageFollows
<1>2. /\ table' = [config |-> me.config, cursor |-> me.upto,
                   records |-> Upserted(table.records, me.config, table.cursor, me.upto)]
      /\ ingesters' = [ingesters EXCEPT ![w].pc = "exporting"]
      /\ UNCHANGED <<feed, config>>
  BY DEF CommitSync
<1>3. table.records = StoredFrom(me.config, table.cursor)
  BY <1>1, NothingStored DEF IngestionInv, CursorTellsRecords
<1>4. Upserted(table.records, me.config, table.cursor, me.upto)
         = StoredFrom(me.config, me.upto)
  BY <1>1, <1>3, PageStored
<1>5. CursorTellsRecords'
  BY <1>2, <1>4 DEF CursorTellsRecords
<1>6. PICK x : x = [me EXCEPT !.pc = "exporting"]
  OBVIOUS
<1>7. ingesters' = [v \in Ingesters |-> IF v = w THEN x ELSE ingesters[v]]
  BY <1>2, <1>6 DEF IngestionInv
<1>8. IngesterOK(x) /\ x.pc = "exporting" /\ me.config # Unbound
  BY <1>1, <1>6, IngestionAssumption DEF IngesterOK, Unbound
<1>9. \A v \in Ingesters : v # w => ingesters[v].pc \notin InTransaction
  BY <1>1 DEF IngestionInv, InTransaction
<1>10. \A v \in Ingesters : IngesterOK(ingesters[v])' /\ PageFollows(ingesters[v])'
  BY <1>7, <1>8, <1>9 DEF IngestionInv, IngesterOK, PageFollows, InTransaction
<1>11. \A v \in Ingesters : ingesters'[v].pc \notin InTransaction
  BY <1>7, <1>8, <1>9 DEF InTransaction
<1>12. ingesters' = [v \in Ingesters |-> ingesters'[v]]
  BY <1>7
<1>13. /\ table' = [config |-> table'.config, cursor |-> table'.cursor,
                    records |-> table'.records]
       /\ table'.cursor \in Nat /\ table'.config # Unbound
  BY <1>1, <1>2, <1>8
<1>14. QED
  BY <1>2, <1>5, <1>10, <1>11, <1>12, <1>13 DEF IngestionInv

\* The other steps of a worker begin, give up or end something.
LEMMA WorkerStep ==
    ASSUME IngestionInv, NEW w \in Ingesters,
           \/ BeginSync(w) \/ Refuse(w) \/ NotDue(w) \/ ReadSnapshot(w) \/ Replace(w)
           \/ FailSync(w) \/ Restart(w)
    PROVE  IngestionInv'
<1>1. PICK x : x = ingesters'[w]
  OBVIOUS
<1>2. IngesterOK(ingesters[w]) /\ config \in Configs
  BY DEF IngestionInv
<1>3. /\ ingesters' = [ingesters EXCEPT ![w] = x]
      /\ IngesterOK(x) /\ x.pc # "writing"
      /\ \/ x.pc \notin InTransaction
         \/ ingesters[w].pc \in InTransaction
         \/ \A v \in Ingesters : ingesters[v].pc \notin InTransaction
      /\ UNCHANGED <<table, feed, config>>
  <2>1. CASE BeginSync(w)
    BY <1>1, <1>2, <2>1 DEF BeginSync, IngestionInv, IngesterOK, InTransaction, Starting
  <2>2. CASE Refuse(w)
    BY <1>1, <1>2, <2>2 DEF Refuse, IngestionInv, IngesterOK, InTransaction, Starting
  <2>3. CASE NotDue(w)
    BY <1>1, <1>2, <2>3 DEF NotDue, IngestionInv, IngesterOK, InTransaction, Starting
  <2>4. CASE ReadSnapshot(w)
    BY <1>1, <1>2, <2>4 DEF ReadSnapshot, IngestionInv, IngesterOK, InTransaction, Starting
  <2>5. CASE Replace(w)
    BY <1>1, <1>2, <2>5 DEF Replace, IngestionInv, IngesterOK, InTransaction, Starting
  <2>6. CASE FailSync(w)
    BY <1>1, <1>2, <2>6 DEF FailSync, IngestionInv, IngesterOK, InTransaction, Starting
  <2>7. CASE Restart(w)
    BY <1>1, <1>2, <2>7 DEF Restart, IngestionInv, IngesterOK, InTransaction, Starting
  <2>8. QED
    BY <2>1, <2>2, <2>3, <2>4, <2>5, <2>6, <2>7
<1>4. QED
  BY <1>3, OffTable DEF PageFollows

LEMMA IngestionInvariance == IngestionSpec => []IngestionInv
<1>1. IngestionInit => IngestionInv
  <2> SUFFICES ASSUME IngestionInit
               PROVE  IngestionInv
    OBVIOUS
  <2>1. table.cursor = 0 /\ table.config = Unbound /\ CursorTellsRecords
    BY NothingStored DEF IngestionInit, CursorTellsRecords
  <2>2. \A w \in Ingesters : /\ ingesters[w] = Starting(config)
                             /\ ingesters[w].pc = "idle"
                             /\ IngesterOK(ingesters[w])
    BY DEF IngestionInit, Starting, IngesterOK
  <2>3. QED
    BY <2>1, <2>2 DEF IngestionInit, IngestionInv, PageFollows, InTransaction
<1>2. IngestionInv /\ [IngestionNext]_ingestionVars => IngestionInv'
  <2> SUFFICES ASSUME IngestionInv, [IngestionNext]_ingestionVars
               PROVE  IngestionInv'
    OBVIOUS
  <2>1. ASSUME NEW w \in Ingesters, IngesterStep(w) \/ FailSync(w) \/ Restart(w)
        PROVE  IngestionInv'
    BY <2>1, WorkerStep, FetchStep, CommitStep DEF IngesterStep
  <2>2. ASSUME UNCHANGED <<table, ingesters>>, feed' \in [Configs -> Nat],
               config' \in Configs
        PROVE  IngestionInv'
    BY <2>2 DEF IngestionInv, CursorTellsRecords, PageFollows, IngesterOK
  <2>3. ASSUME NEW c \in Configs, Grow(c)
        PROVE  IngestionInv'
    <3>1. feed' \in [Configs -> Nat] /\ UNCHANGED <<table, ingesters, config>>
      BY <2>3 DEF Grow, IngestionInv
    <3>2. QED
      BY <2>2, <3>1 DEF IngestionInv
  <2>4. CASE Reconfigure \/ BecomeDue \/ UNCHANGED ingestionVars
    <3>1. UNCHANGED <<table, ingesters, feed>> /\ config' \in Configs
      BY <2>4 DEF Reconfigure, BecomeDue, ingestionVars, IngestionInv
    <3>2. QED
      BY <2>2, <3>1 DEF IngestionInv
  <2>5. QED
    BY <2>1, <2>3, <2>4 DEF IngestionNext
<1>3. QED
  BY <1>1, <1>2, PTL DEF IngestionSpec

\* "A crash or source failure leaves the old cursor intact": at any time the
\* records are those of the rows up to the cursor, of one source, however many
\* workers synchronise, fail, die or come back with another configuration
\* (IngestionStore.sync).
THEOREM CursorsTellRecords == IngestionSpec => []CursorTellsRecords
<1>1. IngestionInv => CursorTellsRecords
  BY DEF IngestionInv
<1>2. QED
  BY <1>1, IngestionInvariance, PTL

-----------------------------------------------------------------------------
(* Monitoring.                                                             *)

Versions == Datasets \cup {Unset}
WatcherStates == {"idle", "claimed", "skipping", "comparing", "executing", "alerting",
                  "recording", "failing", "reporting"}
Watcher == [pc : WatcherStates, todo : Seq(ClaimedRow), seen : Versions, read : Versions,
            base : Versions, found : SUBSET Rules]
MonitorRow == [enabled : BOOLEAN, due : BOOLEAN, force : BOOLEAN, last : Versions]

\* The tables and the workers; MaxDispatches and MaxTroubles only bound the runs.
MonitorsKnown ==
    /\ monitors \in [Monitors -> MonitorRow]
    /\ dispatches \in Seq(Dispatch) /\ Len(dispatches) <= MaxDispatches
    /\ alerts \subseteq (DOMAIN dispatches) \X (Rules \cup {"execution_failure"})
    /\ dataset \in [Monitors -> Datasets]
    /\ occasions \in [Monitors -> Nat] /\ troubles \in 0 .. MaxTroubles
    /\ watchers \in [Watchers -> Watcher]
    /\ \A w \in Watchers : watchers[w].pc = "idle" <=> watchers[w].todo = <<>>

\* What the dispatches ds of a monitor amount to with the occasion that waits.
Used(ds, m) == {i \in DOMAIN ds : ds[i].of = m}
Spent(ds, row, m) == Cardinality(Used(ds, m)) + (IF row.due THEN 1 ELSE 0)

\* A completed check of the monitor m recorded the fingerprint v.
Known(ds, m, v) ==
    \E k \in DOMAIN ds : ds[k].of = m /\ ds[k].status = "completed" /\ ds[k].seen = v

\* A claimed record c is a copy of a row, and names a dispatch of its monitor.
Claimed(ds, c) ==
    /\ c.id \in DOMAIN ds /\ ds[c.id].of = c.of
    /\ c.last # Unset => Known(ds, c.of, c.last)

\* The dispatches that a worker x of pc # "idle" has in hand: those it has not begun are
\* running; the current one is until its outcome is written.
InHand(ds, reported, x) ==
    /\ \A k \in 1 .. Len(x.todo) : Claimed(ds, x.todo[k])
    /\ \A k \in 2 .. Len(x.todo) : ds[x.todo[k].id].status = "running"
    /\ x.pc \in {"claimed", "skipping", "comparing", "executing", "alerting"}
          => ds[x.todo[1].id].status = "running"
    /\ x.pc = "skipping" => Known(ds, x.todo[1].of, x.seen)
    /\ x.pc = "alerting" => \A rule \in Found(x.read, x.base) \ x.found :
                                <<x.todo[1].id, rule>> \in reported
    /\ x.pc = "recording" => Known(ds, x.todo[1].of, x.seen)

\* No dispatch is in the hands of two workers, or twice in the hands of one.
Apart(all) ==
    \A v, w \in Watchers : \A i \in 1 .. Len(all[v].todo), k \in 1 .. Len(all[w].todo) :
        all[v].todo[i].id = all[w].todo[k].id => v = w /\ i = k

\* What a dispatch d, the i-th, came to can be relied on.
Reliable(ds, reported, i) ==
    /\ ds[i].status = "skipped" => Known(ds, ds[i].of, ds[i].seen)
    /\ ds[i].status = "completed" =>
          \A rule \in Found(ds[i].read, ds[i].base) : <<i, rule>> \in reported

MonitorInv ==
    /\ MonitorsKnown
    /\ \A m \in Monitors : Spent(dispatches, monitors[m], m) <= occasions[m]
    /\ \A m \in Monitors : monitors[m].last # Unset => Known(dispatches, m, monitors[m].last)
    /\ \A w \in Watchers : watchers[w].pc # "idle" => InHand(dispatches, alerts, watchers[w])
    /\ Apart(watchers)
    /\ \A i \in DOMAIN dispatches : Reliable(dispatches, alerts, i)

\* Dispatches are only added, and a completed one stays what it is.
Grows(ds, new) ==
    /\ DOMAIN ds \subseteq DOMAIN new
    /\ \A i \in DOMAIN ds :
          /\ new[i].of = ds[i].of
          /\ ds[i].status = "completed" => new[i] = ds[i]

\* What a completed check recorded remains known.
LEMMA KnownStays ==
    ASSUME NEW ds, NEW new, Grows(ds, new)
    PROVE  /\ \A m, v : Known(ds, m, v) => Known(new, m, v)
           /\ \A c : Claimed(ds, c) => Claimed(new, c)
<1>1. \A m, v : Known(ds, m, v) => Known(new, m, v)
  BY DEF Grows, Known
<1>2. QED
  BY <1>1 DEF Grows, Claimed

\* What a worker x has in hand is left alone.
Undisturbed(ds, new, x) == \A k \in 1 .. Len(x.todo) : new[x.todo[k].id] = ds[x.todo[k].id]

\* A worker is not disturbed by what happens to dispatches it does not have.
LEMMA InHandStays ==
    ASSUME NEW ds, NEW new, NEW reported, NEW more, Grows(ds, new), reported \subseteq more,
           NEW x, x \in Watcher, x.todo # <<>>, InHand(ds, reported, x), Undisturbed(ds, new, x)
    PROVE  InHand(new, more, x)
<1>1. Len(x.todo) \in Nat \ {0} /\ 1 \in 1 .. Len(x.todo)
  BY DEF Watcher
<1>2. \A k \in 2 .. Len(x.todo) : k \in 1 .. Len(x.todo)
  BY <1>1
<1>3. QED
  BY <1>1, <1>2, KnownStays DEF InHand, Undisturbed

\* Going on with the rest of a batch: none of it has been begun.
LEMMA RestInHand ==
    ASSUME NEW ds, NEW new, NEW reported, NEW more, Grows(ds, new),
           NEW x \in Watcher, x.todo # <<>>, InHand(ds, reported, x), Len(x.todo) > 1,
           \A k \in 2 .. Len(x.todo) : new[x.todo[k].id] = ds[x.todo[k].id],
           NEW y \in Watcher, y.pc = "claimed", y.todo = Tail(x.todo)
    PROVE  InHand(new, more, y)
<1>1. /\ Len(y.todo) = Len(x.todo) - 1 /\ Len(x.todo) \in Nat
      /\ \A k \in 1 .. Len(y.todo) : y.todo[k] = x.todo[k + 1] /\ k + 1 \in 2 .. Len(x.todo)
  BY DEF Watcher
<1>2. \A k \in 2 .. Len(x.todo) :
         /\ Claimed(new, x.todo[k])
         /\ new[x.todo[k].id].status = "running"
  <2>1. \A k \in 2 .. Len(x.todo) : k \in 1 .. Len(x.todo)
    BY <1>1
  <2>2. QED
    BY <2>1, KnownStays DEF InHand
<1>3. 1 \in 1 .. Len(y.todo) /\ \A k \in 2 .. Len(y.todo) : k \in 1 .. Len(y.todo)
  BY <1>1
<1>4. QED
  BY <1>1, <1>2, <1>3 DEF InHand

\* Batches shrink from the front or are forgotten, and stay apart.
LEMMA StaysApart ==
    ASSUME watchers \in [Watchers -> Watcher], NEW w \in Watchers, NEW x \in Watcher,
           x.todo \in {watchers[w].todo, Tail(watchers[w].todo), <<>>},
           watchers[w].todo # <<>>, Apart(watchers)
    PROVE  Apart([watchers EXCEPT ![w] = x])
<1> DEFINE all == [watchers EXCEPT ![w] = x]
<1>1. all[w] = x /\ \A v \in Watchers \ {w} : all[v] = watchers[v]
  OBVIOUS
<1>2. watchers[w].todo \in Seq(ClaimedRow) /\ Len(watchers[w].todo) \in Nat
  BY DEF Watcher
<1>3. \E s \in {0, 1} : \A i \in 1 .. Len(x.todo) :
          i + s \in 1 .. Len(watchers[w].todo) /\ x.todo[i] = watchers[w].todo[i + s]
  <2>1. CASE x.todo = watchers[w].todo
    <3>1. \A i \in 1 .. Len(x.todo) :
              i + 0 \in 1 .. Len(watchers[w].todo) /\ x.todo[i] = watchers[w].todo[i + 0]
      BY <1>2, <2>1
    <3>2. QED
      BY <3>1
  <2>2. CASE x.todo = Tail(watchers[w].todo)
    <3>1. \A i \in 1 .. Len(x.todo) :
              i + 1 \in 1 .. Len(watchers[w].todo) /\ x.todo[i] = watchers[w].todo[i + 1]
      BY <1>2, <2>2
    <3>2. QED
      BY <3>1
  <2>3. CASE x.todo = <<>>
    <3>1. 1 .. Len(x.todo) = {}
      BY <2>3
    <3>2. QED
      BY <3>1
  <2>4. QED
    BY <2>1, <2>2, <2>3
<1>4. PICK s \in {0, 1} : \A i \in 1 .. Len(x.todo) :
          i + s \in 1 .. Len(watchers[w].todo) /\ x.todo[i] = watchers[w].todo[i + s]
  BY <1>3
<1>5. Len(x.todo) \in Nat
  BY DEF Watcher
<1>6. ASSUME NEW u \in Watchers, NEW v \in Watchers,
             NEW i \in 1 .. Len(all[u].todo), NEW k \in 1 .. Len(all[v].todo),
             all[u].todo[i].id = all[v].todo[k].id
      PROVE  u = v /\ i = k
  <2>1. PICK a \in 1 .. Len(watchers[u].todo) :
            /\ all[u].todo[i] = watchers[u].todo[a]
            /\ a = IF u = w THEN i + s ELSE i
    <3>1. CASE u = w
      <4>1. i \in 1 .. Len(x.todo)
        BY <1>1, <3>1
      <4>2. QED
        BY <1>1, <1>4, <3>1, <4>1
    <3>2. CASE u # w
      BY <1>1, <3>2
    <3>3. QED
      BY <3>1, <3>2
  <2>2. PICK b \in 1 .. Len(watchers[v].todo) :
            /\ all[v].todo[k] = watchers[v].todo[b]
            /\ b = IF v = w THEN k + s ELSE k
    <3>1. CASE v = w
      <4>1. k \in 1 .. Len(x.todo)
        BY <1>1, <3>1
      <4>2. QED
        BY <1>1, <1>4, <3>1, <4>1
    <3>2. CASE v # w
      BY <1>1, <3>2
    <3>3. QED
      BY <3>1, <3>2
  <2>3. u = v /\ a = b
    BY <1>6, <2>1, <2>2, SMTT(30) DEF Apart
  <2>4. i \in Nat /\ k \in Nat /\ s \in Nat
    <3>1. Len(all[u].todo) \in Nat /\ Len(all[v].todo) \in Nat
      BY <1>1 DEF Watcher
    <3>2. QED
      BY <3>1
  <2>5. QED
    BY <2>1, <2>2, <2>3, <2>4
<1>7. QED
  BY <1>6 DEF Apart

\* What may become of a row of the dispatches: it keeps its monitor, and its completion.
Successor(old, d) == d \in Dispatch /\ d.of = old.of /\ (old.status = "completed" => d = old)

\* The table ds in which the dispatch id is d from now on.
Written(ds, id, d, new) ==
    ds \in Seq(Dispatch) /\ id \in DOMAIN ds /\ Successor(ds[id], d) /\ new = [ds EXCEPT ![id] = d]

\* Writing one dispatch of a table leaves the others, and a completed one as it is.
LEMMA OneDispatch ==
    ASSUME NEW ds, NEW id, NEW d, NEW new, Written(ds, id, d, new)
    PROVE  /\ new \in Seq(Dispatch) /\ DOMAIN new = DOMAIN ds /\ Len(new) = Len(ds)
           /\ new[id] = d /\ \A i \in DOMAIN ds \ {id} : new[i] = ds[i]
           /\ Grows(ds, new)
           /\ \A m : Used(new, m) = Used(ds, m)
<1>1. new \in Seq(Dispatch) /\ DOMAIN new = DOMAIN ds /\ Len(new) = Len(ds)
  BY DEF Written, Successor
<1>2. new[id] = d /\ \A i \in DOMAIN ds \ {id} : new[i] = ds[i]
  BY DEF Written
<1>3. Grows(ds, new)
  BY <1>1, <1>2 DEF Written, Grows, Successor
<1>4. \A m : Used(new, m) = Used(ds, m)
  BY <1>1, <1>2 DEF Written, Used, Successor
<1>5. QED
  BY <1>1, <1>2, <1>3, <1>4

\* Any statement of a worker that has claimed its batch: it may write the current dispatch, the
\* fingerprint of a row, and add alerts; the batch stays, shrinks from the front or is forgotten.
LEMMA WatcherActs ==
    ASSUME MonitorInv, NEW w \in Watchers, watchers[w].pc # "idle",
           NEW x \in Watcher, watchers' = [watchers EXCEPT ![w] = x],
           x.todo \in {watchers[w].todo, Tail(watchers[w].todo), <<>>},
           x.pc = "idle" <=> x.todo = <<>>,
           NEW d, Successor(dispatches[Current(w).id], d),
           dispatches' = [dispatches EXCEPT ![Current(w).id] = d],
           alerts \subseteq alerts',
           alerts' \subseteq (DOMAIN dispatches) \X (Rules \cup {"execution_failure"}),
           monitors' \in [Monitors -> MonitorRow],
           \A m \in Monitors :
               /\ monitors'[m].due = monitors[m].due
               /\ \/ monitors'[m].last = monitors[m].last
                  \/ Known(dispatches', m, monitors'[m].last),
           UNCHANGED <<dataset, occasions>>, troubles' \in 0 .. MaxTroubles,
           Reliable(dispatches', alerts', Current(w).id),
           x.pc # "idle" => InHand(dispatches', alerts', x)
    PROVE  MonitorInv'
<1> DEFINE id == Current(w).id
<1>1. MonitorsKnown /\ InHand(dispatches, alerts, watchers[w]) /\ Apart(watchers)
  BY DEF MonitorInv
<1>2. /\ watchers[w].todo # <<>> /\ watchers[w] \in Watcher
      /\ 1 \in 1 .. Len(watchers[w].todo) /\ Current(w) = watchers[w].todo[1]
  BY <1>1 DEF MonitorsKnown, Watcher, Current
<1>3. id \in DOMAIN dispatches
  BY <1>1, <1>2 DEF InHand, Claimed
<1>4. dispatches \in Seq(Dispatch)
  BY <1>1 DEF MonitorsKnown
<1>5. /\ dispatches' \in Seq(Dispatch) /\ DOMAIN dispatches' = DOMAIN dispatches
      /\ Len(dispatches') = Len(dispatches)
      /\ dispatches'[id] = d /\ \A i \in DOMAIN dispatches \ {id} : dispatches'[i] = dispatches[i]
      /\ Grows(dispatches, dispatches')
      /\ \A m : Used(dispatches', m) = Used(dispatches, m)
  <2>1. Written(dispatches, id, d, dispatches')
    BY <1>3, <1>4 DEF Written
  <2> HIDE DEF id
  <2>2. dispatches' \in Seq(Dispatch) /\ DOMAIN dispatches' = DOMAIN dispatches
    BY <2>1, OneDispatch
  <2>3. Len(dispatches') = Len(dispatches)
    BY <2>1, OneDispatch
  <2>4. dispatches'[id] = d /\ \A i \in DOMAIN dispatches \ {id} : dispatches'[i] = dispatches[i]
    BY <2>1 DEF Written
  <2>5. Grows(dispatches, dispatches')
    BY <2>1, OneDispatch
  <2>6. \A m : Used(dispatches', m) = Used(dispatches, m)
    BY <2>1, OneDispatch
  <2>7. QED
    BY <2>2, <2>3, <2>4, <2>5, <2>6
<1>6. /\ watchers' \in [Watchers -> Watcher] /\ watchers'[w] = x
      /\ \A v \in Watchers \ {w} : watchers'[v] = watchers[v]
  BY <1>1 DEF MonitorsKnown
<1>7. \A v \in Watchers : watchers'[v].pc = "idle" <=> watchers'[v].todo = <<>>
  BY <1>1, <1>6 DEF MonitorsKnown
<1>8. MonitorsKnown'
  BY <1>1, <1>5, <1>6, <1>7 DEF MonitorsKnown
<1>9. ASSUME NEW m \in Monitors
      PROVE  Spent(dispatches', monitors'[m], m) <= occasions'[m]
  <2>1. monitors'[m].due = monitors[m].due /\ Used(dispatches', m) = Used(dispatches, m)
    BY <1>5
  <2>2. Spent(dispatches', monitors'[m], m) = Spent(dispatches, monitors[m], m)
    BY <2>1 DEF Spent
  <2>3. QED
    BY <2>2 DEF MonitorInv
<1>10. ASSUME NEW m \in Monitors, monitors'[m].last # Unset
       PROVE  Known(dispatches', m, monitors'[m].last)
  <2>1. CASE monitors'[m].last = monitors[m].last
    <3>1. Known(dispatches, m, monitors[m].last)
      BY <1>10, <2>1 DEF MonitorInv
    <3>2. QED
      BY <1>5, <2>1, <3>1, KnownStays
  <2>2. QED
    BY <2>1
<1>11. ASSUME NEW v \in Watchers, watchers'[v].pc # "idle"
       PROVE  InHand(dispatches', alerts', watchers'[v])
  <2>1. CASE v = w
    BY <1>6, <1>11, <2>1
  <2>2. CASE v # w
    <3>1. /\ watchers'[v] = watchers[v] /\ watchers[v] \in Watcher /\ watchers[v].todo # <<>>
          /\ InHand(dispatches, alerts, watchers[v])
      BY <1>1, <1>6, <1>11, <2>2 DEF MonitorInv, MonitorsKnown
    <3>2. ASSUME NEW k \in 1 .. Len(watchers[v].todo)
          PROVE  /\ watchers[v].todo[k].id # id
                 /\ watchers[v].todo[k].id \in DOMAIN dispatches
      <4>1. watchers[v].todo[k].id # watchers[w].todo[1].id
        BY <1>1, <1>2, <2>2 DEF Apart
      <4>2. Claimed(dispatches, watchers[v].todo[k])
        BY <3>1 DEF InHand
      <4>3. QED
        BY <1>2, <4>1, <4>2 DEF Claimed
    <3>3. Undisturbed(dispatches, dispatches', watchers[v])
      BY <1>5, <3>2 DEF Undisturbed
    <3>4. alerts \subseteq alerts' /\ Grows(dispatches, dispatches')
      BY <1>5
    <3>5. InHand(dispatches', alerts', watchers[v])
      BY <3>1, <3>3, <3>4, InHandStays
    <3>6. QED
      BY <3>1, <3>5
  <2>3. QED
    BY <2>1, <2>2
<1>12. Apart(watchers')
  BY <1>1, <1>2, StaysApart DEF MonitorsKnown
<1>13. ASSUME NEW i \in DOMAIN dispatches'
       PROVE  Reliable(dispatches', alerts', i)
  <2>1. CASE i = id
    BY <2>1
  <2>2. CASE i # id
    <3>1. dispatches'[i] = dispatches[i] /\ Reliable(dispatches, alerts, i)
      BY <1>5, <1>13, <2>2 DEF MonitorInv
    <3>2. QED
      BY <1>5, <3>1, KnownStays DEF Reliable
  <2>3. QED
    BY <2>1, <2>2
<1>14. QED
  BY <1>8, <1>9, <1>10, <1>11, <1>12, <1>13 DEF MonitorInv

\* A statement that writes no dispatch: the current one stays, and stays reliable.
LEMMA WatcherLooks ==
    ASSUME MonitorInv, NEW w \in Watchers, watchers[w].pc # "idle",
           NEW x \in Watcher, watchers' = [watchers EXCEPT ![w] = x],
           x.todo \in {watchers[w].todo, Tail(watchers[w].todo), <<>>},
           x.pc = "idle" <=> x.todo = <<>>,
           UNCHANGED <<dispatches, dataset, occasions>>,
           alerts \subseteq alerts',
           alerts' \subseteq (DOMAIN dispatches) \X (Rules \cup {"execution_failure"}),
           monitors' \in [Monitors -> MonitorRow],
           \A m \in Monitors :
               /\ monitors'[m].due = monitors[m].due
               /\ \/ monitors'[m].last = monitors[m].last
                  \/ Known(dispatches, m, monitors'[m].last),
           troubles' \in 0 .. MaxTroubles,
           x.pc # "idle" => InHand(dispatches, alerts', x)
    PROVE  MonitorInv'
<1> DEFINE id == Current(w).id
           d == dispatches[id]
<1>1. MonitorsKnown /\ InHand(dispatches, alerts, watchers[w])
  BY DEF MonitorInv
<1>2. 1 \in 1 .. Len(watchers[w].todo) /\ Current(w) = watchers[w].todo[1]
  BY <1>1 DEF MonitorsKnown, Watcher, Current
<1>3. id \in DOMAIN dispatches
  BY <1>1, <1>2 DEF InHand, Claimed
<1>4. dispatches \in Seq(Dispatch)
  BY <1>1 DEF MonitorsKnown
<1>5. d \in Dispatch /\ dispatches' = [dispatches EXCEPT ![id] = d]
  BY <1>3, <1>4
<1>6. Reliable(dispatches', alerts', id)
  BY <1>3 DEF MonitorInv, Reliable
<1>7. Successor(dispatches[id], d)
  BY <1>5 DEF Successor
<1>8. x.pc # "idle" => InHand(dispatches', alerts', x)
  OBVIOUS
<1>9. \A m \in Monitors :
          /\ monitors'[m].due = monitors[m].due
          /\ \/ monitors'[m].last = monitors[m].last
             \/ Known(dispatches', m, monitors'[m].last)
  OBVIOUS
<1> HIDE DEF d
<1>10. QED
  BY <1>5, <1>6, <1>7, <1>8, <1>9, WatcherActs

\* What a worker that has claimed its batch is at.
LEMMA AtWork ==
    ASSUME MonitorInv, NEW w \in Watchers, watchers[w].pc # "idle"
    PROVE  /\ MonitorsKnown /\ InHand(dispatches, alerts, watchers[w])
           /\ watchers[w] \in Watcher /\ watchers[w].todo # <<>>
           /\ watchers[w].todo \in Seq(ClaimedRow)
           /\ Current(w) = watchers[w].todo[1] /\ Current(w) \in ClaimedRow
           /\ Claimed(dispatches, Current(w))
           /\ dispatches[Current(w).id] \in Dispatch
           /\ Reliable(dispatches, alerts, Current(w).id)
           /\ alerts \subseteq (DOMAIN dispatches) \X (Rules \cup {"execution_failure"})
           /\ troubles \in 0 .. MaxTroubles
           /\ monitors \in [Monitors -> MonitorRow] /\ dataset \in [Monitors -> Datasets]
<1>1. MonitorsKnown /\ InHand(dispatches, alerts, watchers[w])
  BY DEF MonitorInv
<1>2. watchers[w] \in Watcher /\ watchers[w].todo # <<>> /\ watchers[w].todo \in Seq(ClaimedRow)
  BY <1>1 DEF MonitorsKnown, Watcher
<1>3. Current(w) = watchers[w].todo[1] /\ Current(w) \in ClaimedRow /\ 1 \in 1 .. Len(watchers[w].todo)
  BY <1>2 DEF Current
<1>4. Claimed(dispatches, Current(w))
  BY <1>1, <1>3 DEF InHand
<1>5. dispatches \in Seq(Dispatch) /\ Current(w).id \in DOMAIN dispatches
  BY <1>1, <1>4 DEF MonitorsKnown, Claimed
<1>6. dispatches[Current(w).id] \in Dispatch
  BY <1>5
<1>7. Reliable(dispatches, alerts, Current(w).id)
  BY <1>5 DEF MonitorInv
<1>8. QED
  BY <1>1, <1>2, <1>3, <1>4, <1>6, <1>7 DEF MonitorsKnown

\* Where a worker is after its current dispatch: at the next one, or done with its batch.
Rest(w) ==
    [Resting EXCEPT !.todo = Tail(watchers[w].todo),
                    !.pc = IF Len(watchers[w].todo) > 1 THEN "claimed" ELSE "idle"]

\* The record of a worker that goes on, component by component.
LEMMA RestingWith ==
    ASSUME NEW t, NEW c
    PROVE  [Resting EXCEPT !.todo = t, !.pc = c]
           = [pc |-> c, todo |-> t, seen |-> Unset, read |-> Unset, base |-> Unset, found |-> {}]
<1> DEFINE r == [Resting EXCEPT !.todo = t]
<1>1. r = [pc |-> "idle", todo |-> t, seen |-> Unset, read |-> Unset, base |-> Unset,
           found |-> {}]
  BY SMTT(30) DEF Resting
<1>2. [Resting EXCEPT !.todo = t, !.pc = c] = [r EXCEPT !.pc = c]
  OBVIOUS
<1> HIDE DEF r
<1>3. [r EXCEPT !.pc = c]
      = [pc |-> c, todo |-> t, seen |-> Unset, read |-> Unset, base |-> Unset, found |-> {}]
  BY <1>1
<1>4. QED
  BY <1>2, <1>3

\* The rest of a batch is empty if the batch had one element.
LEMMA RestOfBatch ==
    ASSUME NEW S, NEW s \in Seq(S), s # <<>>
    PROVE  Tail(s) \in Seq(S) /\ (Tail(s) = <<>> <=> ~(Len(s) > 1))
<1>1. Len(s) \in Nat /\ Len(s) # 0
  OBVIOUS
<1> DEFINE t == Tail(s)
<1>2. t \in Seq(S) /\ Len(t) = Len(s) - 1
  OBVIOUS
<1> HIDE DEF t
<1>3. t = <<>> <=> Len(t) = 0
  BY <1>2, EmptySeq
<1>4. t \in Seq(S) /\ (t = <<>> <=> ~(Len(s) > 1))
  BY <1>1, <1>2, <1>3
<1>5. QED
  BY <1>4 DEF t

\* A worker that goes on has the rest of its batch in hand, whatever becomes of the current
\* dispatch.
LEMMA GoesOn ==
    ASSUME MonitorInv, NEW w \in Watchers, watchers[w].pc # "idle"
    PROVE  /\ Rest(w) \in Watcher /\ Rest(w).todo = Tail(watchers[w].todo)
           /\ Rest(w).pc = "idle" <=> Rest(w).todo = <<>>
           /\ \A more : Rest(w).pc # "idle" => InHand(dispatches, more, Rest(w))
           /\ \A d, new, more : /\ Written(dispatches, Current(w).id, d, new)
                                /\ Rest(w).pc # "idle"
                                => InHand(new, more, Rest(w))
<1> DEFINE y == Rest(w)
           x == watchers[w]
           id == Current(w).id
<1>1. /\ x \in Watcher /\ x.todo # <<>> /\ x.todo \in Seq(ClaimedRow)
      /\ InHand(dispatches, alerts, x) /\ Current(w) = x.todo[1]
      /\ Claimed(dispatches, Current(w))
  BY AtWork
<1>2. /\ y.todo = Tail(x.todo) /\ y.pc = (IF Len(x.todo) > 1 THEN "claimed" ELSE "idle")
      /\ y.seen = Unset /\ y.read = Unset /\ y.base = Unset /\ y.found = {}
      /\ y = [pc |-> y.pc, todo |-> y.todo, seen |-> y.seen, read |-> y.read, base |-> y.base,
              found |-> y.found]
  <2>1. y = [pc |-> IF Len(x.todo) > 1 THEN "claimed" ELSE "idle", todo |-> Tail(x.todo),
             seen |-> Unset, read |-> Unset, base |-> Unset, found |-> {}]
    BY RestingWith DEF Rest
  <2> HIDE DEF y
  <2>2. QED
    BY <2>1
<1> HIDE DEF y
<1>3. Tail(x.todo) \in Seq(ClaimedRow) /\ (Tail(x.todo) = <<>> <=> ~(Len(x.todo) > 1))
  BY <1>1, RestOfBatch
<1>4. y \in Watcher
  <2>1. y.pc \in WatcherStates /\ y.todo \in Seq(ClaimedRow) /\ Unset \in Versions
        /\ y.found \in SUBSET Rules
    BY <1>2, <1>3 DEF WatcherStates, Versions
  <2>2. QED
    BY <1>2, <2>1 DEF Watcher
<1>5. y.pc = "idle" <=> y.todo = <<>>
  BY <1>2, <1>3
<1>6. ASSUME NEW new, NEW more, Grows(dispatches, new), y.pc # "idle",
             \A k \in 2 .. Len(x.todo) : new[x.todo[k].id] = dispatches[x.todo[k].id]
      PROVE  InHand(new, more, y)
  <2>1. y.pc = "claimed" /\ Len(x.todo) > 1
    BY <1>2, <1>6
  <2>2. QED
    BY <1>1, <1>2, <1>4, <1>6, <2>1, RestInHand
<1>7. ASSUME NEW more, y.pc # "idle"
      PROVE  InHand(dispatches, more, y)
  <2>1. Grows(dispatches, dispatches)
    BY DEF Grows
  <2>2. QED
    BY <1>6, <1>7, <2>1
<1>8. ASSUME NEW d, NEW new, NEW more, Written(dispatches, id, d, new), y.pc # "idle"
      PROVE  InHand(new, more, y)
  <2>1. Grows(dispatches, new)
    BY <1>8, OneDispatch
  <2>2. ASSUME NEW k \in 2 .. Len(x.todo)
        PROVE  new[x.todo[k].id] = dispatches[x.todo[k].id]
    <3>1. k \in 1 .. Len(x.todo) /\ 1 \in 1 .. Len(x.todo) /\ k # 1
      BY <1>1
    <3>2. x.todo[k].id \in DOMAIN dispatches
      BY <1>1, <3>1 DEF InHand, Claimed
    <3>3. x.todo[k].id # x.todo[1].id
      BY <3>1 DEF MonitorInv, Apart
    <3>4. QED
      BY <1>1, <1>8, <3>2, <3>3 DEF Written
  <2>3. QED
    BY <1>6, <1>8, <2>1, <2>2
<1>9. y.todo = Tail(x.todo)
  BY <1>2
<1>10. QED
  BY <1>4, <1>5, <1>7, <1>8, <1>9 DEF y

\* The steps that only move the worker on in its current dispatch.
LEMMA WorkerLooksOn ==
    ASSUME MonitorInv, NEW w \in Watchers, watchers[w].pc # "idle",
           NEW pc \in WatcherStates \ {"idle"}, NEW v \in Versions, NEW r \in Versions,
           NEW b \in Versions, NEW f \in SUBSET Rules,
           watchers' = [watchers EXCEPT ![w] = [pc |-> pc, todo |-> watchers[w].todo, seen |-> v,
                                                read |-> r, base |-> b, found |-> f]],
           UNCHANGED <<monitors, dispatches, dataset, occasions>>, troubles' \in 0 .. MaxTroubles,
           alerts \subseteq alerts',
           alerts' \subseteq (DOMAIN dispatches) \X (Rules \cup {"execution_failure"}),
           pc \in {"claimed", "skipping", "comparing", "executing", "alerting"}
              => dispatches[Current(w).id].status = "running",
           pc \in {"skipping", "recording"} => Known(dispatches, Current(w).of, v),
           pc = "alerting" => \A rule \in Found(r, b) \ f : <<Current(w).id, rule>> \in alerts'
    PROVE  MonitorInv'
<1> DEFINE x == [pc |-> pc, todo |-> watchers[w].todo, seen |-> v, read |-> r, base |-> b,
                 found |-> f]
<1>1. /\ watchers[w].todo \in Seq(ClaimedRow) /\ watchers[w].todo # <<>>
      /\ InHand(dispatches, alerts, watchers[w]) /\ Current(w) = watchers[w].todo[1]
      /\ monitors \in [Monitors -> MonitorRow]
  BY AtWork
<1>2. x \in Watcher /\ x.todo = watchers[w].todo
  BY <1>1 DEF Watcher
<1>3. x.pc = pc /\ x.seen = v /\ x.read = r /\ x.base = b /\ x.found = f
  OBVIOUS
<1>4. watchers' = [watchers EXCEPT ![w] = x]
  OBVIOUS
<1> HIDE DEF x
<1>5. InHand(dispatches, alerts', x)
  BY <1>1, <1>2, <1>3 DEF InHand
<1>6. x.pc = "idle" <=> x.todo = <<>>
  BY <1>1, <1>2, <1>3
<1>7. /\ monitors' \in [Monitors -> MonitorRow]
      /\ \A m \in Monitors :
            /\ monitors'[m].due = monitors[m].due
            /\ \/ monitors'[m].last = monitors[m].last
               \/ Known(dispatches, m, monitors'[m].last)
  BY <1>1
<1>8. x.todo \in {watchers[w].todo, Tail(watchers[w].todo), <<>>}
  BY <1>2
<1>9. QED
  BY <1>2, <1>4, <1>5, <1>6, <1>7, <1>8, WatcherLooks

\* A watcher is its components.
LEMMA WatcherRecord ==
    ASSUME NEW x \in Watcher
    PROVE  /\ x.pc \in WatcherStates /\ x.seen \in Versions /\ x.read \in Versions
           /\ x.base \in Versions /\ x.found \in SUBSET Rules
           /\ x = [pc |-> x.pc, todo |-> x.todo, seen |-> x.seen, read |-> x.read,
                   base |-> x.base, found |-> x.found]
BY DEF Watcher

\* Changing components of a watcher, one or two at a time.
LEMMA WatcherWith ==
    ASSUME NEW x \in Watcher, NEW c, NEW v
    PROVE  /\ [x EXCEPT !.pc = c]
              = [pc |-> c, todo |-> x.todo, seen |-> x.seen, read |-> x.read, base |-> x.base,
                 found |-> x.found]
           /\ [x EXCEPT !.found = v]
              = [pc |-> x.pc, todo |-> x.todo, seen |-> x.seen, read |-> x.read, base |-> x.base,
                 found |-> v]
           /\ [x EXCEPT !.seen = v, !.pc = c]
              = [pc |-> c, todo |-> x.todo, seen |-> v, read |-> x.read, base |-> x.base,
                 found |-> x.found]
           /\ [x EXCEPT !.pc = c, !.base = v]
              = [pc |-> c, todo |-> x.todo, seen |-> x.seen, read |-> x.read, base |-> v,
                 found |-> x.found]
<1>1. x = [pc |-> x.pc, todo |-> x.todo, seen |-> x.seen, read |-> x.read, base |-> x.base,
           found |-> x.found]
  BY WatcherRecord
<1>2. [x EXCEPT !.found = v]
      = [pc |-> x.pc, todo |-> x.todo, seen |-> x.seen, read |-> x.read, base |-> x.base,
         found |-> v]
  BY <1>1
<1>3. [x EXCEPT !.seen = v, !.pc = c]
      = [pc |-> c, todo |-> x.todo, seen |-> v, read |-> x.read, base |-> x.base,
         found |-> x.found]
  <2> DEFINE r == [x EXCEPT !.seen = v]
  <2>1. r = [pc |-> x.pc, todo |-> x.todo, seen |-> v, read |-> x.read, base |-> x.base,
             found |-> x.found]
    BY <1>1
  <2>2. [x EXCEPT !.seen = v, !.pc = c] = [r EXCEPT !.pc = c]
    OBVIOUS
  <2> HIDE DEF r
  <2>3. [r EXCEPT !.pc = c]
        = [pc |-> c, todo |-> x.todo, seen |-> v, read |-> x.read, base |-> x.base,
           found |-> x.found]
    BY <2>1
  <2>4. QED
    BY <2>2, <2>3
<1>4. [x EXCEPT !.pc = c]
      = [pc |-> c, todo |-> x.todo, seen |-> x.seen, read |-> x.read, base |-> x.base,
         found |-> x.found]
  BY <1>1
<1>5. [x EXCEPT !.pc = c, !.base = v]
      = [pc |-> c, todo |-> x.todo, seen |-> x.seen, read |-> x.read, base |-> v,
         found |-> x.found]
  <2> DEFINE r == [x EXCEPT !.pc = c]
  <2>1. r = [pc |-> c, todo |-> x.todo, seen |-> x.seen, read |-> x.read, base |-> x.base,
             found |-> x.found]
    BY <1>1
  <2>2. [x EXCEPT !.pc = c, !.base = v] = [r EXCEPT !.base = v]
    OBVIOUS
  <2> HIDE DEF r
  <2>3. [r EXCEPT !.base = v]
        = [pc |-> c, todo |-> x.todo, seen |-> x.seen, read |-> x.read, base |-> v,
           found |-> x.found]
    BY <2>1
  <2>4. QED
    BY <2>2, <2>3
<1>6. QED
  BY <1>2, <1>3, <1>4, <1>5

\* The fingerprint: a check is skipped for the one of a claimed record, and no dataset has the
\* fingerprint of a record that has none.
LEMMA FingerprintKeeps ==
    ASSUME MonitorInv, NEW w \in Watchers, Fingerprint(w)
    PROVE  MonitorInv'
<1> DEFINE c == Current(w)
           x == watchers[w]
           same == c.of \in OnChange /\ ~c.force /\ dataset[c.of] = c.last
           pc == IF same THEN "skipping" ELSE "comparing"
<1>1. x.pc = "claimed"
  BY DEF Fingerprint
<1>2. /\ InHand(dispatches, alerts, x) /\ x \in Watcher /\ c \in ClaimedRow
      /\ c = x.todo[1] /\ Claimed(dispatches, c) /\ dataset \in [Monitors -> Datasets]
      /\ alerts \subseteq (DOMAIN dispatches) \X (Rules \cup {"execution_failure"})
      /\ troubles \in 0 .. MaxTroubles
  BY <1>1, AtWork
<1>3. c.of \in Monitors /\ dataset[c.of] \in Datasets
  BY <1>2 DEF ClaimedRow
<1>4. watchers' = [watchers EXCEPT ![w].seen = dataset[c.of], ![w].pc = pc]
      /\ UNCHANGED <<monitors, dispatches, alerts, dataset, occasions, troubles>>
  BY DEF Fingerprint
<1>5. watchers' = [watchers EXCEPT ![w] = [pc |-> pc, todo |-> x.todo, seen |-> dataset[c.of],
                                           read |-> x.read, base |-> x.base, found |-> x.found]]
  <2> HIDE DEF pc, c
  <2>1. watchers' = [watchers EXCEPT ![w] = [x EXCEPT !.seen = dataset[c.of], !.pc = pc]]
    BY <1>4
  <2>2. [x EXCEPT !.seen = dataset[c.of], !.pc = pc]
        = [pc |-> pc, todo |-> x.todo, seen |-> dataset[c.of], read |-> x.read, base |-> x.base,
           found |-> x.found]
    BY <1>2, WatcherWith, ZenonT(40)
  <2>3. QED
    BY <2>1, <2>2
<1>6. dispatches[c.id].status = "running"
  BY <1>1, <1>2 DEF InHand
<1>7. pc = "skipping" => Known(dispatches, c.of, dataset[c.of])
  <2>1. SUFFICES ASSUME same
                 PROVE  Known(dispatches, c.of, dataset[c.of])
    OBVIOUS
  <2>2. c.last # Unset
    BY <1>3, <2>1, MonitorAssumption DEF Unset
  <2>3. QED
    BY <1>2, <2>1, <2>2 DEF Claimed
<1>8. pc \in WatcherStates \ {"idle"} /\ pc # "alerting" /\ pc # "recording"
  BY DEF WatcherStates
<1>9. dataset[c.of] \in Versions
  BY <1>3 DEF Versions
<1> HIDE DEF pc, same
<1>10. x.read \in Versions /\ x.base \in Versions /\ x.found \in SUBSET Rules /\ x.pc # "idle"
  BY <1>1, <1>2, WatcherRecord
<1>11. /\ UNCHANGED <<monitors, dispatches, dataset, occasions>> /\ troubles' \in 0 .. MaxTroubles
       /\ alerts \subseteq alerts'
       /\ alerts' \subseteq (DOMAIN dispatches) \X (Rules \cup {"execution_failure"})
  BY <1>2, <1>4
<1>12. QED
  BY <1>5, <1>6, <1>7, <1>8, <1>9, <1>10, <1>11, WorkerLooksOn

\* The baseline plays no part before the metrics are evaluated.
LEMMA CompareKeeps ==
    ASSUME MonitorInv, NEW w \in Watchers, Compare(w)
    PROVE  MonitorInv'
<1> DEFINE x == watchers[w]
<1>1. /\ x.pc = "comparing" /\ UNCHANGED <<monitors, dispatches, alerts, dataset, occasions, troubles>>
  BY DEF Compare
<1>2. PICK b \in Versions : watchers' = [watchers EXCEPT ![w].pc = "executing", ![w].base = b]
  BY DEF Compare, Versions
<1>3. /\ InHand(dispatches, alerts, x) /\ x \in Watcher /\ Current(w) = x.todo[1]
      /\ alerts \subseteq (DOMAIN dispatches) \X (Rules \cup {"execution_failure"})
      /\ troubles \in 0 .. MaxTroubles
  BY <1>1, AtWork
<1>4. watchers' = [watchers EXCEPT ![w] = [pc |-> "executing", todo |-> x.todo, seen |-> x.seen,
                                           read |-> x.read, base |-> b, found |-> x.found]]
  <2>1. watchers' = [watchers EXCEPT ![w] = [x EXCEPT !.pc = "executing", !.base = b]]
    BY <1>2
  <2>2. [x EXCEPT !.pc = "executing", !.base = b]
        = [pc |-> "executing", todo |-> x.todo, seen |-> x.seen, read |-> x.read, base |-> b,
           found |-> x.found]
    BY <1>3, WatcherWith
  <2>3. QED
    BY <2>1, <2>2
<1>5. dispatches[Current(w).id].status = "running"
  BY <1>1, <1>3 DEF InHand
<1>6. "executing" \in WatcherStates \ {"idle"}
  BY DEF WatcherStates
<1>7. QED
  BY <1>1, <1>3, <1>4, <1>5, <1>6, WatcherRecord, WorkerLooksOn

\* The metrics: what the thresholds find is still to be reported.
LEMMA ExecuteKeeps ==
    ASSUME MonitorInv, NEW w \in Watchers, Execute(w)
    PROVE  MonitorInv'
<1> DEFINE x == watchers[w]
           v == dataset[Current(w).of]
           f == Found(v, x.base)
<1>1. /\ x.pc = "executing"
      /\ watchers' = [watchers EXCEPT ![w].pc = "alerting", ![w].read = v, ![w].found = f]
      /\ UNCHANGED <<monitors, dispatches, alerts, dataset, occasions, troubles>>
  BY DEF Execute
<1>2. /\ InHand(dispatches, alerts, x) /\ x \in Watcher /\ Current(w) = x.todo[1]
      /\ Current(w) \in ClaimedRow /\ dataset \in [Monitors -> Datasets]
      /\ alerts \subseteq (DOMAIN dispatches) \X (Rules \cup {"execution_failure"})
      /\ troubles \in 0 .. MaxTroubles
  BY <1>1, AtWork
<1>3. v \in Versions /\ f \in SUBSET Rules
  BY <1>2 DEF ClaimedRow, Versions, Found
<1> HIDE DEF v, f
<1>4. watchers' = [watchers EXCEPT ![w] = [pc |-> "alerting", todo |-> x.todo, seen |-> x.seen,
                                           read |-> v, base |-> x.base, found |-> f]]
  <2> DEFINE r == [x EXCEPT !.pc = "alerting"]
             s == [r EXCEPT !.read = v]
  <2>1. watchers' = [watchers EXCEPT ![w] = [s EXCEPT !.found = f]]
    BY <1>1
  <2>2. r = [pc |-> "alerting", todo |-> x.todo, seen |-> x.seen, read |-> x.read,
             base |-> x.base, found |-> x.found]
    BY <1>2, WatcherWith
  <2> HIDE DEF r
  <2>3. s = [pc |-> "alerting", todo |-> x.todo, seen |-> x.seen, read |-> v,
             base |-> x.base, found |-> x.found]
    BY <2>2
  <2> HIDE DEF s
  <2>4. [s EXCEPT !.found = f]
        = [pc |-> "alerting", todo |-> x.todo, seen |-> x.seen, read |-> v, base |-> x.base,
           found |-> f]
    BY <2>3
  <2>5. QED
    BY <2>1, <2>4
<1>5. dispatches[Current(w).id].status = "running"
  BY <1>1, <1>2 DEF InHand
<1>6. "alerting" \in WatcherStates \ {"idle"} /\ Found(v, x.base) \ f = {} /\ x.pc # "idle"
  BY <1>1 DEF WatcherStates, f
<1>7. x.seen \in Versions /\ x.base \in Versions
  BY <1>2, WatcherRecord
<1>8. \A rule \in Found(v, x.base) \ f : <<Current(w).id, rule>> \in alerts'
  BY <1>6
<1>9. /\ UNCHANGED <<monitors, dispatches, dataset, occasions>> /\ troubles' \in 0 .. MaxTroubles
      /\ alerts \subseteq alerts'
      /\ alerts' \subseteq (DOMAIN dispatches) \X (Rules \cup {"execution_failure"})
  BY <1>1, <1>2
<1> HIDE DEF x
<1>10. QED
  BY <1>3, <1>4, <1>5, <1>6, <1>7, <1>8, <1>9, WorkerLooksOn DEF x

\* An alert is on file before the rule is struck off the list.
LEMMA RaiseAlertKeeps ==
    ASSUME MonitorInv, NEW w \in Watchers, RaiseAlert(w)
    PROVE  MonitorInv'
<1> DEFINE x == watchers[w]
<1>1. x.pc = "alerting" /\ UNCHANGED <<monitors, dispatches, dataset, occasions, troubles>>
  BY DEF RaiseAlert
<1>2. PICK rule \in x.found :
          /\ alerts' = alerts \cup {<<Current(w).id, rule>>}
          /\ watchers' = [watchers EXCEPT ![w].found = @ \ {rule}]
  BY DEF RaiseAlert
<1>3. /\ InHand(dispatches, alerts, x) /\ x \in Watcher /\ Current(w) = x.todo[1]
      /\ Claimed(dispatches, Current(w))
      /\ alerts \subseteq (DOMAIN dispatches) \X (Rules \cup {"execution_failure"})
      /\ troubles \in 0 .. MaxTroubles
  BY <1>1, AtWork
<1> DEFINE f == x.found \ {rule}
<1>4. f \in SUBSET Rules /\ rule \in Rules
  BY <1>2, <1>3, WatcherRecord
<1> HIDE DEF f
<1>5. watchers' = [watchers EXCEPT ![w] = [pc |-> "alerting", todo |-> x.todo, seen |-> x.seen,
                                           read |-> x.read, base |-> x.base, found |-> f]]
  <2>1. watchers' = [watchers EXCEPT ![w] = [x EXCEPT !.found = f]]
    BY <1>2 DEF f
  <2>2. [x EXCEPT !.found = f]
        = [pc |-> "alerting", todo |-> x.todo, seen |-> x.seen, read |-> x.read,
           base |-> x.base, found |-> f]
    BY <1>1, <1>3, WatcherWith, ZenonT(40)
  <2>3. QED
    BY <2>1, <2>2
<1>6. dispatches[Current(w).id].status = "running"
  BY <1>1, <1>3 DEF InHand
<1>7. alerts' \subseteq (DOMAIN dispatches) \X (Rules \cup {"execution_failure"})
  BY <1>2, <1>3, <1>4 DEF Claimed
<1>8. \A other \in Found(x.read, x.base) \ f : <<Current(w).id, other>> \in alerts'
  BY <1>1, <1>2, <1>3 DEF InHand, f
<1>9. "alerting" \in WatcherStates \ {"idle"} /\ alerts \subseteq alerts' /\ x.pc # "idle"
  BY <1>1, <1>2 DEF WatcherStates
<1>10. x.seen \in Versions /\ x.read \in Versions /\ x.base \in Versions
  BY <1>3, WatcherRecord
<1>11. /\ UNCHANGED <<monitors, dispatches, dataset, occasions>> /\ troubles' \in 0 .. MaxTroubles
  BY <1>1, <1>3
<1>12. QED
  BY <1>4, <1>5, <1>6, <1>7, <1>8, <1>9, <1>10, <1>11, WorkerLooksOn

\* An exception: what is on file stays, and nothing is claimed of it.
LEMMA RaiseKeeps ==
    ASSUME MonitorInv, NEW w \in Watchers, Raise(w)
    PROVE  MonitorInv'
<1> DEFINE x == watchers[w]
<1>1. /\ x.pc # "idle" /\ watchers' = [watchers EXCEPT ![w].pc = "failing"]
      /\ UNCHANGED <<monitors, dispatches, alerts, dataset, occasions>>
      /\ troubles < MaxTroubles /\ troubles' = troubles + 1
  BY DEF Raise, Trouble
<1>2. /\ x \in Watcher /\ troubles \in 0 .. MaxTroubles
      /\ alerts \subseteq (DOMAIN dispatches) \X (Rules \cup {"execution_failure"})
  BY <1>1, AtWork
<1>3. watchers' = [watchers EXCEPT ![w] = [pc |-> "failing", todo |-> x.todo, seen |-> x.seen,
                                           read |-> x.read, base |-> x.base, found |-> x.found]]
  <2>1. watchers' = [watchers EXCEPT ![w] = [x EXCEPT !.pc = "failing"]]
    BY <1>1
  <2>2. QED
    BY <1>2, <2>1, WatcherWith
<1>4. troubles' \in 0 .. MaxTroubles
  BY <1>1, <1>2, MonitorAssumption
<1>5. "failing" \in WatcherStates \ {"idle"} /\ x.pc # "idle"
  BY <1>1 DEF WatcherStates
<1>6. /\ x.seen \in Versions /\ x.read \in Versions /\ x.base \in Versions
      /\ x.found \in SUBSET Rules
  BY <1>2, WatcherRecord
<1>7. /\ UNCHANGED <<monitors, dispatches, dataset, occasions>>
      /\ alerts \subseteq alerts'
      /\ alerts' \subseteq (DOMAIN dispatches) \X (Rules \cup {"execution_failure"})
  BY <1>1, <1>2
<1>8. QED
  BY <1>3, <1>4, <1>5, <1>6, <1>7, WorkerLooksOn

\* A worker that dies forgets its batch; its dispatches are left as they are.
LEMMA StopWatchingKeeps ==
    ASSUME MonitorInv, NEW w \in Watchers, StopWatching(w)
    PROVE  MonitorInv'
<1>1. /\ watchers[w].pc # "idle" /\ watchers' = [watchers EXCEPT ![w] = Resting]
      /\ UNCHANGED <<monitors, dispatches, alerts, dataset, occasions>>
      /\ troubles < MaxTroubles /\ troubles' = troubles + 1
  BY DEF StopWatching, Trouble
<1>2. /\ troubles \in 0 .. MaxTroubles /\ monitors \in [Monitors -> MonitorRow]
      /\ alerts \subseteq (DOMAIN dispatches) \X (Rules \cup {"execution_failure"})
  BY <1>1, AtWork
<1>3. troubles' \in 0 .. MaxTroubles
  BY <1>1, <1>2, MonitorAssumption
<1>4. Resting \in Watcher /\ Resting.pc = "idle" /\ Resting.todo = <<>>
  <2>1. <<>> \in Seq(ClaimedRow) /\ Unset \in Versions /\ "idle" \in WatcherStates
    BY EmptySeq DEF Versions, WatcherStates
  <2>2. QED
    BY <2>1 DEF Resting, Watcher
<1>5. /\ monitors' \in [Monitors -> MonitorRow]
      /\ \A m \in Monitors :
            /\ monitors'[m].due = monitors[m].due
            /\ \/ monitors'[m].last = monitors[m].last
               \/ Known(dispatches, m, monitors'[m].last)
  BY <1>1, <1>2
<1>6. /\ UNCHANGED <<dispatches, dataset, occasions>> /\ alerts \subseteq alerts'
      /\ alerts' \subseteq (DOMAIN dispatches) \X (Rules \cup {"execution_failure"})
  BY <1>1, <1>2
<1>7. Resting.todo \in {watchers[w].todo, Tail(watchers[w].todo), <<>>}
  BY <1>4
<1>8. QED
  BY <1>1, <1>3, <1>4, <1>5, <1>6, <1>7, WatcherLooks

\* A step of a worker that leaves the rows of the monitors as they are.
LEMMA RowsStay ==
    ASSUME MonitorInv, UNCHANGED monitors
    PROVE  /\ monitors' \in [Monitors -> MonitorRow]
           /\ \A ds : \A m \in Monitors :
                 /\ monitors'[m].due = monitors[m].due
                 /\ \/ monitors'[m].last = monitors[m].last
                    \/ Known(ds, m, monitors'[m].last)
BY DEF MonitorInv, MonitorsKnown

\* Skipping: the fingerprint is that of a completed check.
LEMMA SkipKeeps ==
    ASSUME MonitorInv, NEW w \in Watchers, Skip(w)
    PROVE  MonitorInv'
<1> DEFINE x == watchers[w]
           id == Current(w).id
           d == [dispatches[id] EXCEPT !.status = "skipped", !.seen = x.seen]
<1>1. /\ x.pc = "skipping"
      /\ dispatches' = [dispatches EXCEPT ![id].status = "skipped", ![id].seen = x.seen]
      /\ NextClaim(w)
      /\ UNCHANGED <<monitors, alerts, dataset, occasions, troubles>>
  BY DEF Skip
<1>2. /\ MonitorsKnown /\ InHand(dispatches, alerts, x) /\ x \in Watcher
      /\ Current(w) = x.todo[1] /\ Claimed(dispatches, Current(w)) /\ dispatches[id] \in Dispatch
      /\ alerts \subseteq (DOMAIN dispatches) \X (Rules \cup {"execution_failure"})
      /\ troubles \in 0 .. MaxTroubles
  BY <1>1, AtWork
<1>3. dispatches[id].status = "running" /\ Known(dispatches, Current(w).of, x.seen)
  BY <1>1, <1>2 DEF InHand
<1>4. d.of = dispatches[id].of /\ d.status = "skipped" /\ d.seen = x.seen /\ d \in Dispatch
  <2>1. x.seen \in Datasets \cup {Unset}
    BY <1>2, WatcherRecord DEF Versions
  <2>2. QED
    BY <1>2, <2>1 DEF Dispatch
<1>5. dispatches' = [dispatches EXCEPT ![id] = d]
  BY <1>1
<1> HIDE DEF d, id
<1>6. Successor(dispatches[id], d)
  BY <1>3, <1>4 DEF Successor
<1>7. Written(dispatches, id, d, dispatches')
  BY <1>2, <1>5, <1>6 DEF Written, MonitorsKnown, Claimed, id
<1>8. Grows(dispatches, dispatches')
  BY <1>7, OneDispatch
<1>9. dispatches'[id] = d /\ dispatches[id].of = Current(w).of
  BY <1>2, <1>7 DEF Written, Claimed, id
<1>10. Reliable(dispatches', alerts', id)
  <2>1. Known(dispatches', Current(w).of, x.seen)
    BY <1>3, <1>8, KnownStays
  <2>2. QED
    BY <1>4, <1>9, <2>1 DEF Reliable
<1>11. watchers' = [watchers EXCEPT ![w] = Rest(w)]
  BY <1>1 DEF NextClaim, Rest
<1>12. /\ Rest(w) \in Watcher /\ Rest(w).todo = Tail(x.todo)
       /\ Rest(w).pc = "idle" <=> Rest(w).todo = <<>>
       /\ Rest(w).pc # "idle" => InHand(dispatches', alerts', Rest(w))
  BY <1>1, <1>7, GoesOn DEF id
<1>13. /\ UNCHANGED <<dataset, occasions>> /\ alerts \subseteq alerts' /\ x.pc # "idle"
       /\ alerts' \subseteq (DOMAIN dispatches) \X (Rules \cup {"execution_failure"})
       /\ troubles' \in 0 .. MaxTroubles
  BY <1>1, <1>2
<1>14. /\ monitors' \in [Monitors -> MonitorRow]
       /\ \A m \in Monitors :
             /\ monitors'[m].due = monitors[m].due
             /\ \/ monitors'[m].last = monitors[m].last
                \/ Known(dispatches', m, monitors'[m].last)
  BY <1>1, RowsStay
<1>15. Rest(w).todo \in {x.todo, Tail(x.todo), <<>>}
  BY <1>12
<1>16. QED
  BY <1>5, <1>6, <1>10, <1>11, <1>12, <1>13, <1>14, <1>15, WatcherActs DEF id

\* finish(completed), its first statement: every alert that is due is on file by then.
LEMMA FinishRowKeeps ==
    ASSUME MonitorInv, NEW w \in Watchers, FinishRow(w)
    PROVE  MonitorInv'
<1> DEFINE x == watchers[w]
           id == Current(w).id
           finished == {i \in DOMAIN dispatches : dispatches[i].status = "completed"}
           n == 1 + Cardinality(finished)
           d == [dispatches[id] EXCEPT !.status = "completed", !.seen = x.seen, !.read = x.read,
                                       !.base = x.base, !.done = n]
<1>1. /\ x.pc = "alerting" /\ x.found = {}
      /\ dispatches' = [dispatches EXCEPT ![id] = d]
      /\ watchers' = [watchers EXCEPT ![w].pc = "recording"]
      /\ UNCHANGED <<monitors, alerts, dataset, occasions, troubles>>
  BY DEF FinishRow, Completed
<1>2. /\ MonitorsKnown /\ InHand(dispatches, alerts, x) /\ x \in Watcher
      /\ x.todo # <<>> /\ x.todo \in Seq(ClaimedRow)
      /\ Current(w) = x.todo[1] /\ Claimed(dispatches, Current(w)) /\ dispatches[id] \in Dispatch
      /\ alerts \subseteq (DOMAIN dispatches) \X (Rules \cup {"execution_failure"})
      /\ troubles \in 0 .. MaxTroubles
  BY <1>1, AtWork
<1>3. n \in Nat
  <2>1. dispatches \in Seq(Dispatch) /\ Len(dispatches) \in Nat
    BY <1>2 DEF MonitorsKnown
  <2>2. IsFiniteSet(1 .. Len(dispatches))
    <3>1. 1 \in Int /\ Len(dispatches) \in Int
      BY <2>1
    <3>2. QED
      BY <3>1, FS_Interval
  <2>3. finished \in SUBSET (1 .. Len(dispatches))
    BY <2>1
  <2> HIDE DEF finished
  <2>4. Cardinality(finished) \in Nat
    BY <2>2, <2>3, FS_Subset, FS_CardinalityType
  <2>5. QED
    BY <2>4
<1> HIDE DEF n
<1>4. x.seen \in Datasets \cup {Unset} /\ x.read \in Datasets \cup {Unset}
      /\ x.base \in Datasets \cup {Unset}
  BY <1>2, WatcherRecord DEF Versions
<1>5. /\ d.of = dispatches[id].of /\ d.status = "completed" /\ d.seen = x.seen
      /\ d.read = x.read /\ d.base = x.base
  BY <1>2 DEF Dispatch
<1>6. d \in Dispatch
  BY <1>2, <1>3, <1>4 DEF Dispatch
<1> HIDE DEF d, id
<1>7. dispatches[id].status = "running"
  BY <1>1, <1>2 DEF InHand, id
<1>8. Successor(dispatches[id], d)
  BY <1>5, <1>6, <1>7 DEF Successor
<1>9. Written(dispatches, id, d, dispatches')
  BY <1>1, <1>2, <1>8 DEF Written, MonitorsKnown, Claimed, id
<1>10. /\ Grows(dispatches, dispatches') /\ DOMAIN dispatches' = DOMAIN dispatches
  BY <1>9, OneDispatch
<1>11. dispatches'[id] = d /\ dispatches[id].of = Current(w).of /\ id \in DOMAIN dispatches
  BY <1>2, <1>9 DEF Written, Claimed, id
<1>12. \A rule \in Found(x.read, x.base) : <<id, rule>> \in alerts'
  BY <1>1, <1>2 DEF InHand, id
<1>13. Reliable(dispatches', alerts', id)
  BY <1>5, <1>11, <1>12 DEF Reliable
<1>14. Known(dispatches', Current(w).of, x.seen)
  BY <1>5, <1>10, <1>11 DEF Known
<1> DEFINE y == [x EXCEPT !.pc = "recording"]
<1>15. /\ y = [pc |-> "recording", todo |-> x.todo, seen |-> x.seen, read |-> x.read,
               base |-> x.base, found |-> x.found]
       /\ watchers' = [watchers EXCEPT ![w] = y]
  BY <1>1, <1>2, WatcherWith
<1> HIDE DEF y
<1>16. /\ y.pc = "recording" /\ y.todo = x.todo /\ y.seen = x.seen /\ y \in Watcher
  <2>1. "recording" \in WatcherStates
    BY DEF WatcherStates
  <2>2. QED
    BY <1>2, <1>15, <2>1, WatcherRecord DEF Watcher
<1>17. InHand(dispatches', alerts', y)
  <2>1. \A k \in 1 .. Len(x.todo) : Claimed(dispatches', x.todo[k])
    BY <1>2, <1>10, KnownStays DEF InHand
  <2>2. ASSUME NEW k \in 2 .. Len(x.todo)
        PROVE  dispatches'[x.todo[k].id].status = "running"
    <3>1. k \in 1 .. Len(x.todo) /\ 1 \in 1 .. Len(x.todo) /\ k # 1
      BY <1>2
    <3>2. x.todo[k].id # id
      BY <1>2, <3>1 DEF MonitorInv, Apart, id
    <3>3. x.todo[k].id \in DOMAIN dispatches /\ dispatches[x.todo[k].id].status = "running"
      BY <1>2, <3>1 DEF InHand, Claimed
    <3>4. dispatches'[x.todo[k].id] = dispatches[x.todo[k].id]
      BY <1>9, <3>2, <3>3 DEF Written
    <3>5. QED
      BY <3>3, <3>4
  <2>3. QED
    BY <1>2, <1>14, <1>16, <2>1, <2>2 DEF InHand
<1>18. /\ UNCHANGED <<dataset, occasions>> /\ alerts \subseteq alerts' /\ x.pc # "idle"
       /\ alerts' \subseteq (DOMAIN dispatches) \X (Rules \cup {"execution_failure"})
       /\ troubles' \in 0 .. MaxTroubles
  BY <1>1, <1>2
<1>19. /\ monitors' \in [Monitors -> MonitorRow]
       /\ \A m \in Monitors :
             /\ monitors'[m].due = monitors[m].due
             /\ \/ monitors'[m].last = monitors[m].last
                \/ Known(dispatches', m, monitors'[m].last)
  BY <1>1, RowsStay
<1>20. y.todo \in {x.todo, Tail(x.todo), <<>>} /\ (y.pc = "idle" <=> y.todo = <<>>)
  BY <1>2, <1>16
<1>21. QED
  BY <1>1, <1>8, <1>13, <1>15, <1>16, <1>17, <1>18, <1>19, <1>20, WatcherActs DEF id

\* finish(completed), its second statement: the fingerprint is that of the completed check.
LEMMA RecordKeeps ==
    ASSUME MonitorInv, NEW w \in Watchers, Record(w)
    PROVE  MonitorInv'
<1> DEFINE x == watchers[w]
           of == Current(w).of
<1>1. /\ x.pc = "recording"
      /\ monitors' = [monitors EXCEPT ![of].last = x.seen]
      /\ NextClaim(w)
      /\ UNCHANGED <<dispatches, alerts, dataset, occasions, troubles>>
  BY DEF Record
<1>2. /\ InHand(dispatches, alerts, x) /\ x \in Watcher
      /\ Current(w) = x.todo[1] /\ Current(w) \in ClaimedRow
      /\ monitors \in [Monitors -> MonitorRow]
      /\ alerts \subseteq (DOMAIN dispatches) \X (Rules \cup {"execution_failure"})
      /\ troubles \in 0 .. MaxTroubles
  BY <1>1, AtWork
<1>3. Known(dispatches, of, x.seen) /\ of \in Monitors /\ x.seen \in Versions
  BY <1>1, <1>2, WatcherRecord DEF InHand, ClaimedRow
<1> HIDE DEF of
<1>4. ASSUME NEW m \in Monitors
      PROVE  /\ monitors'[m].due = monitors[m].due
             /\ \/ monitors'[m].last = monitors[m].last
                \/ Known(dispatches, m, monitors'[m].last)
  <2>1. CASE m = of
    <3>1. monitors'[m] = [monitors[m] EXCEPT !.last = x.seen] /\ monitors[m] \in MonitorRow
      BY <1>1, <1>2, <2>1
    <3>2. monitors'[m].due = monitors[m].due /\ monitors'[m].last = x.seen
      BY <3>1 DEF MonitorRow
    <3>3. QED
      BY <1>3, <2>1, <3>2
  <2>2. CASE m # of
    BY <1>1, <1>2, <2>2
  <2>3. QED
    BY <2>1, <2>2
<1>5. monitors' \in [Monitors -> MonitorRow]
  BY <1>1, <1>2, <1>3 DEF MonitorRow
<1>6. watchers' = [watchers EXCEPT ![w] = Rest(w)]
  BY <1>1 DEF NextClaim, Rest
<1>7. /\ Rest(w) \in Watcher /\ Rest(w).todo = Tail(x.todo)
      /\ Rest(w).pc = "idle" <=> Rest(w).todo = <<>>
      /\ Rest(w).pc # "idle" => InHand(dispatches, alerts', Rest(w))
  BY <1>1, GoesOn
<1>8. /\ UNCHANGED <<dispatches, dataset, occasions>> /\ alerts \subseteq alerts'
      /\ alerts' \subseteq (DOMAIN dispatches) \X (Rules \cup {"execution_failure"})
      /\ troubles' \in 0 .. MaxTroubles /\ x.pc # "idle"
  BY <1>1, <1>2
<1>9. Rest(w).todo \in {x.todo, Tail(x.todo), <<>>}
  BY <1>7
<1>10. QED
  BY <1>4, <1>5, <1>6, <1>7, <1>8, <1>9, WatcherLooks

\* finish(failed): what is completed stays, and nothing else can be relied on.
LEMMA FailRowKeeps ==
    ASSUME MonitorInv, NEW w \in Watchers, FailRow(w)
    PROVE  MonitorInv'
<1> DEFINE x == watchers[w]
           id == Current(w).id
           old == dispatches[id]
           d == [old EXCEPT !.status = IF @ = "running" THEN "failed" ELSE @]
<1>1. /\ x.pc = "failing"
      /\ dispatches' = [dispatches EXCEPT ![id] = d]
      /\ watchers' = [watchers EXCEPT ![w].pc = "reporting"]
      /\ UNCHANGED <<monitors, alerts, dataset, occasions, troubles>>
  BY DEF FailRow
<1>2. /\ MonitorsKnown /\ InHand(dispatches, alerts, x) /\ x \in Watcher
      /\ x.todo # <<>> /\ x.todo \in Seq(ClaimedRow)
      /\ Current(w) = x.todo[1] /\ Claimed(dispatches, Current(w)) /\ old \in Dispatch
      /\ Reliable(dispatches, alerts, id)
      /\ alerts \subseteq (DOMAIN dispatches) \X (Rules \cup {"execution_failure"})
      /\ troubles \in 0 .. MaxTroubles
  BY <1>1, AtWork
<1>3. \/ old.status = "running" /\ d.status = "failed" /\ d.of = old.of /\ d \in Dispatch
      \/ d = old
  <2>1. CASE old.status = "running"
    BY <1>2, <2>1 DEF Dispatch
  <2>2. CASE old.status # "running"
    BY <1>2, <2>2 DEF Dispatch
  <2>3. QED
    BY <2>1, <2>2
<1> HIDE DEF d, id
<1>4. Successor(old, d)
  BY <1>2, <1>3 DEF Successor
<1>5. Written(dispatches, id, d, dispatches')
  BY <1>1, <1>2, <1>4 DEF Written, MonitorsKnown, Claimed, id
<1>6. Grows(dispatches, dispatches') /\ dispatches'[id] = d
  <2>1. Grows(dispatches, dispatches')
    BY <1>5, OneDispatch
  <2>2. dispatches'[id] = d
    BY <1>5 DEF Written
  <2>3. QED
    BY <2>1, <2>2
<1>7. Reliable(dispatches', alerts', id)
  <2>1. CASE d.status = "failed"
    BY <1>6, <2>1 DEF Reliable
  <2>2. CASE d = old
    BY <1>1, <1>2, <1>6, <2>2, KnownStays DEF Reliable
  <2>3. QED
    BY <1>3, <2>1, <2>2
<1> DEFINE y == [x EXCEPT !.pc = "reporting"]
<1>8. /\ y = [pc |-> "reporting", todo |-> x.todo, seen |-> x.seen, read |-> x.read,
              base |-> x.base, found |-> x.found]
      /\ watchers' = [watchers EXCEPT ![w] = y]
  BY <1>1, <1>2, WatcherWith
<1> HIDE DEF y
<1>9. /\ y.pc = "reporting" /\ y.todo = x.todo /\ y \in Watcher
  <2>1. "reporting" \in WatcherStates
    BY DEF WatcherStates
  <2>2. QED
    BY <1>2, <1>8, <2>1, WatcherRecord DEF Watcher
<1>10. InHand(dispatches', alerts', y)
  <2>1. \A k \in 1 .. Len(x.todo) : Claimed(dispatches', x.todo[k])
    BY <1>2, <1>6, KnownStays DEF InHand
  <2>2. ASSUME NEW k \in 2 .. Len(x.todo)
        PROVE  dispatches'[x.todo[k].id].status = "running"
    <3>1. k \in 1 .. Len(x.todo) /\ 1 \in 1 .. Len(x.todo) /\ k # 1
      BY <1>2
    <3>2. x.todo[k].id # id
      BY <1>2, <3>1 DEF MonitorInv, Apart, id
    <3>3. x.todo[k].id \in DOMAIN dispatches /\ dispatches[x.todo[k].id].status = "running"
      BY <1>2, <3>1 DEF InHand, Claimed
    <3>4. dispatches'[x.todo[k].id] = dispatches[x.todo[k].id]
      BY <1>5, <3>2, <3>3 DEF Written
    <3>5. QED
      BY <3>3, <3>4
  <2>3. QED
    BY <1>9, <2>1, <2>2 DEF InHand
<1>11. /\ UNCHANGED <<dataset, occasions>> /\ alerts \subseteq alerts' /\ x.pc # "idle"
       /\ alerts' \subseteq (DOMAIN dispatches) \X (Rules \cup {"execution_failure"})
       /\ troubles' \in 0 .. MaxTroubles
  BY <1>1, <1>2
<1>12. /\ monitors' \in [Monitors -> MonitorRow]
       /\ \A m \in Monitors :
             /\ monitors'[m].due = monitors[m].due
             /\ \/ monitors'[m].last = monitors[m].last
                \/ Known(dispatches', m, monitors'[m].last)
  BY <1>1, RowsStay
<1>13. y.todo \in {x.todo, Tail(x.todo), <<>>} /\ (y.pc = "idle" <=> y.todo = <<>>)
  BY <1>2, <1>9
<1>14. QED
  BY <1>1, <1>4, <1>7, <1>8, <1>9, <1>10, <1>11, <1>12, <1>13, WatcherActs DEF id

\* The alert about a failure is one more.
LEMMA ReportFailureKeeps ==
    ASSUME MonitorInv, NEW w \in Watchers, ReportFailure(w)
    PROVE  MonitorInv'
<1> DEFINE x == watchers[w]
<1>1. /\ x.pc = "reporting"
      /\ alerts' = alerts \cup {<<Current(w).id, "execution_failure">>}
      /\ NextClaim(w)
      /\ UNCHANGED <<monitors, dispatches, dataset, occasions, troubles>>
  BY DEF ReportFailure
<1>2. /\ Claimed(dispatches, Current(w)) /\ troubles \in 0 .. MaxTroubles
      /\ alerts \subseteq (DOMAIN dispatches) \X (Rules \cup {"execution_failure"})
  BY <1>1, AtWork
<1>3. watchers' = [watchers EXCEPT ![w] = Rest(w)]
  BY <1>1 DEF NextClaim, Rest
<1>4. /\ Rest(w) \in Watcher /\ Rest(w).todo = Tail(x.todo)
      /\ Rest(w).pc = "idle" <=> Rest(w).todo = <<>>
      /\ Rest(w).pc # "idle" => InHand(dispatches, alerts', Rest(w))
  BY <1>1, GoesOn
<1>5. /\ UNCHANGED <<dispatches, dataset, occasions>> /\ alerts \subseteq alerts'
      /\ alerts' \subseteq (DOMAIN dispatches) \X (Rules \cup {"execution_failure"})
      /\ troubles' \in 0 .. MaxTroubles /\ x.pc # "idle"
  BY <1>1, <1>2 DEF Claimed
<1>6. /\ monitors' \in [Monitors -> MonitorRow]
      /\ \A m \in Monitors :
            /\ monitors'[m].due = monitors[m].due
            /\ \/ monitors'[m].last = monitors[m].last
               \/ Known(dispatches, m, monitors'[m].last)
  BY <1>1, RowsStay
<1>7. Rest(w).todo \in {x.todo, Tail(x.todo), <<>>}
  BY <1>4
<1>8. QED
  BY <1>3, <1>4, <1>5, <1>6, <1>7, WatcherLooks

\* The dispatches of a monitor are finitely many.
LEMMA UsedFinite ==
    ASSUME NEW ds \in Seq(Dispatch), NEW m
    PROVE  IsFiniteSet(Used(ds, m)) /\ Cardinality(Used(ds, m)) \in Nat
<1>1. Len(ds) \in Nat /\ Used(ds, m) \in SUBSET (1 .. Len(ds))
  BY DEF Used
<1>2. 1 \in Int /\ Len(ds) \in Int
  BY <1>1
<1>3. IsFiniteSet(1 .. Len(ds))
  BY <1>2, FS_Interval
<1>4. QED
  BY <1>1, <1>3, FS_Subset, FS_CardinalityType

\* A batch: some monitors that are due, each once.
LEMMA BatchOfDue ==
    ASSUME monitors \in [Monitors -> MonitorRow], DueMonitors # {}, NEW batch \in Batches
    PROVE  \E n \in Nat \ {0} :
              /\ batch \in [1 .. n -> DueMonitors]
              /\ \A i, k \in 1 .. n : batch[i] = batch[k] => i = k
<1> DEFINE n == IF Cardinality(DueMonitors) < BatchLimit
                THEN Cardinality(DueMonitors) ELSE BatchLimit
<1>1. IsFiniteSet(DueMonitors)
  <2>1. DueMonitors \in SUBSET Monitors
    BY DEF DueMonitors
  <2>2. QED
    BY <2>1, MonitorAssumption, FS_Subset
<1>2. Cardinality(DueMonitors) \in Nat \ {0}
  BY <1>1, FS_CardinalityType, FS_EmptySet
<1>3. n \in Nat \ {0}
  BY <1>2, MonitorAssumption
<1>4. batch \in [1 .. n -> DueMonitors] /\ \A i, k \in 1 .. n : batch[i] = batch[k] => i = k
  BY DEF Batches
<1> HIDE DEF n
<1>5. QED
  BY <1>3, <1>4

\* What claim puts on file for a batch of n monitors.
Opened(ds, batch) == ds \o [i \in DOMAIN batch |-> NewDispatch(batch[i])]

\* The dispatches of a batch come behind those that are there.
LEMMA OpenedGrows ==
    ASSUME NEW ds \in Seq(Dispatch), NEW n \in Nat, NEW batch \in [1 .. n -> Monitors]
    PROVE  /\ Opened(ds, batch) \in Seq(Dispatch) /\ Len(Opened(ds, batch)) = Len(ds) + n
           /\ Grows(ds, Opened(ds, batch))
           /\ \A i \in DOMAIN ds : Opened(ds, batch)[i] = ds[i]
           /\ \A k \in 1 .. n : /\ Len(ds) + k \in DOMAIN Opened(ds, batch)
                                /\ Opened(ds, batch)[Len(ds) + k] = NewDispatch(batch[k])
           /\ \A i \in DOMAIN Opened(ds, batch) :
                 i \in DOMAIN ds \/ \E k \in 1 .. n : i = Len(ds) + k
<1> DEFINE more == [i \in 1 .. n |-> NewDispatch(batch[i])]
           new == Opened(ds, batch)
<1>1. \A m \in Monitors : NewDispatch(m) \in Dispatch
  BY DEF NewDispatch, Dispatch
<1>2. more \in Seq(Dispatch) /\ Len(more) = n /\ \A k \in 1 .. n : more[k] = NewDispatch(batch[k])
  BY <1>1
<1>3. new = ds \o more
  BY DEF Opened
<1> HIDE DEF more, new
<1>4. /\ new \in Seq(Dispatch) /\ Len(new) = Len(ds) + n
      /\ \A i \in 1 .. Len(ds) : new[i] = ds[i]
      /\ \A k \in 1 .. n : new[Len(ds) + k] = more[k]
  <2>1. /\ new \in Seq(Dispatch) /\ Len(new) = Len(ds) + n /\ Len(ds) \in Nat
        /\ \A i \in 1 .. Len(new) :
              new[i] = IF i <= Len(ds) THEN ds[i] ELSE more[i - Len(ds)]
    BY <1>2, <1>3, ConcatProperties
  <2>2. ASSUME NEW k \in 1 .. n
        PROVE  new[Len(ds) + k] = more[k]
    <3>1. Len(ds) + k \in 1 .. Len(new) /\ ~(Len(ds) + k <= Len(ds)) /\ (Len(ds) + k) - Len(ds) = k
      BY <2>1
    <3>2. QED
      BY <2>1, <3>1
  <2>3. QED
    BY <2>1, <2>2
<1>5. Len(ds) \in Nat /\ DOMAIN ds = 1 .. Len(ds) /\ DOMAIN new = 1 .. Len(new)
  BY <1>4
<1>6. Grows(ds, new)
  BY <1>4, <1>5 DEF Grows
<1>7. \A k \in 1 .. n : Len(ds) + k \in DOMAIN new
  BY <1>4, <1>5
<1>8. ASSUME NEW i \in DOMAIN new, i \notin DOMAIN ds
      PROVE  \E k \in 1 .. n : i = Len(ds) + k
  <2>1. i - Len(ds) \in 1 .. n /\ i = Len(ds) + (i - Len(ds))
    BY <1>4, <1>5, <1>8
  <2>2. QED
    BY <2>1
<1>9. QED
  BY <1>2, <1>4, <1>5, <1>6, <1>7, <1>8 DEF new

\* claim uses up the occasion of each monitor in its batch, and only one for each.
LEMMA ClaimSpends ==
    ASSUME NEW ds \in Seq(Dispatch), NEW n \in Nat, NEW batch \in [1 .. n -> Monitors],
           \A i, k \in 1 .. n : batch[i] = batch[k] => i = k, NEW m \in Monitors
    PROVE  /\ \A k \in 1 .. n : batch[k] = m =>
                 Cardinality(Used(Opened(ds, batch), m)) <= Cardinality(Used(ds, m)) + 1
           /\ (\A k \in 1 .. n : batch[k] # m) => Used(Opened(ds, batch), m) = Used(ds, m)
<1> DEFINE new == Opened(ds, batch)
<1>1. /\ new \in Seq(Dispatch) /\ Grows(ds, new)
      /\ \A i \in DOMAIN ds : new[i] = ds[i]
      /\ \A k \in 1 .. n : /\ Len(ds) + k \in DOMAIN new
                           /\ new[Len(ds) + k] = NewDispatch(batch[k])
      /\ \A i \in DOMAIN new : i \in DOMAIN ds \/ \E k \in 1 .. n : i = Len(ds) + k
  <2>1. new \in Seq(Dispatch) /\ Grows(ds, new)
    BY OpenedGrows
  <2>2. \A i \in DOMAIN ds : new[i] = ds[i]
    BY OpenedGrows
  <2>3. \A k \in 1 .. n : /\ Len(ds) + k \in DOMAIN new
                          /\ new[Len(ds) + k] = NewDispatch(batch[k])
    BY OpenedGrows
  <2>4. ASSUME NEW i \in DOMAIN new, i \notin DOMAIN ds
        PROVE  \E k \in 1 .. n : i = Len(ds) + k
    <3>1. Len(new) = Len(ds) + n
      BY OpenedGrows
    <3> HIDE DEF new
    <3>2. DOMAIN new = 1 .. Len(new) /\ DOMAIN ds = 1 .. Len(ds) /\ Len(ds) \in Nat
      BY <2>1
    <3>3. i - Len(ds) \in 1 .. n /\ i = Len(ds) + (i - Len(ds))
      BY <2>4, <3>1, <3>2
    <3>4. QED
      BY <3>3
  <2>5. QED
    BY <2>1, <2>2, <2>3, <2>4
<1> HIDE DEF new
<1>2. \A k \in 1 .. n : NewDispatch(batch[k]).of = batch[k]
  BY DEF NewDispatch
<1>3. Used(ds, m) \subseteq Used(new, m)
  BY <1>1 DEF Used, Grows
<1>4. ASSUME NEW i \in Used(new, m), i \notin Used(ds, m)
      PROVE  \E k \in 1 .. n : i = Len(ds) + k /\ batch[k] = m
  <2>1. i \in DOMAIN new /\ new[i].of = m
    BY DEF Used
  <2>2. i \notin DOMAIN ds
    BY <1>1, <1>4, <2>1 DEF Used
  <2>3. PICK k \in 1 .. n : i = Len(ds) + k
    BY <1>1, <2>1, <2>2
  <2>4. batch[k] = m
    BY <1>1, <1>2, <2>1, <2>3
  <2>5. QED
    BY <2>3, <2>4
<1>5. ASSUME NEW k \in 1 .. n, batch[k] = m
      PROVE  Cardinality(Used(new, m)) <= Cardinality(Used(ds, m)) + 1
  <2>1. Used(new, m) = Used(ds, m) \cup {Len(ds) + k}
    <3>1. Len(ds) + k \in Used(new, m)
      BY <1>1, <1>2, <1>5 DEF Used
    <3>2. QED
      BY <1>3, <1>4, <1>5, <3>1
  <2>2. IsFiniteSet(Used(ds, m)) /\ Cardinality(Used(ds, m)) \in Nat
    BY UsedFinite
  <2>3. \/ Cardinality(Used(ds, m) \cup {Len(ds) + k}) = Cardinality(Used(ds, m))
        \/ Cardinality(Used(ds, m) \cup {Len(ds) + k}) = Cardinality(Used(ds, m)) + 1
    BY <2>2, FS_AddElement
  <2>4. QED
    BY <2>1, <2>2, <2>3
<1>6. ASSUME \A k \in 1 .. n : batch[k] # m
      PROVE  Used(new, m) = Used(ds, m)
  BY <1>3, <1>4, <1>6
<1>7. QED
  BY <1>5, <1>6 DEF new

\* claim: the batch is in the hands of the worker, and the rows are copied before they move on.
LEMMA ClaimDueKeeps ==
    ASSUME MonitorInv, NEW w \in Watchers, ClaimDue(w)
    PROVE  MonitorInv'
<1> DEFINE x == watchers[w]
           ds == dispatches
<1>1. MonitorsKnown /\ x.pc = "idle" /\ DueMonitors # {} /\ x \in Watcher
      /\ UNCHANGED <<alerts, dataset, occasions, troubles>>
  BY DEF MonitorInv, MonitorsKnown, ClaimDue
<1>2. PICK batch \in Batches :
          /\ Len(dispatches) + Len(batch) <= MaxDispatches
          /\ monitors' = [m \in Monitors |->
                IF \E i \in DOMAIN batch : batch[i] = m
                THEN Advanced(monitors[m]) ELSE monitors[m]]
          /\ dispatches' = Opened(dispatches, batch)
          /\ watchers' = [watchers EXCEPT ![w].pc = "claimed",
                ![w].todo = [i \in DOMAIN batch |->
                    [id |-> Len(dispatches) + i, of |-> batch[i],
                     force |-> monitors[batch[i]].force,
                     last |-> monitors[batch[i]].last]]]
  BY DEF ClaimDue, Opened
<1>3. monitors \in [Monitors -> MonitorRow]
  BY <1>1 DEF MonitorsKnown
<1>4. PICK n \in Nat \ {0} :
          /\ batch \in [1 .. n -> DueMonitors]
          /\ \A i, k \in 1 .. n : batch[i] = batch[k] => i = k
  BY <1>1, <1>3, BatchOfDue
<1>5. /\ batch \in [1 .. n -> Monitors] /\ DOMAIN batch = 1 .. n
      /\ \A i \in 1 .. n : batch[i] \in Monitors /\ monitors[batch[i]].due
  BY <1>4 DEF DueMonitors
<1>6. ds \in Seq(Dispatch) /\ Len(ds) \in Nat /\ DOMAIN ds = 1 .. Len(ds)
  BY <1>1 DEF MonitorsKnown
<1>7. /\ dispatches' \in Seq(Dispatch) /\ Len(dispatches') = Len(ds) + n
      /\ Grows(ds, dispatches')
      /\ \A i \in DOMAIN ds : dispatches'[i] = ds[i]
      /\ \A k \in 1 .. n : /\ Len(ds) + k \in DOMAIN dispatches'
                           /\ dispatches'[Len(ds) + k] = NewDispatch(batch[k])
  <2>1. ds \in Seq(Dispatch) /\ n \in Nat
    BY <1>6
  <2>2. /\ Opened(ds, batch) \in Seq(Dispatch) /\ Len(Opened(ds, batch)) = Len(ds) + n
        /\ Grows(ds, Opened(ds, batch))
    BY <1>5, <2>1, OpenedGrows
  <2>3. \A i \in DOMAIN ds : Opened(ds, batch)[i] = ds[i]
    BY <1>5, <2>1, OpenedGrows
  <2>4. \A k \in 1 .. n : /\ Len(ds) + k \in DOMAIN Opened(ds, batch)
                          /\ Opened(ds, batch)[Len(ds) + k] = NewDispatch(batch[k])
    BY <1>5, <2>1, OpenedGrows
  <2>5. QED
    BY <1>2, <2>2, <2>3, <2>4
<1> DEFINE copies == [i \in 1 .. n |->
                         [id |-> Len(ds) + i, of |-> batch[i],
                          force |-> monitors[batch[i]].force,
                          last |-> monitors[batch[i]].last]]
           y == [pc |-> "claimed", todo |-> copies, seen |-> x.seen, read |-> x.read,
                 base |-> x.base, found |-> x.found]
<1>8. /\ copies \in Seq(ClaimedRow) /\ Len(copies) = n
      /\ \A i \in 1 .. n : /\ copies[i].id = Len(ds) + i /\ copies[i].of = batch[i]
                           /\ copies[i].last = monitors[batch[i]].last
  <2>1. ASSUME NEW i \in 1 .. n
        PROVE  [id |-> Len(ds) + i, of |-> batch[i], force |-> monitors[batch[i]].force,
                last |-> monitors[batch[i]].last] \in ClaimedRow
    <3>1. Len(ds) + i \in Nat \ {0}
      BY <1>6
    <3>2. monitors[batch[i]] \in MonitorRow /\ batch[i] \in Monitors
      BY <1>3, <1>5
    <3>3. QED
      BY <3>1, <3>2 DEF ClaimedRow, MonitorRow, Versions
  <2>2. QED
    BY <2>1
<1>9. watchers' = [watchers EXCEPT ![w] = y]
  <2> HIDE DEF copies
  <2> DEFINE r == [x EXCEPT !.pc = "claimed"]
  <2>1. watchers' = [watchers EXCEPT ![w] = [r EXCEPT !.todo = copies]]
    BY <1>2, <1>5 DEF copies
  <2>2. r = [pc |-> "claimed", todo |-> x.todo, seen |-> x.seen, read |-> x.read,
             base |-> x.base, found |-> x.found]
    BY <1>1, WatcherWith
  <2> HIDE DEF r
  <2>3. [r EXCEPT !.todo = copies] = y
    BY <2>2
  <2>4. QED
    BY <2>1, <2>3
<1> HIDE DEF copies
<1>10. y.pc = "claimed" /\ y.todo = copies /\ y \in Watcher
  <2>1. "claimed" \in WatcherStates
    BY DEF WatcherStates
  <2>2. QED
    BY <1>1, <1>8, <2>1, WatcherRecord DEF Watcher
<1> HIDE DEF y
<1>11. /\ watchers' \in [Watchers -> Watcher] /\ watchers'[w] = y
       /\ \A v \in Watchers \ {w} : watchers'[v] = watchers[v]
  BY <1>1, <1>9, <1>10 DEF MonitorsKnown
<1>12. ASSUME NEW m \in Monitors
       PROVE  /\ monitors'[m] \in MonitorRow /\ monitors'[m].last = monitors[m].last
              /\ (\E i \in 1 .. n : batch[i] = m) => monitors[m].due /\ ~monitors'[m].due
              /\ ~(\E i \in 1 .. n : batch[i] = m) => monitors'[m] = monitors[m]
  <2>1. monitors[m] \in MonitorRow
    BY <1>3
  <2>2. CASE \E i \in 1 .. n : batch[i] = m
    <3>1. monitors'[m] = [monitors[m] EXCEPT !.due = FALSE, !.force = FALSE]
      BY <1>2, <1>5, <2>2 DEF Advanced
    <3>2. /\ monitors'[m] \in MonitorRow /\ monitors'[m].last = monitors[m].last
          /\ monitors'[m].due = FALSE
      BY <2>1, <3>1 DEF MonitorRow
    <3>3. monitors[m].due
      BY <1>5, <2>2
    <3>4. QED
      BY <2>2, <3>2, <3>3
  <2>3. CASE ~(\E i \in 1 .. n : batch[i] = m)
    BY <1>2, <1>5, <2>1, <2>3
  <2>4. QED
    BY <2>2, <2>3
<1>13. MonitorsKnown'
  <2>1. Len(batch) = n
    BY <1>4
  <2>2. Len(dispatches') <= MaxDispatches
    BY <1>2, <1>7, <2>1
  <2>3. monitors' \in [Monitors -> MonitorRow]
    BY <1>2, <1>12
  <2>4. \A v \in Watchers : watchers'[v].pc = "idle" <=> watchers'[v].todo = <<>>
    <3>1. y.pc # "idle" /\ y.todo # <<>>
      <4>1. Len(copies) # 0
        BY <1>8
      <4>2. QED
        BY <1>10, <4>1, EmptySeq
    <3>2. QED
      BY <1>1, <1>11, <3>1 DEF MonitorsKnown
  <2>5. DOMAIN dispatches \subseteq DOMAIN dispatches'
    BY <1>7 DEF Grows
  <2>6. QED
    BY <1>1, <1>7, <1>11, <2>2, <2>3, <2>4, <2>5 DEF MonitorsKnown
<1>14. ASSUME NEW m \in Monitors
       PROVE  Spent(dispatches', monitors'[m], m) <= occasions'[m]
  <2>1. Spent(ds, monitors[m], m) <= occasions[m] /\ occasions'[m] = occasions[m]
        /\ occasions[m] \in Nat
    BY <1>1 DEF MonitorInv, MonitorsKnown
  <2>2. Cardinality(Used(ds, m)) \in Nat /\ Cardinality(Used(dispatches', m)) \in Nat
    BY <1>6, <1>7, UsedFinite
  <2>3. dispatches' = Opened(ds, batch) /\ n \in Nat
    BY <1>2
  <2>4. CASE \E i \in 1 .. n : batch[i] = m
    <3>1. Cardinality(Used(dispatches', m)) <= Cardinality(Used(ds, m)) + 1
      BY <1>4, <1>5, <1>6, <2>3, <2>4, ClaimSpends
    <3>2. Spent(ds, monitors[m], m) = Cardinality(Used(ds, m)) + 1
      BY <1>12, <2>4 DEF Spent
    <3>3. Spent(dispatches', monitors'[m], m) = Cardinality(Used(dispatches', m)) + 0
      BY <1>12, <2>4 DEF Spent
    <3>4. QED
      BY <2>1, <2>2, <3>1, <3>2, <3>3
  <2>5. CASE ~(\E i \in 1 .. n : batch[i] = m)
    <3>1. Used(dispatches', m) = Used(ds, m)
      BY <1>4, <1>5, <1>6, <2>3, <2>5, ClaimSpends
    <3>2. monitors'[m] = monitors[m]
      BY <1>12, <2>5
    <3>3. QED
      BY <2>1, <3>1, <3>2 DEF Spent
  <2>6. QED
    BY <2>4, <2>5
<1>15. ASSUME NEW m \in Monitors, monitors'[m].last # Unset
       PROVE  Known(dispatches', m, monitors'[m].last)
  BY <1>7, <1>12, <1>15, KnownStays DEF MonitorInv
<1>16. InHand(dispatches', alerts', y)
  <2>1. ASSUME NEW k \in 1 .. n
        PROVE  /\ Claimed(dispatches', copies[k])
               /\ dispatches'[copies[k].id].status = "running"
    <3>1. /\ copies[k].id = Len(ds) + k /\ copies[k].of = batch[k]
          /\ copies[k].last = monitors[batch[k]].last
          /\ copies[k].id \in DOMAIN dispatches'
          /\ dispatches'[copies[k].id] = NewDispatch(batch[k])
      BY <1>7, <1>8
    <3>2. NewDispatch(batch[k]).of = batch[k] /\ NewDispatch(batch[k]).status = "running"
      BY DEF NewDispatch
    <3>3. copies[k].last # Unset => Known(dispatches', batch[k], copies[k].last)
      BY <1>5, <1>7, <3>1, KnownStays DEF MonitorInv
    <3>4. QED
      BY <3>1, <3>2, <3>3 DEF Claimed
  <2>2. 1 \in 1 .. n /\ \A k \in 2 .. n : k \in 1 .. n
    BY <1>4
  <2>3. QED
    BY <1>8, <1>10, <2>1, <2>2 DEF InHand
<1>17. ASSUME NEW v \in Watchers, watchers'[v].pc # "idle"
       PROVE  InHand(dispatches', alerts', watchers'[v])
  <2>1. CASE v = w
    BY <1>11, <1>16, <2>1
  <2>2. CASE v # w
    <3>1. /\ watchers'[v] = watchers[v] /\ watchers[v] \in Watcher /\ watchers[v].todo # <<>>
          /\ InHand(ds, alerts, watchers[v])
      BY <1>1, <1>11, <1>17, <2>2 DEF MonitorInv, MonitorsKnown
    <3>2. Undisturbed(ds, dispatches', watchers[v])
      BY <1>7, <3>1 DEF Undisturbed, InHand, Claimed
    <3>3. alerts \subseteq alerts' /\ Grows(ds, dispatches')
      BY <1>1, <1>7
    <3>4. InHand(dispatches', alerts', watchers[v])
      BY <3>1, <3>2, <3>3, InHandStays
    <3>5. QED
      BY <3>1, <3>4
  <2>3. QED
    BY <2>1, <2>2
<1>18. Apart(watchers')
  <2>1. ASSUME NEW v \in Watchers \ {w}, NEW k \in 1 .. Len(watchers[v].todo)
        PROVE  watchers[v].todo[k].id \in 1 .. Len(ds)
    <3>1. watchers[v].todo # <<>>
      <4>1. Len(watchers[v].todo) # 0
        BY <2>1, <1>1 DEF MonitorsKnown, Watcher
      <4>2. QED
        BY <4>1
    <3>2. InHand(ds, alerts, watchers[v])
      BY <1>1, <3>1 DEF MonitorInv, MonitorsKnown
    <3>3. QED
      BY <1>6, <3>2 DEF InHand, Claimed
  <2>2. ASSUME NEW i \in 1 .. n
        PROVE  copies[i].id \notin 1 .. Len(ds) /\ \A k \in 1 .. n : copies[i].id = copies[k].id => i = k
    BY <1>6, <1>8
  <2>3. ASSUME NEW u \in Watchers, NEW v \in Watchers,
               NEW i \in 1 .. Len(watchers'[u].todo), NEW k \in 1 .. Len(watchers'[v].todo),
               watchers'[u].todo[i].id = watchers'[v].todo[k].id
        PROVE  u = v /\ i = k
    <3>1. watchers'[w].todo = copies /\ Len(watchers'[w].todo) = n
      BY <1>8, <1>10, <1>11
    <3>2. CASE u = w /\ v = w
      BY <2>2, <2>3, <3>1, <3>2
    <3>3. CASE u = w /\ v # w
      <4>1. watchers'[v] = watchers[v] /\ i \in 1 .. n
        BY <1>11, <3>1, <3>3
      <4>2. watchers[v].todo[k].id \in 1 .. Len(ds)
        BY <2>1, <3>3, <4>1
      <4>3. copies[i].id \notin 1 .. Len(ds)
        BY <2>2, <4>1
      <4>4. QED
        BY <2>3, <3>1, <3>3, <4>1, <4>2, <4>3
    <3>4. CASE u # w /\ v = w
      <4>1. watchers'[u] = watchers[u] /\ k \in 1 .. n
        BY <1>11, <3>1, <3>4
      <4>2. watchers[u].todo[i].id \in 1 .. Len(ds)
        BY <2>1, <3>4, <4>1
      <4>3. copies[k].id \notin 1 .. Len(ds)
        BY <2>2, <4>1
      <4>4. QED
        BY <2>3, <3>1, <3>4, <4>1, <4>2, <4>3
    <3>5. CASE u # w /\ v # w
      BY <1>11, <2>3, <3>5 DEF MonitorInv, Apart
    <3>6. QED
      BY <3>2, <3>3, <3>4, <3>5
  <2>4. QED
    BY <2>3 DEF Apart
<1>19. ASSUME NEW i \in DOMAIN dispatches'
       PROVE  Reliable(dispatches', alerts', i)
  <2>1. CASE i \in DOMAIN ds
    <3>1. dispatches'[i] = ds[i] /\ Reliable(ds, alerts, i)
      BY <1>7, <2>1 DEF MonitorInv
    <3>2. QED
      BY <1>1, <1>7, <3>1, KnownStays DEF Reliable
  <2>2. CASE i \notin DOMAIN ds
    <3>1. i - Len(ds) \in 1 .. n /\ Len(ds) + (i - Len(ds)) = i
      BY <1>6, <1>7, <1>19, <2>2
    <3>2. dispatches'[i] = NewDispatch(batch[i - Len(ds)])
      BY <1>7, <3>1
    <3>3. dispatches'[i].status = "running"
      BY <3>2 DEF NewDispatch
    <3>4. QED
      BY <3>3 DEF Reliable
  <2>3. QED
    BY <2>1, <2>2
<1>20. QED
  BY <1>13, <1>14, <1>15, <1>17, <1>18, <1>19 DEF MonitorInv

\* The API and the clock touch rows, occasions and files, and no dispatch.
LEMMA OutsideKeeps ==
    ASSUME MonitorInv, NEW m \in Monitors, NEW row \in MonitorRow,
           monitors' = [monitors EXCEPT ![m] = row], row.last = monitors[m].last,
           occasions' \in [Monitors -> Nat],
           \A k \in Monitors \ {m} : occasions'[k] = occasions[k],
           Spent(dispatches, row, m) <= occasions'[m],
           dataset' \in [Monitors -> Datasets],
           UNCHANGED <<dispatches, alerts, watchers, troubles>>
    PROVE  MonitorInv'
<1>1. MonitorsKnown
  BY DEF MonitorInv
<1>2. /\ monitors' \in [Monitors -> MonitorRow] /\ monitors'[m] = row
      /\ \A k \in Monitors \ {m} : monitors'[k] = monitors[k]
  BY <1>1 DEF MonitorsKnown
<1>3. MonitorsKnown'
  BY <1>1, <1>2 DEF MonitorsKnown
<1>4. \A k \in Monitors : Spent(dispatches, monitors'[k], k) <= occasions'[k]
  BY <1>2 DEF MonitorInv
<1>5. \A k \in Monitors : monitors'[k].last = monitors[k].last
  BY <1>2
<1>6. \A k \in Monitors : monitors'[k].last # Unset => Known(dispatches, k, monitors'[k].last)
  BY <1>5 DEF MonitorInv
<1>7. QED
  BY <1>3, <1>4, <1>6 DEF MonitorInv

\* What a monitor has used up with and without an occasion that waits.
LEMMA SpentIs ==
    ASSUME MonitorInv, NEW m \in Monitors, NEW row
    PROVE  /\ monitors[m] \in MonitorRow /\ occasions[m] \in Nat
           /\ Cardinality(Used(dispatches, m)) \in Nat
           /\ row.due => Spent(dispatches, row, m) = Cardinality(Used(dispatches, m)) + 1
           /\ ~row.due => Spent(dispatches, row, m) = Cardinality(Used(dispatches, m))
           /\ Cardinality(Used(dispatches, m)) <= occasions[m]
           /\ monitors[m].due => Cardinality(Used(dispatches, m)) + 1 <= occasions[m]
<1>1. monitors[m] \in MonitorRow /\ occasions[m] \in Nat /\ dispatches \in Seq(Dispatch)
  BY DEF MonitorInv, MonitorsKnown
<1>2. Cardinality(Used(dispatches, m)) \in Nat
  BY <1>1, UsedFinite
<1>3. /\ row.due => Spent(dispatches, row, m) = Cardinality(Used(dispatches, m)) + 1
      /\ ~row.due => Spent(dispatches, row, m) = Cardinality(Used(dispatches, m))
  BY <1>2 DEF Spent
<1>4. Spent(dispatches, monitors[m], m) <= occasions[m]
  BY DEF MonitorInv
<1>5. /\ monitors[m].due => Spent(dispatches, monitors[m], m)
                            = Cardinality(Used(dispatches, m)) + 1
      /\ ~monitors[m].due => Spent(dispatches, monitors[m], m)
                             = Cardinality(Used(dispatches, m))
  BY <1>2 DEF Spent
<1>6. /\ Cardinality(Used(dispatches, m)) <= occasions[m]
      /\ monitors[m].due => Cardinality(Used(dispatches, m)) + 1 <= occasions[m]
  BY <1>1, <1>2, <1>4, <1>5
<1>7. QED
  BY <1>1, <1>2, <1>3, <1>6

\* Whether an occasion is counted with a row that becomes due is up to whether it was due.
LEMMA BecomesDue ==
    ASSUME MonitorInv, NEW m \in Monitors, NEW row \in MonitorRow, row.due,
           IF monitors[m].due THEN UNCHANGED occasions
           ELSE occasions' = [occasions EXCEPT ![m] = @ + 1]
    PROVE  /\ occasions' \in [Monitors -> Nat]
           /\ \A k \in Monitors \ {m} : occasions'[k] = occasions[k]
           /\ Spent(dispatches, row, m) <= occasions'[m]
<1>1. occasions \in [Monitors -> Nat]
  BY DEF MonitorInv, MonitorsKnown
<1>2. /\ occasions' \in [Monitors -> Nat]
      /\ \A k \in Monitors \ {m} : occasions'[k] = occasions[k]
      /\ ~monitors[m].due => occasions'[m] = occasions[m] + 1
      /\ monitors[m].due => occasions'[m] = occasions[m]
  BY <1>1
<1>3. Cardinality(Used(dispatches, m)) + 1 <= occasions'[m]
  BY <1>2, SpentIs
<1>4. Spent(dispatches, row, m) = Cardinality(Used(dispatches, m)) + 1
  BY SpentIs
<1>5. QED
  BY <1>2, <1>3, <1>4

\* Every step of a worker keeps the invariant.
LEMMA WatcherStepKeeps ==
    ASSUME MonitorInv, NEW w \in Watchers, WatcherStep(w) \/ Raise(w) \/ StopWatching(w)
    PROVE  MonitorInv'
<1>1. ClaimDue(w) => MonitorInv'
  BY ClaimDueKeeps
<1>2. Fingerprint(w) => MonitorInv'
  BY FingerprintKeeps
<1>3. Skip(w) => MonitorInv'
  BY SkipKeeps
<1>4. Compare(w) => MonitorInv'
  BY CompareKeeps
<1>5. Execute(w) => MonitorInv'
  BY ExecuteKeeps
<1>6. RaiseAlert(w) => MonitorInv'
  BY RaiseAlertKeeps
<1>7. FinishRow(w) => MonitorInv'
  BY FinishRowKeeps
<1>8. Record(w) => MonitorInv'
  BY RecordKeeps
<1>9. FailRow(w) => MonitorInv'
  BY FailRowKeeps
<1>10. ReportFailure(w) => MonitorInv'
  BY ReportFailureKeeps
<1>11. Raise(w) => MonitorInv'
  BY RaiseKeeps
<1>12. StopWatching(w) => MonitorInv'
  BY StopWatchingKeeps
<1>13. QED
  BY <1>1, <1>2, <1>3, <1>4, <1>5, <1>6, <1>7, <1>8, <1>9, <1>10, <1>11, <1>12 DEF WatcherStep

\* Every step of monitoring keeps the invariant.
LEMMA MonitorStep == MonitorInv /\ [MonitorNext]_monitorVars => MonitorInv'
<1>1. MonitorInv /\ UNCHANGED monitorVars => MonitorInv'
  <2>1. SUFFICES ASSUME MonitorInv, UNCHANGED monitorVars
                 PROVE  MonitorInv'
    OBVIOUS
  <2>2. UNCHANGED <<monitors, dispatches, alerts, watchers, dataset, occasions, troubles>>
    BY <2>1 DEF monitorVars
  <2>3. MonitorsKnown'
    BY <2>1, <2>2 DEF MonitorInv, MonitorsKnown
  <2>4. QED
    BY <2>1, <2>2, <2>3 DEF MonitorInv
<1>2. ASSUME MonitorInv, NEW m \in Monitors, SetEnabled(m)
      PROVE  MonitorInv'
  <2> DEFINE row == [monitors[m] EXCEPT !.enabled = ~@]
  <2>1. monitors[m] \in MonitorRow /\ occasions \in [Monitors -> Nat]
        /\ dataset \in [Monitors -> Datasets]
    BY <1>2 DEF MonitorInv, MonitorsKnown
  <2>2. row \in MonitorRow /\ row.last = monitors[m].last /\ row.due = monitors[m].due
    BY <2>1 DEF MonitorRow
  <2>3. monitors' = [monitors EXCEPT ![m] = row]
        /\ UNCHANGED <<dispatches, alerts, watchers, dataset, occasions, troubles>>
    BY <1>2 DEF SetEnabled
  <2> HIDE DEF row
  <2>4. Spent(dispatches, row, m) = Spent(dispatches, monitors[m], m)
    BY <2>2 DEF Spent
  <2>5. Spent(dispatches, row, m) <= occasions'[m]
    BY <1>2, <2>3, <2>4 DEF MonitorInv
  <2>6. QED
    BY <1>2, <2>1, <2>2, <2>3, <2>5, OutsideKeeps
<1>3. ASSUME MonitorInv, NEW m \in Monitors, Trigger(m)
      PROVE  MonitorInv'
  <2> DEFINE row == [monitors[m] EXCEPT !.due = TRUE, !.force = TRUE]
  <2>1. monitors[m] \in MonitorRow /\ dataset \in [Monitors -> Datasets]
    BY <1>3 DEF MonitorInv, MonitorsKnown
  <2>2. row \in MonitorRow /\ row.last = monitors[m].last /\ row.due
    BY <2>1 DEF MonitorRow
  <2>3. /\ monitors' = [monitors EXCEPT ![m] = row]
        /\ UNCHANGED <<dispatches, alerts, watchers, dataset, troubles>>
        /\ IF monitors[m].due THEN UNCHANGED occasions
           ELSE occasions' = [occasions EXCEPT ![m] = @ + 1]
    BY <1>3 DEF Trigger, Due
  <2> HIDE DEF row
  <2>4. /\ occasions' \in [Monitors -> Nat]
        /\ \A k \in Monitors \ {m} : occasions'[k] = occasions[k]
        /\ Spent(dispatches, row, m) <= occasions'[m]
    BY <1>3, <2>2, <2>3, BecomesDue
  <2>5. QED
    BY <1>3, <2>1, <2>2, <2>3, <2>4, OutsideKeeps
<1>4. ASSUME MonitorInv, NEW m \in Monitors, Elapse(m)
      PROVE  MonitorInv'
  <2> DEFINE row == [monitors[m] EXCEPT !.due = TRUE]
  <2>1. monitors[m] \in MonitorRow /\ dataset \in [Monitors -> Datasets]
    BY <1>4 DEF MonitorInv, MonitorsKnown
  <2>2. row \in MonitorRow /\ row.last = monitors[m].last /\ row.due
    BY <2>1 DEF MonitorRow
  <2>3. /\ monitors' = [monitors EXCEPT ![m] = row]
        /\ UNCHANGED <<dispatches, alerts, watchers, dataset, troubles>>
        /\ IF monitors[m].due THEN UNCHANGED occasions
           ELSE occasions' = [occasions EXCEPT ![m] = @ + 1]
    BY <1>4 DEF Elapse, Due
  <2> HIDE DEF row
  <2>4. /\ occasions' \in [Monitors -> Nat]
        /\ \A k \in Monitors \ {m} : occasions'[k] = occasions[k]
        /\ Spent(dispatches, row, m) <= occasions'[m]
    BY <1>4, <2>2, <2>3, BecomesDue
  <2>5. QED
    BY <1>4, <2>1, <2>2, <2>3, <2>4, OutsideKeeps
<1>5. ASSUME MonitorInv, NEW m \in Monitors, EditDataset(m)
      PROVE  MonitorInv'
  <2>1. MonitorsKnown
    BY <1>5 DEF MonitorInv
  <2>2. UNCHANGED <<monitors, dispatches, alerts, watchers, occasions, troubles>>
    BY <1>5 DEF EditDataset
  <2>3. dataset' \in [Monitors -> Datasets]
    BY <1>5, <2>1 DEF EditDataset, MonitorsKnown
  <2>4. MonitorsKnown'
    BY <2>1, <2>2, <2>3 DEF MonitorsKnown
  <2>5. QED
    BY <1>5, <2>2, <2>4 DEF MonitorInv
<1>6. QED
  BY <1>1, <1>2, <1>3, <1>4, <1>5, WatcherStepKeeps DEF MonitorNext

\* Nothing has been dispatched yet, and every monitor is due for the first time.
LEMMA MonitorBegins == MonitorInit => MonitorInv
<1>1. SUFFICES ASSUME MonitorInit
               PROVE  MonitorInv
  OBVIOUS
<1>2. /\ monitors = [m \in Monitors |->
             [enabled |-> FALSE, due |-> TRUE, force |-> FALSE, last |-> Unset]]
      /\ dispatches = <<>> /\ alerts = {} /\ watchers = [w \in Watchers |-> Resting]
      /\ dataset \in [Monitors -> Datasets] /\ occasions = [m \in Monitors |-> 1]
      /\ troubles = 0
  BY <1>1 DEF MonitorInit
<1>3. Resting \in Watcher /\ Resting.pc = "idle" /\ Resting.todo = <<>>
  <2>1. <<>> \in Seq(ClaimedRow) /\ Unset \in Versions /\ "idle" \in WatcherStates
    BY EmptySeq DEF Versions, WatcherStates
  <2>2. QED
    BY <2>1 DEF Resting, Watcher
<1>4. dispatches \in Seq(Dispatch) /\ Len(dispatches) = 0 /\ DOMAIN dispatches = {}
  BY <1>2, EmptySeq
<1>5. monitors \in [Monitors -> MonitorRow] /\ \A m \in Monitors : monitors[m].last = Unset
  BY <1>2 DEF MonitorRow, Versions
<1>6. MonitorsKnown
  <2>1. Len(dispatches) <= MaxDispatches /\ troubles \in 0 .. MaxTroubles
    BY <1>2, <1>4, MonitorAssumption
  <2>2. /\ occasions \in [Monitors -> Nat] /\ watchers \in [Watchers -> Watcher]
        /\ \A w \in Watchers : watchers[w].pc = "idle" <=> watchers[w].todo = <<>>
    BY <1>2, <1>3
  <2>3. alerts \subseteq (DOMAIN dispatches) \X (Rules \cup {"execution_failure"})
    BY <1>2
  <2>4. QED
    BY <1>2, <1>4, <1>5, <2>1, <2>2, <2>3 DEF MonitorsKnown
<1>7. ASSUME NEW m \in Monitors
      PROVE  Spent(dispatches, monitors[m], m) <= occasions[m]
  <2>1. Used(dispatches, m) = {}
    BY <1>4 DEF Used
  <2>2. Cardinality(Used(dispatches, m)) = 0
    BY <2>1, FS_EmptySet
  <2>3. QED
    BY <1>2, <2>2 DEF Spent
<1>8. Apart(watchers)
  BY <1>2, <1>3 DEF Apart
<1>9. QED
  BY <1>2, <1>3, <1>4, <1>5, <1>6, <1>7, <1>8 DEF MonitorInv

\* The tables, the claimed records and the findings of workers stay what they are taken for.
THEOREM MonitorTypes == MonitorSpec => []MonitorTypeOK
<1>1. MonitorInv => MonitorTypeOK
  BY DEF MonitorInv, MonitorsKnown, MonitorTypeOK, MonitorRow, Versions, Watcher
<1>2. QED
  BY <1>1, MonitorBegins, MonitorStep, PTL DEF MonitorSpec

\* However many workers poll, and whatever is forced, disabled or dies meanwhile, a monitor is
\* dispatched no more often than it became due (store.py:198).
THEOREM DispatchedAtMostOnce == MonitorSpec => []AtMostOnce
<1>1. MonitorInv => AtMostOnce
  <2>1. SUFFICES ASSUME MonitorInv, NEW m \in Monitors
                 PROVE  Cardinality(DispatchesOf(m)) <= occasions[m]
    BY DEF AtMostOnce
  <2>2. DispatchesOf(m) = Used(dispatches, m)
    BY DEF DispatchesOf, Used
  <2>3. QED
    BY <2>1, <2>2, SpentIs
<1>2. QED
  BY <1>1, MonitorBegins, MonitorStep, PTL DEF MonitorSpec

\* A check is skipped only for a completed check of the same data, and a completed check has
\* all its alerts on file, whatever raised or died between their statements.
THEOREM OutcomesAreReliable == MonitorSpec => []OutcomesReliable
<1>1. MonitorInv => OutcomesReliable
  <2>1. SUFFICES ASSUME MonitorInv, NEW i \in DOMAIN dispatches
                 PROVE  /\ dispatches[i].status = "skipped" =>
                              \E k \in DispatchesOf(dispatches[i].of) :
                                  /\ dispatches[k].status = "completed"
                                  /\ dispatches[k].seen = dispatches[i].seen
                        /\ dispatches[i].status = "completed" =>
                              \A rule \in Found(dispatches[i].read, dispatches[i].base) :
                                  <<i, rule>> \in alerts
    BY DEF OutcomesReliable, SkippedIsKnown, CompletedIsReported
  <2>2. Reliable(dispatches, alerts, i)
    BY <2>1 DEF MonitorInv
  <2>3. QED
    BY <2>2 DEF Reliable, Known, DispatchesOf
<1>2. QED
  BY <1>1, MonitorBegins, MonitorStep, PTL DEF MonitorSpec
=============================================================================
