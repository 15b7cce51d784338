------------------------------ MODULE CdcStream ------------------------------
(***************************************************************************)
(* The CDC path: T24 commits changes to MSSQL, Debezium publishes them to  *)
(* one Kafka topic per table, and the Spark job jobs/t24_streaming_cdc.py  *)
(* lands them in the bronze Iceberg tables in micro-batches and records    *)
(* its progress in etl_stream_progress.                                    *)
(*                                                                         *)
(* An event is named by its position in log, the order in which T24's      *)
(* transactions commit.  Everything downstream carries positions: a topic  *)
(* is a sequence of positions, a bronze row is the position of the event   *)
(* it was last written by (0: the row of the Day-1 load, or no row yet).   *)
(* An event's lsn is what the job orders by: __lsn, the LSN of the change  *)
(* itself (source.change_lsn), not of its commit.                          *)
(***************************************************************************)
EXTENDS Naturals, Sequences, FiniteSets

CONSTANTS
  Tables,     \* the CDC tables the COB gate waits for
  BATCH,      \* F_BATCH, the table that holds the COB marker
  Recs,       \* record ids (each table has its own)
  CobRecid,   \* BNK/COB.INITIALISE, the marker's record id
  Routes,     \* the topics in the order of cdc-tables.yaml
  Overlap,    \* TRUE: transactions overlap, so change LSNs may not follow commit order
  Skewed,     \* TRUE: Spark may read the topics' end offsets at different instants
  MaxDay,     \* bound: business days T24 closes
  MaxLog,     \* bound: events T24 commits
  MaxCrash,   \* bound: crashes of the Spark driver
  MaxRestart  \* bound: restarts of the Debezium connector

Topics == Tables \cup {BATCH}
Days   == 1..MaxDay

ASSUME ConstantsAssumption ==
  /\ BATCH \notin Tables
  /\ CobRecid \in Recs
  /\ Overlap \in BOOLEAN /\ Skewed \in BOOLEAN
  /\ MaxDay \in Nat /\ MaxLog \in Nat /\ MaxCrash \in Nat /\ MaxRestart \in Nat

(* routes is a dict keyed by topic: every topic once, in insertion order.   *)
ASSUME RoutesAssumption ==
  /\ Routes \in Seq(Topics)
  /\ \A t \in Topics : \E k \in 1..Len(Routes) : Routes[k] = t
  /\ \A j, k \in 1..Len(Routes) : Routes[j] = Routes[k] => j = k

VARIABLES
  log,       \* the changes T24 committed, in commit order
  day,       \* the business day T24 is in
  cobRunning,\* T24 is running the close of business of that day
  pos,       \* how much of log Debezium has published
  restarts,  \* restarts of the connector so far
  topic,     \* topic[t]: the Kafka topic of table t
  wal,       \* wal[t]: end offset in the latest offsets/<N> file of the checkpoint
  done,      \* done[t]: end offset of the last batch in commits/
  cursor,    \* the foreachBatch in flight: 0 none, k about to sink Routes[k],
             \* then the progress upsert, then the commit
  merged,    \* Routes[cursor] has been merged, its deletes not yet applied
  crashes,   \* crashes of the driver so far
  bronze,    \* bronze[t][r]: the event the row r of bronze table t shows
  maxLsn,    \* etl_stream_progress, the row of each table (0: no row)
  streamLsn  \* etl_stream_progress, the row __global__ (0: no row)

sourceVars == <<log, day, cobRunning>>
kafkaVars  == <<pos, restarts, topic>>
sparkVars  == <<wal, done, cursor, merged, crashes>>
lakeVars   == <<bronze, maxLsn, streamLsn>>
streamVars == <<log, day, cobRunning, pos, restarts, topic, wal, done, cursor,
                merged, crashes, bronze, maxLsn, streamLsn>>

Event == [tab : Topics, rec : Recs, op : {"u", "d"}, lsn : Nat \ {0},
          cob : {"none", "running", "done"}, day : Nat]

UpsertProgressStep == Len(Routes) + 1
CommitStep         == Len(Routes) + 2

StreamTypeOK ==
  /\ log \in Seq(Event)
  /\ day \in Nat /\ cobRunning \in BOOLEAN
  /\ pos \in 0..Len(log) /\ restarts \in Nat
  /\ topic \in [Topics -> Seq(Nat \ {0})]
  /\ wal \in [Topics -> Nat] /\ done \in [Topics -> Nat]
  /\ cursor \in 0..CommitStep /\ merged \in BOOLEAN /\ crashes \in Nat
  /\ bronze \in [Topics -> [Recs -> 0..Len(log)]]
  /\ maxLsn \in [Topics -> Nat] /\ streamLsn \in Nat

StreamInit ==
  /\ log = <<>> /\ day = 1 /\ cobRunning = FALSE
  /\ pos = 0 /\ restarts = 0 /\ topic = [t \in Topics |-> <<>>]
  /\ wal = [t \in Topics |-> 0] /\ done = [t \in Topics |-> 0]
  /\ cursor = 0 /\ merged = FALSE /\ crashes = 0
  /\ bronze = [t \in Topics |-> [r \in Recs |-> 0]]
  /\ maxLsn = [t \in Topics |-> 0] /\ streamLsn = 0

-----------------------------------------------------------------------------
(* T24 and its database.                                                    *)

IsRow(e, t, r) == e.tab = t /\ e.rec = r

(* The LSNs the next change of row (t, r) may carry.  SQL Server numbers a   *)
(* change when it is logged and Debezium publishes it when its transaction   *)
(* commits: two transactions that overlap commit in either order, while the  *)
(* row lock keeps the changes of one row in commit order.                    *)
NextLsns(t, r) ==
  IF Overlap
    THEN {l \in (1..MaxLog) \ {log[i].lsn : i \in DOMAIN log} :
            \A i \in DOMAIN log : IsRow(log[i], t, r) => log[i].lsn < l}
    ELSE {Len(log) + 1}

Logged(t, r, op, cob) ==
  /\ Len(log) < MaxLog
  /\ \E l \in NextLsns(t, r) :
       log' = Append(log, [tab |-> t, rec |-> r, op |-> op, lsn |-> l,
                           cob |-> cob, day |-> day])

Deleted(t, r) ==
  \E i \in DOMAIN log : /\ IsRow(log[i], t, r) /\ log[i].op = "d"
                        /\ \A j \in DOMAIN log : IsRow(log[j], t, r) => j <= i

(* A user, or the COB itself, writes a row or deletes one that is there.     *)
Change(t, r, op) ==
  /\ op = "d" => ~Deleted(t, r)
  /\ Logged(t, r, op, "none")
  /\ UNCHANGED <<day, cobRunning, kafkaVars, sparkVars, lakeVars>>

(* PROCESS.STATUS of the marker leaves 0: the COB of day runs.               *)
StartCob ==
  /\ ~cobRunning /\ day <= MaxDay
  /\ Logged(BATCH, CobRecid, "u", "running")
  /\ cobRunning' = TRUE
  /\ UNCHANGED <<day, kafkaVars, sparkVars, lakeVars>>

(* PROCESS.STATUS returns to 0 with LAST.RUN.DATE = day; online work goes on *)
(* under the next business day.                                              *)
FinishCob ==
  /\ cobRunning
  /\ Logged(BATCH, CobRecid, "u", "done")
  /\ cobRunning' = FALSE
  /\ day' = day + 1
  /\ UNCHANGED <<kafkaVars, sparkVars, lakeVars>>

-----------------------------------------------------------------------------
(* Debezium.                                                                *)

Publish ==
  /\ pos < Len(log)
  /\ pos' = pos + 1
  /\ topic' = [topic EXCEPT ![log[pos'].tab] = Append(@, pos')]
  /\ UNCHANGED <<sourceVars, restarts, sparkVars, lakeVars>>

(* Connect flushes source offsets from time to time: a restarted connector   *)
(* publishes again what it published since the last flush.                   *)
RestartConnector ==
  /\ restarts < MaxRestart
  /\ restarts' = restarts + 1
  /\ pos' \in 0..pos /\ pos' # pos
  /\ UNCHANGED <<sourceVars, topic, sparkVars, lakeVars>>

-----------------------------------------------------------------------------
(* The Spark driver.                                                        *)

(* The events of the micro-batch in flight that belong to table t.           *)
Part(t) == {topic[t][k] : k \in (done[t] + 1)..wal[t]}

(* row_number() OVER (PARTITION BY RECID ORDER BY __lsn DESC) = 1            *)
LatestPerRecid(part) ==
  {i \in part : \A j \in part : log[j].rec = log[i].rec => log[j].lsn <= log[i].lsn}

(* Mutant: the deletes are split off before the batch is reduced to the last  *)
(* event of each recid.                                                       *)
DeletesOfPart(t) == {i \in Part(t) : log[i].op = "d"}

Upserts(t) == {i \in LatestPerRecid(Part(t)) : log[i].op # "d"}
Deletes(t) == {i \in LatestPerRecid(Part(t)) : log[i].op = "d"}

(* The rows of a bronze table after the given events, at most one per row.   *)
Apply(rows, events) ==
  [r \in Recs |-> IF \E i \in events : log[i].rec = r
                    THEN CHOOSE i \in events : log[i].rec = r
                    ELSE rows[r]]

EndOffsets ==
  IF Skewed
    THEN {f \in [Topics -> 0..Len(log) * (1 + MaxRestart)] :
            \A t \in Topics : wal[t] <= f[t] /\ f[t] <= Len(topic[t])}
    ELSE {[t \in Topics |-> Len(topic[t])]}

(* A trigger with new data: the batch's end offsets are written to           *)
(* offsets/<N> before foreachBatch is called.                                *)
PlanBatch ==
  /\ cursor = 0 /\ wal = done
  /\ \E ends \in EndOffsets : ends # wal /\ wal' = ends
  /\ cursor' = 1
  /\ UNCHANGED <<sourceVars, kafkaVars, done, merged, crashes, lakeVars>>

(* Mutant: a batch that is run again goes straight to its progress.          *)
ResumeWithProgress ==
  /\ cursor = 0 /\ wal # done
  /\ cursor' = UpsertProgressStep
  /\ UNCHANGED <<sourceVars, kafkaVars, wal, done, merged, crashes, lakeVars>>

(* The driver comes back with offsets/<N> and no commits/<N>: the same batch *)
(* runs again from its first table.                                          *)
ResumeBatch ==
  /\ cursor = 0 /\ wal # done
  /\ cursor' = 1
  /\ UNCHANGED <<sourceVars, kafkaVars, wal, done, merged, crashes, lakeVars>>

(* part.isEmpty(): continue                                                  *)
SkipTable ==
  /\ cursor \in 1..Len(Routes) /\ ~merged /\ Part(Routes[cursor]) = {}
  /\ cursor' = cursor + 1
  /\ UNCHANGED <<sourceVars, kafkaVars, wal, done, merged, crashes, lakeVars>>

(* write_bronze, first commit: MERGE of the parsed upserts.                  *)
MergeTable ==
  /\ cursor \in 1..Len(Routes) /\ Part(Routes[cursor]) # {} /\ ~merged
  /\ LET t == Routes[cursor] IN
       bronze' = [bronze EXCEPT ![t] = Apply(@, Upserts(t))]
  /\ merged' = TRUE
  /\ UNCHANGED <<sourceVars, kafkaVars, wal, done, cursor, crashes, maxLsn, streamLsn>>

(* write_bronze, last commit: DELETE of the recids whose last event is one.  *)
DeleteTable ==
  /\ cursor \in 1..Len(Routes) /\ merged
  /\ LET t == Routes[cursor] IN
       bronze' = [bronze EXCEPT ![t] = Apply(@, Deletes(t))]
  /\ merged' = FALSE
  /\ cursor' = cursor + 1
  /\ UNCHANGED <<sourceVars, kafkaVars, wal, done, crashes, maxLsn, streamLsn>>

PartLsns(t) == {log[i].lsn : i \in Part(t)}
BatchLsns   == UNION {PartLsns(t) : t \in Topics}

(* Mutant: WHEN MATCHED THEN UPDATE, without the guard.                      *)
Overwritten(old, lsns) ==
  IF lsns # {} THEN CHOOSE l \in lsns : \A other \in lsns : other <= l ELSE old

(* WHEN MATCHED AND s.max_lsn > t.max_lsn THEN UPDATE; no row if no event.   *)
Raised(old, lsns) ==
  IF \E l \in lsns : l > old
    THEN CHOOSE l \in lsns : \A other \in lsns : other <= l
    ELSE old

(* One MERGE for the rows of every table of the batch and __global__, after  *)
(* all the tables are written.                                               *)
UpsertProgress ==
  /\ cursor = UpsertProgressStep
  /\ maxLsn' = [t \in Topics |-> Raised(maxLsn[t], PartLsns(t))]
  /\ streamLsn' = Raised(streamLsn, BatchLsns)
  /\ cursor' = CommitStep
  /\ UNCHANGED <<sourceVars, kafkaVars, wal, done, merged, crashes, bronze>>

(* Mutant: the commit takes what the topics hold by then.                    *)
CommitTopicEnds ==
  /\ cursor = CommitStep
  /\ done' = [t \in Topics |-> Len(topic[t])]
  /\ cursor' = 0
  /\ UNCHANGED <<sourceVars, kafkaVars, wal, merged, crashes, lakeVars>>

(* foreachBatch returned: Spark writes commits/<N>.                          *)
CommitBatch ==
  /\ cursor = CommitStep
  /\ done' = wal
  /\ cursor' = 0
  /\ UNCHANGED <<sourceVars, kafkaVars, wal, merged, crashes, lakeVars>>

(* Mutant: offsets are committed before the batch is processed.              *)
CrashAfterCommit ==
  /\ cursor # 0 /\ crashes < MaxCrash
  /\ crashes' = crashes + 1
  /\ cursor' = 0 /\ merged' = FALSE
  /\ done' = wal
  /\ UNCHANGED <<sourceVars, kafkaVars, wal, lakeVars>>

(* Mutant: the checkpoint lives on the driver's disk and goes with it.       *)
CrashWithCheckpoint ==
  /\ cursor # 0 /\ crashes < MaxCrash
  /\ crashes' = crashes + 1
  /\ cursor' = 0 /\ merged' = FALSE
  /\ wal' = [t \in Topics |-> 0] /\ done' = [t \in Topics |-> 0]
  /\ UNCHANGED <<sourceVars, kafkaVars, lakeVars>>

(* The driver dies inside a batch, between any two of its commits.           *)
CrashDriver ==
  /\ cursor # 0 /\ crashes < MaxCrash
  /\ crashes' = crashes + 1
  /\ cursor' = 0 /\ merged' = FALSE
  /\ UNCHANGED <<sourceVars, kafkaVars, wal, done, lakeVars>>

-----------------------------------------------------------------------------
SourceNext == \/ \E t \in Tables, r \in Recs, op \in {"u", "d"} : Change(t, r, op)
              \/ StartCob
              \/ FinishCob

SparkStep == \/ PlanBatch
             \/ SkipTable \/ MergeTable \/ DeleteTable
             \/ UpsertProgress \/ CommitBatch

StreamNext == \/ SourceNext
              \/ Publish \/ RestartConnector
              \/ SparkStep \/ CrashDriver \/ ResumeBatch

(* Kafka Connect restarts its connector; a live driver runs its triggers.    *)
(* The SparkApplication has restartPolicy Never: that a dead driver comes    *)
(* back is the operators' part, the last conjunct.  T24 owes nobody another  *)
(* change.                                                                   *)
StreamFairness == /\ WF_streamVars(Publish)
                  /\ WF_streamVars(SparkStep)
                  /\ WF_streamVars(ResumeBatch)

StreamSpec     == StreamInit /\ [][StreamNext]_streamVars
FairStreamSpec == StreamSpec /\ StreamFairness

-----------------------------------------------------------------------------
(* Properties.                                                              *)

(* The row of etl_stream_progress a table or the stream has never moves      *)
(* back, whatever is delivered or replayed again (_upsert_progress keeps the *)
(* greatest LSN).                                                            *)
ProgressNeverRegresses ==
  [][ /\ \A t \in Topics : maxLsn'[t] >= maxLsn[t]
      /\ streamLsn' >= streamLsn ]_streamVars

Current(t, r, i) ==
  /\ i = 0 => \A j \in DOMAIN log : ~IsRow(log[j], t, r)
  /\ i # 0 => /\ IsRow(log[i], t, r)
              /\ \A j \in DOMAIN log : IsRow(log[j], t, r) => j <= i

Mirrored == \A t \in Topics, r \in Recs : Current(t, r, bronze[t][r])

(* T24 writes at most MaxLog changes.  Once it stops, bronze comes to mirror *)
(* it row for row and stays so: a crash of the driver between any two of its *)
(* commits, or a connector that publishes old events again, delays bronze    *)
(* and never leaves it wrong.                                                *)
BronzeConverges == <>[]Mirrored

(* Every event of table t up to position m is in bronze, or is covered by a  *)
(* later event of its row.                                                   *)
LandedUpTo(rows, t, m) ==
  \A i \in 1..m : log[i].tab = t => rows[log[i].rec] >= i

(* etl_stream_progress never runs ahead of bronze: when max_lsn[T] is        *)
(* published, every change of T up to that LSN is in bronze T, and when      *)
(* __global__ is published so is every change of every table.  Branches A    *)
(* and B of _caught_up rest on it.                                           *)
ProgressCovered ==
  \A t \in Topics, i \in DOMAIN log :
    (log[i].tab = t /\ (log[i].lsn <= maxLsn[t] \/ log[i].lsn <= streamLsn))
      => bronze[t][log[i].rec] >= i

(* No batch in flight: each bronze row is exactly the last of its events     *)
(* that the checkpoint counts as consumed, after any crash and replay.       *)
CommittedIsApplied ==
  (cursor = 0 /\ wal = done) =>
    \A t \in Topics, r \in Recs :
      LET seen == {topic[t][k] : k \in {k \in 1..done[t] : log[topic[t][k]].rec = r}}
      IN  IF seen = {} THEN bronze[t][r] = 0
                       ELSE /\ bronze[t][r] \in seen
                            /\ \A i \in seen : i <= bronze[t][r]

(* The marker row in the sense of CobMarker: the write an event is, the       *)
(* writes T24 has made, the write bronze shows.                              *)
MarkerWrite(m) == IF log[m].cob = "done" THEN 2 * log[m].day ELSE 2 * log[m].day - 1
MarkerWrites   == IF cobRunning THEN 2 * day - 1 ELSE 2 * day - 2
MarkerShown    == IF bronze[BATCH][CobRecid] = 0 THEN 0
                    ELSE MarkerWrite(bronze[BATCH][CobRecid])

Marker == INSTANCE CobMarker WITH writes <- MarkerWrites, shown <- MarkerShown

(* A stream whose connector publishes nothing twice implements CobMarker: the *)
(* marker row that cob_done reads goes forward through the states T24 gave   *)
(* it and never back, over crashes of the driver and replays of its batches. *)
ImplementsMarker == Marker!MarkerSpec

(* Each state of the marker row, or a later one, comes to show in bronze:    *)
(* the DAGs that poll cob_done see every close of a day or its successor.    *)
MarkerIsShown == Marker!WritesAreShown

(* lag of lag_per_topic: the topic's end offset less the offset in the       *)
(* newest offsets/<N> file.                                                  *)
Lag(t) == Len(topic[t]) - wal[t]

-----------------------------------------------------------------------------
(* The inductive invariants behind the proofs.                              *)

(* For every value of the constants: lsns stay below the bound, a topic      *)
(* holds events of its own table, a checkpoint offset names records that are *)
(* there, and only a batch in flight has a merge without its deletes.        *)
LsnsBounded      == \A i \in DOMAIN log : log[i].lsn <= MaxLog
TopicsHoldEvents == \A t \in Topics : \A k \in 1..Len(topic[t]) :
                      topic[t][k] \in DOMAIN log /\ log[topic[t][k]].tab = t
OffsetsOrdered   == \A t \in Topics : done[t] <= wal[t] /\ wal[t] <= Len(topic[t])
MergedInBatch    == merged => cursor \in 1..Len(Routes)

(* A marker names the day it closed; the COB of a day runs within it.        *)
MarkersCloseDays ==
  /\ day >= 1 /\ day <= MaxDay + 1
  /\ cobRunning => day <= MaxDay
  /\ \A m \in DOMAIN log : log[m].cob = "done" =>
       log[m].tab = BATCH /\ log[m].day >= 1 /\ log[m].day < day
  /\ \A m, n \in DOMAIN log :
       (log[m].cob = "done" /\ log[n].cob = "done" /\ log[m].day = log[n].day) => m = n

StreamShape == /\ StreamTypeOK /\ LsnsBounded /\ TopicsHoldEvents
               /\ OffsetsOrdered /\ MergedInBatch /\ MarkersCloseDays

(* A topic holds what is published, in commit order, as long as the           *)
(* connector publishes nothing twice; the changes of one row carry their      *)
(* LSNs in commit order, whatever transactions overlap.                       *)
LsnIsPosition   == \A i \in DOMAIN log : log[i].lsn = i
RowsInOrder     == \A i, j \in DOMAIN log :
                     (i < j /\ IsRow(log[i], log[j].tab, log[j].rec)) => log[i].lsn < log[j].lsn
TopicsIncrease  == \A t \in Topics : \A j, k \in 1..Len(topic[t]) :
                     j < k => topic[t][j] < topic[t][k]
PublishedOnly   == \A t \in Topics : \A k \in 1..Len(topic[t]) : topic[t][k] <= pos
AllPublished    == \A i \in 1..pos : \E k \in 1..Len(topic[log[i].tab]) :
                     topic[log[i].tab][k] = i

Landed(t, k) == bronze[t][log[topic[t][k]].rec] >= topic[t][k]

BronzeFromTopic ==
  \A t \in Topics, r \in Recs : bronze[t][r] # 0 =>
    \E k \in 1..wal[t] : topic[t][k] = bronze[t][r] /\ log[topic[t][k]].rec = r

DoneLanded  == \A t \in Topics : \A k \in 1..done[t] : Landed(t, k)
SunkLanded  == \A n \in 1..Len(Routes) : n < cursor =>
                 \A k \in 1..wal[Routes[n]] : Landed(Routes[n], k)
MergeLanded == merged => LET t == Routes[cursor] IN
                           \A i \in Upserts(t) : bronze[t][log[i].rec] >= i

(* Behind CommittedIsApplied.                                                *)
SinkInv ==
  /\ StreamShape
  /\ restarts = 0
  /\ ~Overlap => LsnIsPosition
  /\ RowsInOrder /\ TopicsIncrease /\ PublishedOnly /\ AllPublished
  /\ BronzeFromTopic /\ DoneLanded /\ SunkLanded /\ MergeLanded

(* When besides change LSNs follow commit order and the topics' end offsets  *)
(* are read at one instant.                                                  *)
Ordered == ~Overlap /\ ~Skewed /\ MaxRestart = 0

(* The planned offsets cut the commit order: no batch plans an event and     *)
(* leaves an earlier one that is published for the next batch.               *)
PlannedIsPrefix ==
  \A t, u \in Topics : \A j \in 1..wal[t], k \in (wal[u] + 1)..Len(topic[u]) :
    topic[t][j] < topic[u][k]

ProgressLanded ==
  /\ \A t \in Topics : maxLsn[t] <= pos
  /\ streamLsn <= pos
  /\ \A t \in Topics : \A k \in 1..Len(topic[t]) :
       (topic[t][k] <= maxLsn[t] \/ topic[t][k] <= streamLsn) => Landed(t, k)

(* Behind ProgressCovered.                                                   *)
StreamInv == SinkInv /\ LsnIsPosition /\ PlannedIsPrefix /\ ProgressLanded

(* Behind ImplementsMarker: the events of F_BATCH are the writes of the      *)
(* marker in their order.                                                    *)
BatchHoldsWrites ==
  /\ \A i \in DOMAIN log : log[i].tab = BATCH =>
       1 <= MarkerWrite(i) /\ MarkerWrite(i) <= MarkerWrites
  /\ \A i, j \in DOMAIN log : (log[i].tab = BATCH /\ log[j].tab = BATCH /\ i < j) =>
       MarkerWrite(i) < MarkerWrite(j)

MarkerInv == SinkInv /\ BatchHoldsWrites
=============================================================================
