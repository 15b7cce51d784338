------------------------------- MODULE PullCob -------------------------------
(***************************************************************************)
(* The DAG pull_cob (dags/pull_cob_dag.py) with the jobs it submits: wait  *)
(* for the COB marker, open a pending row per table, then for each table,  *)
(* independently: extract it from MSSQL to part files of the raw zone      *)
(* (jobs/t24_bcp_extract.py), parse them into the bronze partition of the  *)
(* day (jobs/t24_batch_parse.py), count the partition and seal the row.    *)
(* pull_bulk, pull_bulk_fresh and pull_jdbc are the same DAG over other    *)
(* tables; pull_jdbc extracts with Spark (Jdbc = Tables, else {}), and      *)
(* pull_bulk_fresh cannot be forced (MaxForced = 0).                       *)
(*                                                                         *)
(* A table's content is an edition of some chunks; one part file, and one  *)
(* row of a partition, stands for a chunk.  An extract reads one edition:  *)
(* the source is a readable secondary, whose queries read a snapshot.  A   *)
(* partition stands for the main table and its __sv table.                 *)
(***************************************************************************)
EXTENDS EtlControl, CobMarker

CONSTANTS
  Tables,     \* TABLES of the DAG
  Jdbc,       \* the tables whose extract is t24_jdbc_extract.py
  MaxChunks,  \* bound: chunks of an edition
  MaxEdits,   \* bound: editions T24 writes after the first
  MaxFail,    \* bound: sensors and tasks that fail
  MaxForced,  \* bound: runs triggered by hand with conf business_date
  MaxStale    \* bound: refreshes that fail and whose error is swallowed

ASSUME PullAssumption ==
  /\ IsFiniteSet(Tables) /\ Jdbc \subseteq Tables
  /\ MaxDay \in Nat /\ MaxChunks \in Nat /\ MaxEdits \in Nat
  /\ MaxFail \in Nat /\ MaxForced \in Nat /\ MaxStale \in Nat
  /\ Null \notin Nat

VARIABLES
  source,  \* the edition of each table in MSSQL
  raw,     \* raw/t24/<table>/<day>/: the edition of each part file, 0: no row
  bronze,  \* the partition of each day: a set of rows
  seen,    \* the partition as Dremio's metadata shows it
  ctl,     \* etl_control, the rows of flow pull
  run,     \* the DAG run in progress
  spent,   \* how much of the bounds is used
  closing, \* history: the source when T24 closed each day
  last     \* history: the last edition extracted for each day

world    == <<writes, shown, source, closing>>
lake     == <<raw, bronze, seen, last>>
pullVars == <<world, lake, ctl, run, spent>>

Days   == 1..MaxDay
PartNo == 0..(MaxChunks - 1)
Edition == [ed : 1..(MaxEdits + 1), chunks : 0..MaxChunks]
None    == [ed |-> 0, chunks |-> 0]

(* The rows of an edition, and those of a directory of part files.           *)
RowsOf(e)     == {[ed |-> e.ed, no |-> i] : i \in 0..(e.chunks - 1)}
ReadRaw(dir)  == {[ed |-> dir[i], no |-> i] : i \in {i \in PartNo : dir[i] # 0}}

Idle == [pc |-> "idle", d |-> 0, forced |-> FALSE, opened |-> {},
         step |-> [t \in Tables |-> "over"], from |-> [t \in Tables |-> None],
         put |-> [t \in Tables |-> 0], n |-> [t \in Tables |-> 0]]

PullInit ==
  /\ MarkerInit
  /\ source \in [Tables -> [ed : {1}, chunks : 0..MaxChunks]]
  /\ raw    = [d \in Days |-> [t \in Tables |-> [i \in PartNo |-> 0]]]
  /\ bronze = [d \in Days |-> [t \in Tables |-> {}]]
  /\ seen   = bronze
  /\ ctl    = [d \in Days |-> [t \in Tables |-> NoRow]]
  /\ run    = Idle
  /\ spent  = [edits |-> 0, fails |-> 0, forcings |-> 0, stale |-> 0]
  /\ closing = [d \in Days |-> [t \in Tables |-> 0]]
  /\ last    = [d \in Days |-> [t \in Tables |-> None]]

-----------------------------------------------------------------------------
(* T24 and the stream that shows its marker.                                 *)
Edit(t) ==
  /\ spent.edits < MaxEdits
  /\ \E c \in 0..MaxChunks :
       source' = [source EXCEPT ![t] = [ed |-> source[t].ed + 1, chunks |-> c]]
  /\ spent' = [spent EXCEPT !.edits = @ + 1]
  /\ UNCHANGED <<markerVars, closing, lake, ctl, run>>

Cob ==
  /\ Write
  /\ closing' = IF writes' % 2 = 0
                  THEN [closing EXCEPT ![writes' \div 2] = [t \in Tables |-> source[t].ed]]
                  ELSE closing
  /\ UNCHANGED <<source, lake, ctl, run, spent>>

ShowMarker == Show /\ UNCHANGED <<source, closing, lake, ctl, run, spent>>

-----------------------------------------------------------------------------
(* The sensor get_business_date.                                             *)
Trigger ==
  /\ run.pc = "idle"
  /\ run' = [Idle EXCEPT !.pc = "wait"]
  /\ UNCHANGED <<world, lake, ctl, spent>>

(* conf business_date, for a day that is over: neither the marker nor the    *)
(* all-sealed check is asked.                                                *)
TriggerForced(d) ==
  /\ run.pc = "idle" /\ spent.forcings < MaxForced
  /\ 2 * d <= writes
  /\ run' = [Idle EXCEPT !.pc = "open", !.d = d, !.forced = TRUE]
  /\ spent' = [spent EXCEPT !.forcings = @ + 1]
  /\ UNCHANGED <<world, lake, ctl>>

(* cob_done: the marker row is at 0.                                         *)
CobDone == shown > 0 /\ shown % 2 = 0

(* Mutant: the marker is shown, whatever it says.                            *)
WaitMarker ==
  /\ run.pc = "wait" /\ shown > 0
  /\ LET d == (shown + 1) \div 2 IN
       /\ ~AllSealed(ctl, d, Tables)
       /\ run' = [run EXCEPT !.pc = "open", !.d = d]
  /\ UNCHANGED <<world, lake, ctl, spent>>

WaitCob ==
  /\ run.pc = "wait" /\ CobDone
  /\ LET d == shown \div 2 IN
       /\ ~AllSealed(ctl, d, Tables)
       /\ run' = [run EXCEPT !.pc = "open", !.d = d]
  /\ UNCHANGED <<world, lake, ctl, spent>>

(* Mutant: ON CONFLICT DO NOTHING.                                           *)
OpenNewRow(t) ==
  /\ run.pc = "open" /\ t \notin run.opened
  /\ ctl' = IF ctl[run.d][t].status = "none" THEN OpenPending(ctl, run.d, t, Null) ELSE ctl
  /\ run' = IF run.opened \cup {t} = Tables
              THEN [run EXCEPT !.pc = "tables", !.opened = {},
                               !.step = [u \in Tables |-> "extract"]]
              ELSE [run EXCEPT !.opened = @ \cup {t}]
  /\ UNCHANGED <<world, lake, spent>>

(* One turn of the loop over BRONZE_TABLES; after the last one the tables'   *)
(* chains start.                                                             *)
OpenNext(t) ==
  /\ run.pc = "open" /\ t \notin run.opened
  /\ ctl' = OpenPending(ctl, run.d, t, Null)
  /\ run' = IF run.opened \cup {t} = Tables
              THEN [run EXCEPT !.pc = "tables", !.opened = {},
                               !.step = [u \in Tables |-> "extract"]]
              ELSE [run EXCEPT !.opened = @ \cup {t}]
  /\ UNCHANGED <<world, lake, spent>>

-----------------------------------------------------------------------------
(* The chain of one table: extract >> parse >> seal.                         *)
At(t, step) == run.pc = "tables" /\ run.step[t] = step

(* bcp has answered: a table without rows is one empty part-0000.  Spark     *)
(* overwrites the whole directory.                                           *)
Extract(t) ==
  /\ At(t, "extract")
  /\ LET whole == t \in Jdbc \/ source[t].chunks = 0 IN
       /\ run' = [run EXCEPT !.step[t] = IF whole THEN "parse" ELSE "upload",
                             !.from[t] = source[t], !.put[t] = 0]
       /\ raw' = CASE t \in Jdbc -> [raw EXCEPT ![run.d][t] =
                                 [i \in PartNo |-> IF i < source[t].chunks
                                                     THEN source[t].ed ELSE 0]]
                   [] t \notin Jdbc /\ whole /\ MaxChunks > 0 -> [raw EXCEPT ![run.d][t][0] = 0]
                   [] OTHER -> raw
       /\ last' = IF whole THEN [last EXCEPT ![run.d][t] = source[t]] ELSE last
  /\ UNCHANGED <<world, bronze, seen, ctl, spent>>

(* Mutant: the rest of the buffer after the loop is not uploaded.            *)
UploadFullChunks(t) ==
  /\ At(t, "upload")
  /\ LET idx == run.put[t]
         e   == run.from[t]
         end == idx + 1 = e.chunks
     IN /\ raw' = IF end THEN raw ELSE [raw EXCEPT ![run.d][t][idx] = e.ed]
        /\ run' = [run EXCEPT !.put[t] = idx + 1,
                              !.step[t] = IF end THEN "parse" ELSE "upload"]
        /\ last' = IF end THEN [last EXCEPT ![run.d][t] = e] ELSE last
  /\ UNCHANGED <<world, bronze, seen, ctl, spent>>

(* part-<idx>.parquet, over the file an earlier run may have left there.     *)
UploadChunk(t) ==
  /\ At(t, "upload")
  /\ LET idx == run.put[t]
         e   == run.from[t]
         end == idx + 1 = e.chunks
     IN /\ raw' = [raw EXCEPT ![run.d][t][idx] = e.ed]
        /\ run' = [run EXCEPT !.put[t] = idx + 1,
                              !.step[t] = IF end THEN "parse" ELSE "upload"]
        /\ last' = IF end THEN [last EXCEPT ![run.d][t] = e] ELSE last
  /\ UNCHANGED <<world, bronze, seen, ctl, spent>>

(* write_bronze_pull: overwritePartitions replaces the partitions that occur *)
(* in the frame, and an empty frame has none.                                *)
Parse(t) ==
  /\ At(t, "parse")
  /\ LET rows == ReadRaw(raw[run.d][t]) IN
       bronze' = IF rows = {} THEN bronze ELSE [bronze EXCEPT ![run.d][t] = rows]
  /\ run' = [run EXCEPT !.step[t] = "count"]
  /\ UNCHANGED <<world, raw, seen, last, ctl, spent>>

(* reconcile_seal reads: the refresh may fail, its error is swallowed, and   *)
(* the count is then of the partition Dremio knew.                           *)
Count(t) ==
  /\ At(t, "count")
  /\ \/ /\ seen' = [seen EXCEPT ![run.d][t] = bronze[run.d][t]]
        /\ UNCHANGED spent
     \/ /\ spent.stale < MaxStale
        /\ spent' = [spent EXCEPT !.stale = @ + 1]
        /\ UNCHANGED seen
  /\ run' = [run EXCEPT !.step[t] = "seal",
                        !.n[t] = Cardinality(seen'[run.d][t])]
  /\ UNCHANGED <<world, raw, bronze, last, ctl>>

(* Mutant: a table that counts 0 is not sealed.                              *)
SealNonEmpty(t) ==
  /\ At(t, "seal")
  /\ ctl' = IF run.n[t] = 0 THEN ctl ELSE Seal(ctl, run.d, t, Null, run.n[t], run.n[t])
  /\ run' = [run EXCEPT !.step[t] = "over", !.from[t] = None, !.put[t] = 0, !.n[t] = 0]
  /\ UNCHANGED <<world, lake, spent>>

(* ... and writes.                                                           *)
SealTable(t) ==
  /\ At(t, "seal")
  /\ ctl' = Seal(ctl, run.d, t, Null, run.n[t], run.n[t])
  /\ run' = [run EXCEPT !.step[t] = "over", !.from[t] = None, !.put[t] = 0, !.n[t] = 0]
  /\ UNCHANGED <<world, lake, spent>>

(* bcp returned an error after some parts, a pod was lost, a query raised:   *)
(* no task retries, and the other tables go on.                              *)
FailTask(t) ==
  /\ run.pc = "tables" /\ run.step[t] # "over" /\ spent.fails < MaxFail
  /\ run' = [run EXCEPT !.step[t] = "over", !.from[t] = None, !.put[t] = 0, !.n[t] = 0]
  /\ spent' = [spent EXCEPT !.fails = @ + 1]
  /\ UNCHANGED <<world, lake, ctl>>

(* The sensor timed out, or raised between two rows.                         *)
FailSensor ==
  /\ run.pc \in {"wait", "open"} /\ spent.fails < MaxFail
  /\ run' = Idle
  /\ spent' = [spent EXCEPT !.fails = @ + 1]
  /\ UNCHANGED <<world, lake, ctl>>

EndRun ==
  /\ run.pc = "tables" /\ \A t \in Tables : run.step[t] = "over"
  /\ run' = Idle
  /\ UNCHANGED <<world, lake, ctl, spent>>

-----------------------------------------------------------------------------
TableStep(t) == OpenNext(t) \/ Extract(t) \/ UploadChunk(t) \/ Parse(t)
                  \/ Count(t) \/ SealTable(t)

PullStep == WaitCob \/ EndRun \/ \E t \in Tables : TableStep(t)

PullNext == \/ Cob \/ ShowMarker \/ \E t \in Tables : Edit(t)
            \/ Trigger \/ FailSensor
            \/ \E d \in Days : TriggerForced(d)
            \/ \E t \in Tables : FailTask(t)
            \/ PullStep

PullSpec == PullInit /\ [][PullNext]_pullVars

(* The stream shows the marker (WritesAreShown), the DAG is triggered every   *)
(* day, the scheduler pokes the sensor and runs ready tasks.                 *)
PullFairness == /\ WF_pullVars(ShowMarker)
                /\ WF_pullVars(Trigger)
                /\ WF_pullVars(PullStep)

PullFairSpec == PullSpec /\ PullFairness

-----------------------------------------------------------------------------
(* Properties.                                                              *)

Sealed(d, t) == ctl[d][t].status = "sealed"

(* A sealed partition has every row of the last extract of its day, whatever *)
(* failed, was replayed or sealed before (sinks.py writes "theo từng D").    *)
NothingMissing ==
  \A d \in Days, t \in Tables :
    Sealed(d, t) => RowsOf(last[d][t]) \subseteq bronze[d][t]

(* No row of the partition of day d was read from MSSQL before T24 closed d. *)
ReadAfterClose ==
  \A d \in Days, t \in Tables : \A r \in bronze[d][t] :
    2 * d <= writes /\ r.ed >= closing[d][t]

(* A partition changes only while its control row is pending, so that a gate *)
(* that sees the row sealed reads data at rest.                              *)
ChangesOnlyPending ==
  [][ \A d \in Days, t \in Tables :
        bronze'[d][t] # bronze[d][t] => ctl[d][t].status = "pending" ]_pullVars

(* A day all of whose tables are sealed is left alone by unforced runs: a    *)
(* marker that stays at 0 is not taken for a new COB.                        *)
SealedDayIsLeft ==
  [][ \A d \in Days :
        (AllSealed(ctl, d, Tables) /\ ~run.forced)
          => ctl'[d] = ctl[d] /\ raw'[d] = raw[d] ]_pullVars

(* What the ledger sees of the control table and of the run: a run whose     *)
(* sensor has not fired holds no day.                                        *)
SealedByDay == [d \in Days |-> {t \in Tables : Sealed(d, t)}]

DayInHand ==
  IF run.pc \in {"open", "tables"}
    THEN [d |-> run.d, forced |-> run.forced,
          over |-> {t \in Tables : run.pc = "tables" /\ run.step[t] = "over"}]
    ELSE [d |-> 0, forced |-> FALSE, over |-> {}]

Ledger == INSTANCE SealLedger WITH
  Sources <- Tables, closed <- writes \div 2,
  sealed  <- SealedByDay, data <- bronze, run <- DayInHand

(* pull_cob implements the ledger the builds rely on: it takes closed days   *)
(* only, each table's chain works on its own row and partition, and no chain *)
(* comes back to a row it has sealed or failed on (etl_control.py:64).       *)
ImplementsLedger == Ledger!LedgerSpec

(* A closed day gets sealed, failed tasks and empty tables notwithstanding,  *)
(* unless the next COB takes the marker first.                               *)
ClosedDayIsPulled ==
  \A d \in Days : (writes >= 2 * d) ~> (AllSealed(ctl, d, Tables) \/ writes > 2 * d)
=============================================================================
