------------------------------ MODULE SftpHold ------------------------------
(***************************************************************************)
(* The DAG sftp_hold (dags/sftp_hold_dag.py) on top of the stream: wait    *)
(* for the COB marker, wait until the topic of F_HOLD_CONTROL has no lag,  *)
(* then for each report, independently: list the day's files from bronze   *)
(* hold_control (the manifest), fetch them by SFTP, parse them into the    *)
(* report's partition, count and seal.                                     *)
(*                                                                         *)
(* A row of hold_control is one file of one report; its date_created is    *)
(* the business day of the event that wrote it, and the file is named by   *)
(* that event.  Dremio's refresh is taken to succeed here.                 *)
(***************************************************************************)
EXTENDS CdcStream, EtlControl

CONSTANTS
  HOLD,       \* F_HOLD_CONTROL
  Reports,    \* REPORTS: the bronze table of each report
  ReportOf,   \* report_name of each row of HOLD
  MaxFail,    \* bound: sensors and tasks that fail
  MaxForced   \* bound: runs triggered by hand with conf business_date

ASSUME HoldAssumption ==
  /\ HOLD \in Tables
  /\ IsFiniteSet(Reports) /\ ReportOf \in [Recs -> Reports]
  /\ MaxFail \in Nat /\ MaxForced \in Nat
  /\ Null \notin Nat

VARIABLES
  ctl,       \* etl_control, the rows of flow sftp
  hold,      \* the DAG run in progress
  manifest,  \* manifests/sftp_hold/<report>/<day>.json: a set of files
  raw,       \* hold/<report>/business_date=<day>/: a set of files
  partition, \* the report's bronze partition, as the files its rows came from
  fails,     \* sensors and tasks that failed so far
  forcings   \* forced runs so far

files    == <<manifest, raw, partition>>
holdVars == <<ctl, hold, files, fails, forcings>>
vars     == <<streamVars, holdVars>>

Idle == [pc |-> "idle", d |-> 0, forced |-> FALSE,
         step |-> [p \in Reports |-> "over"]]

NoFiles == [d \in Days |-> [p \in Reports |-> {}]]

Init ==
  /\ StreamInit
  /\ ctl = [d \in Days |-> [p \in Reports |-> NoRow]]
  /\ hold = Idle
  /\ manifest = NoFiles /\ raw = NoFiles /\ partition = NoFiles
  /\ fails = 0 /\ forcings = 0

-----------------------------------------------------------------------------
MarkerRow == bronze[BATCH][CobRecid]
CobDone   == MarkerRow # 0 /\ log[MarkerRow].cob = "done"
Closed(d) == \E m \in DOMAIN log : log[m].cob = "done" /\ log[m].day = d

Trigger ==
  /\ hold.pc = "idle"
  /\ hold' = [Idle EXCEPT !.pc = "detect"]
  /\ UNCHANGED <<streamVars, ctl, files, fails, forcings>>

(* conf business_date, for a day whose marker the stream has shown: _detect  *)
(* asks neither the marker nor all_sealed.                                   *)
TriggerForced(d) ==
  /\ hold.pc = "idle" /\ forcings < MaxForced
  /\ MarkerRow # 0 /\ \E m \in 1..MarkerRow : log[m].cob = "done" /\ log[m].day = d
  /\ hold' = [Idle EXCEPT !.pc = "lag", !.d = d, !.forced = TRUE]
  /\ forcings' = forcings + 1
  /\ UNCHANGED <<streamVars, ctl, files, fails>>

(* Mutant: a day whose rows exist, sealed or not, is taken for done.         *)
DetectUnopened ==
  /\ hold.pc = "detect" /\ CobDone
  /\ \E p \in Reports : ctl[log[MarkerRow].day][p].status = "none"
  /\ hold' = [hold EXCEPT !.pc = "lag", !.d = log[MarkerRow].day]
  /\ UNCHANGED <<streamVars, ctl, files, fails, forcings>>

(* _detect: nothing is opened yet.                                           *)
Detect ==
  /\ hold.pc = "detect" /\ CobDone
  /\ ~AllSealed(ctl, log[MarkerRow].day, Reports)
  /\ hold' = [hold EXCEPT !.pc = "lag", !.d = log[MarkerRow].day]
  /\ UNCHANGED <<streamVars, ctl, files, fails, forcings>>

(* Mutant: the sensor is left out.                                           *)
CaughtUpAtOnce ==
  /\ hold.pc = "lag"
  /\ hold' = [hold EXCEPT !.pc = "reports", !.step = [p \in Reports |-> "manifest"]]
  /\ UNCHANGED <<streamVars, ctl, files, fails, forcings>>

(* _caught_up: the newest offsets/<N> file has the topic's end offset.       *)
CaughtUp ==
  /\ hold.pc = "lag" /\ Lag(HOLD) = 0
  /\ hold' = [hold EXCEPT !.pc = "reports", !.step = [p \in Reports |-> "manifest"]]
  /\ UNCHANGED <<streamVars, ctl, files, fails, forcings>>

-----------------------------------------------------------------------------
At(p, step) == hold.pc = "reports" /\ hold.step[p] = step
To(p, step) == hold' = [hold EXCEPT !.step[p] = step]

(* The files of report p of day d: in bronze hold_control now ...            *)
Listed(d, p) ==
  {i \in {bronze[HOLD][r] : r \in {r \in Recs : ReportOf[r] = p}} \ {0} :
     log[i].op # "d" /\ log[i].day = d}

(* build_manifest: the JSON is written first ...                             *)
WriteManifest(p) ==
  /\ At(p, "manifest") /\ To(p, "open")
  /\ manifest' = [manifest EXCEPT ![hold.d][p] = Listed(hold.d, p)]
  /\ UNCHANGED <<streamVars, ctl, raw, partition, fails, forcings>>

(* Mutant: a row that exists is left as it is.                               *)
OpenNewReport(p) ==
  /\ At(p, "open") /\ To(p, "fetch")
  /\ ctl' = IF ctl[hold.d][p].status = "none" THEN OpenPending(ctl, hold.d, p, Null) ELSE ctl
  /\ UNCHANGED <<streamVars, files, fails, forcings>>

(* ... then the row is opened.                                               *)
OpenReport(p) ==
  /\ At(p, "open") /\ To(p, "fetch")
  /\ ctl' = OpenPending(ctl, hold.d, p, Null)
  /\ UNCHANGED <<streamVars, files, fails, forcings>>

(* Mutant: the job gives up half way and exits 0.                            *)
FetchSome(p) ==
  /\ At(p, "fetch") /\ To(p, "parse")
  /\ \E some \in SUBSET manifest[hold.d][p] :
       raw' = [raw EXCEPT ![hold.d][p] = @ \cup some]
  /\ UNCHANGED <<streamVars, ctl, manifest, partition, fails, forcings>>

(* sftp_sync_spark.py is not in the repository: it gets the manifest's key   *)
(* and the parser reads hold/<report>/business_date=<day>/ after it.         *)
Fetch(p) ==
  /\ At(p, "fetch") /\ To(p, "parse")
  /\ raw' = [raw EXCEPT ![hold.d][p] = @ \cup manifest[hold.d][p]]
  /\ UNCHANGED <<streamVars, ctl, manifest, partition, fails, forcings>>

(* The report parsers' main: wholeTextFiles raises when no file matches and  *)
(* the task fails; else overwritePartitions.  (Files without a row exit 0    *)
(* before it: here a file has rows.)                                         *)
Parse(p) ==
  /\ At(p, "parse")
  /\ LET rows == raw[hold.d][p] IN
       IF rows = {} THEN To(p, "over") /\ UNCHANGED partition
         ELSE To(p, "seal") /\ partition' = [partition EXCEPT ![hold.d][p] = rows]
  /\ UNCHANGED <<streamVars, ctl, manifest, raw, fails, forcings>>

(* reconcile_seal: expected counts the manifest's files, actual the rows of  *)
(* the partition; nothing compares them.  Only this run writes either.       *)
SealReport(p) ==
  /\ At(p, "seal") /\ To(p, "over")
  /\ ctl' = Seal(ctl, hold.d, p, Null, Cardinality(manifest[hold.d][p]),
                 Cardinality(partition[hold.d][p]))
  /\ UNCHANGED <<streamVars, files, fails, forcings>>

(* A task fails: no retry, the other reports go on.                          *)
FailTask(p) ==
  /\ hold.pc = "reports" /\ hold.step[p] # "over" /\ fails < MaxFail
  /\ To(p, "over")
  /\ fails' = fails + 1
  /\ UNCHANGED <<streamVars, ctl, files, forcings>>

FailSensor ==
  /\ hold.pc \in {"detect", "lag"} /\ fails < MaxFail
  /\ hold' = Idle
  /\ fails' = fails + 1
  /\ UNCHANGED <<streamVars, ctl, files, forcings>>

EndRun ==
  /\ hold.pc = "reports" /\ \A p \in Reports : hold.step[p] = "over"
  /\ hold' = Idle
  /\ UNCHANGED <<streamVars, ctl, files, fails, forcings>>

-----------------------------------------------------------------------------
ReportStep(p) == WriteManifest(p) \/ OpenReport(p) \/ Fetch(p) \/ Parse(p) \/ SealReport(p)

HoldStep == Detect \/ CaughtUp \/ EndRun \/ \E p \in Reports : ReportStep(p)

Next == \/ StreamNext /\ UNCHANGED holdVars
        \/ Trigger \/ FailSensor
        \/ \E d \in Days : TriggerForced(d)
        \/ \E p \in Reports : FailTask(p)
        \/ HoldStep

Spec == Init /\ [][Next]_vars

(* As for cob_gate: the stream goes on, the DAG is triggered every day.      *)
Fairness == /\ WF_vars(Publish /\ UNCHANGED holdVars)
            /\ WF_vars(SparkStep /\ UNCHANGED holdVars)
            /\ WF_vars(ResumeBatch /\ UNCHANGED holdVars)
            /\ WF_vars(Trigger)
            /\ WF_vars(HoldStep)

FairSpec == Spec /\ Fairness

-----------------------------------------------------------------------------
(* Properties.                                                              *)

Sealed(d, p) == ctl[d][p].status = "sealed"

(* The files of report p that T24 announced for day d.                       *)
Announced(d, p) ==
  {i \in DOMAIN log : /\ log[i].tab = HOLD /\ log[i].day = d /\ log[i].op # "d"
                      /\ ReportOf[log[i].rec] = p}

(* Those that no later event of the same row replaced or deleted.            *)
Standing(d, p) ==
  {i \in Announced(d, p) :
     \A j \in DOMAIN log : (log[j].tab = HOLD /\ log[j].rec = log[i].rec) => j <= i}

(* When a report's row gets sealed, every file of its manifest has its rows  *)
(* in the partition, whatever failed or ran before.                          *)
SealCoversManifest ==
  [][ \A d \in Days, p \in Reports :
        (~Sealed(d, p) /\ ctl'[d][p].status = "sealed")
          => manifest[d][p] \subseteq partition[d][p] ]_vars

(* A report's partition changes only while its row is pending.               *)
ChangesOnlyPending ==
  [][ \A d \in Days, p \in Reports :
        partition'[d][p] # partition[d][p] => ctl[d][p].status = "pending" ]_vars

(* What the two sensors are worth: a file of the day that the manifest is    *)
(* written without is one that the micro-batch in flight is about to land,   *)
(* or one that the row has replaced.                                         *)
MissingIsInFlight ==
  [][ \A p \in Reports :
        (At(p, "manifest") /\ hold'.step[p] = "open") =>
          \A i \in Announced(hold.d, p) \ manifest'[hold.d][p] :
            \/ i \in Part(HOLD)
            \/ bronze[HOLD][log[i].rec] > i ]_vars

(* No run that nobody forced works again on a day that is all sealed: the 0  *)
(* that a COB leaves in the marker is not taken for a new COB.  (Inside a run *)
(* that repeats a half sealed day, the day may look all sealed for a while,  *)
(* because each row is reopened only after its own manifest.)                *)
SealedDayIsNotRepeated ==
  [][ (hold.pc = "lag" /\ hold'.pc = "reports" /\ ~hold.forced)
        => ~AllSealed(ctl, hold.d, Reports) ]_vars

(* What the ledger sees of the control table and of the run: a run whose     *)
(* sensor has not fired holds no day.                                        *)
SealedByDay == [d \in Days |-> {p \in Reports : Sealed(d, p)}]

DayInHand ==
  IF hold.pc \in {"lag", "reports"}
    THEN [d |-> hold.d, forced |-> hold.forced,
          over |-> {p \in Reports : hold.pc = "reports" /\ hold.step[p] = "over"}]
    ELSE [d |-> 0, forced |-> FALSE, over |-> {}]

Ledger == INSTANCE SealLedger WITH
  Sources <- Reports, closed <- day - 1,
  sealed  <- SealedByDay, data <- partition, run <- DayInHand

(* sftp_hold implements the ledger the builds rely on: it takes closed days  *)
(* only, a report's partition is written between the reopening of its row    *)
(* and its seal, and a report that failed is left as it is until another run *)
(* takes the day (etl_control.py:64).                                        *)
ImplementsLedger == Ledger!LedgerSpec

(* Every report with a standing file of a closed day gets sealed, whatever    *)
(* fails and even if the first manifest missed it: a report without a file    *)
(* fails its parse, the day is not all sealed, and the next run repeats it.   *)
(* Only the next COB, which takes the marker, ends that.                      *)
ClosedDayIsHeld ==
  \A d \in Days :
    Closed(d) ~> \/ \A p \in Reports : Standing(d, p) # {} => Sealed(d, p)
                 \/ \E m \in DOMAIN log : log[m].tab = BATCH /\ log[m].day > d
=============================================================================
