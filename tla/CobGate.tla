------------------------------- MODULE CobGate -------------------------------
(***************************************************************************)
(* The DAG cob_gate (dags/cob_gate_dag.py): it waits for the COB marker,   *)
(* opens a pending row per CDC table, waits until the stream has caught up *)
(* with the marker's LSN, then pins the latest Iceberg snapshot of each    *)
(* table and seals its row.                                                *)
(*                                                                         *)
(* The stream goes on below the DAG, so it moves between any two           *)
(* statements of a task.  max_active_runs = 1: one run at a time, gate is  *)
(* the state of the current one (its xcoms, and the position of the loop   *)
(* over CDC_SOURCES).  A snapshot id stands for the content it names:      *)
(* Iceberg snapshots are immutable.                                        *)
(***************************************************************************)
EXTENDS CdcStream, EtlControl

CONSTANTS
  GateSources,  \* CDC_SOURCES, the CDC tables in the order the tasks visit them
  Loaded,       \* the tables that have a snapshot from the Day-1 load
  MaxFail,      \* bound: runs that end on a timeout or on an exception
  MaxForced     \* bound: runs triggered by hand with conf business_date

ASSUME GateAssumption ==
  /\ GateSources \in Seq(Tables)
  /\ \A t \in Tables : \E k \in 1..Len(GateSources) : GateSources[k] = t
  /\ \A j, k \in 1..Len(GateSources) : GateSources[j] = GateSources[k] => j = k
  /\ Loaded \subseteq Tables
  /\ MaxFail \in Nat /\ MaxForced \in Nat
  /\ IsFiniteSet(Tables) /\ GateSources # <<>>
  /\ Null \notin [Recs -> Nat]

VARIABLES
  ctl,     \* etl_control, the rows of flow cdc
  gate,    \* the run of cob_gate in progress
  fails,   \* runs that failed so far
  forcings \* forced runs so far

gateVars == <<ctl, gate, fails, forcings>>
vars     == <<streamVars, gateVars>>

(* l_cob as conf_override gives it when the conf names no LSN.               *)
NoLsn == 0

Idle == [pc |-> "idle", d |-> 0, l_cob |-> NoLsn, forced |-> FALSE, next |-> 1]

Snapshots == [Recs -> Nat]

Row == [status : {"none", "pending", "sealed"}, l_cob : Nat \cup {Null},
        snapshot : Snapshots \cup {Null}, expected : {Null}, actual : {Null}]

Run == [pc : {"idle", "detect", "open", "wait", "pin"}, d : Nat, l_cob : Nat,
        forced : BOOLEAN, next : 1..Len(GateSources)]

TypeOK ==
  /\ StreamTypeOK
  /\ ctl \in [Days -> [Tables -> Row]]
  /\ gate \in Run
  /\ fails \in Nat /\ forcings \in Nat

Init ==
  /\ StreamInit
  /\ ctl = [d \in Days |-> [t \in Tables |-> NoRow]]
  /\ gate = Idle
  /\ fails = 0 /\ forcings = 0

-----------------------------------------------------------------------------
(* cob_done: the marker row as bronze t24_batch shows it now.                *)
MarkerRow == bronze[BATCH][CobRecid]

(* Mutant: a marker row is there, whatever it says.                          *)
AnyMarker == MarkerRow # 0
CobDone   == MarkerRow # 0 /\ log[MarkerRow].cob = "done"

(* The event by which T24 closed day d.                                      *)
Closes(m, d) == log[m].tab = BATCH /\ log[m].cob = "done" /\ log[m].day = d

(* Days the stream has run past: what the runbook replays (cob_marker.py     *)
(* lets a replay skip the wait because the stream passed its LSN long ago).  *)
Replayable(d) ==
  \E m \in DOMAIN log : Closes(m, d) /\ log[m].lsn <= streamLsn

-----------------------------------------------------------------------------
(* The schedule, or an operator, starts a run.                               *)
Trigger ==
  /\ gate.pc = "idle"
  /\ gate' = [Idle EXCEPT !.pc = "detect"]
  /\ UNCHANGED <<streamVars, ctl, fails, forcings>>

(* airflow dags trigger cob_gate -c '{"business_date": d}'                   *)
TriggerForced(d) ==
  /\ gate.pc = "idle" /\ forcings < MaxForced
  /\ Replayable(d)
  /\ gate' = [Idle EXCEPT !.pc = "detect", !.d = d, !.forced = TRUE]
  /\ forcings' = forcings + 1
  /\ UNCHANGED <<streamVars, ctl, fails>>

(* _detect_cob, forced: no marker, no idempotence check.                     *)
DetectForced ==
  /\ gate.pc = "detect" /\ gate.forced
  /\ gate' = [gate EXCEPT !.pc = "open", !.l_cob = NoLsn]
  /\ UNCHANGED <<streamVars, ctl, fails, forcings>>

(* Mutant: the check that the day is not sealed is dropped.                  *)
DetectAnyMarker ==
  /\ gate.pc = "detect" /\ ~gate.forced
  /\ CobDone
  /\ gate' = [gate EXCEPT !.pc = "open", !.d = log[MarkerRow].day,
                          !.l_cob = log[MarkerRow].lsn]
  /\ UNCHANGED <<streamVars, ctl, fails, forcings>>

(* _detect_cob: a marker at 0 whose day is not all sealed yet.               *)
DetectCob ==
  /\ gate.pc = "detect" /\ ~gate.forced
  /\ CobDone
  /\ ~AllSealed(ctl, log[MarkerRow].day, Tables)
  /\ gate' = [gate EXCEPT !.pc = "open", !.d = log[MarkerRow].day,
                          !.l_cob = log[MarkerRow].lsn]
  /\ UNCHANGED <<streamVars, ctl, fails, forcings>>

(* The next table of a task's loop, or what follows the last one.            *)
Advance(after) ==
  gate' = IF gate.next < Len(GateSources) THEN [gate EXCEPT !.next = @ + 1]
                                          ELSE after

(* open_pending, one table: ctl.open_pending is a statement of its own.      *)
OpenNext ==
  /\ gate.pc = "open"
  /\ ctl' = OpenPending(ctl, gate.d, GateSources[gate.next], gate.l_cob)
  /\ Advance([gate EXCEPT !.pc = "wait", !.next = 1])
  /\ UNCHANGED <<streamVars, fails, forcings>>

(* _caught_up.  An LSN of 0 is a missing row of etl_stream_progress; the lag *)
(* of a topic that does not exist is 0.                                      *)
BranchA(t) == maxLsn[t] # 0 /\ maxLsn[t] >= gate.l_cob

(* Mutant: the stream must be past the marker.                               *)
GlobalPast   == streamLsn > gate.l_cob
GlobalCaught == streamLsn # 0 /\ streamLsn >= gate.l_cob

(* Mutant: an idle topic is enough.                                          *)
IdleTopic(t) == Lag(t) = 0
BranchB(t)   == GlobalCaught /\ Lag(t) = 0

(* One poke reads the progress rows, then the offsets file, then the topics' *)
(* end offsets.  It is one step, at its last read: a progress row that       *)
(* passed only rises (ProgressNeverRegresses), and an offset read earlier    *)
(* that equals the end offset is still the planned one.                      *)
CaughtUp ==
  /\ gate.pc = "wait"
  /\ \A t \in Tables : BranchA(t) \/ BranchB(t)
  /\ gate' = [gate EXCEPT !.pc = "pin"]
  /\ UNCHANGED <<streamVars, ctl, fails, forcings>>

(* latest_snapshot_id raises on a table that nobody has written.             *)
HasSnapshot(t) == t \in Loaded \/ \E r \in Recs : bronze[t][r] # 0

(* pin_and_seal, one table: the latest snapshot, then the seal, which no     *)
(* other writer of the row can come before.                                  *)
PinNext ==
  /\ gate.pc = "pin"
  /\ LET t == GateSources[gate.next] IN
       /\ HasSnapshot(t)
       /\ ctl' = Seal(ctl, gate.d, t, bronze[t], Null, Null)
  /\ Advance(Idle)
  /\ UNCHANGED <<streamVars, fails, forcings>>

(* A sensor times out, or a task raises (Dremio, Postgres, a lost worker):   *)
(* no task retries, the run is over and what it has written stays.           *)
FailRun ==
  /\ gate.pc # "idle" /\ fails < MaxFail
  /\ gate' = Idle
  /\ fails' = fails + 1
  /\ UNCHANGED <<streamVars, ctl, forcings>>

-----------------------------------------------------------------------------
GateStep == DetectForced \/ DetectCob \/ OpenNext \/ CaughtUp \/ PinNext

Next == \/ StreamNext /\ UNCHANGED gateVars
        \/ Trigger
        \/ \E d \in Days : TriggerForced(d)
        \/ GateStep
        \/ FailRun

Spec == Init /\ [][Next]_vars

(* A cron triggers cob_gate every day (the DAG's comment on its schedule);   *)
(* the scheduler pokes a waiting sensor and runs a ready task.  Nothing makes *)
(* an operator replay a day.                                                 *)
Fairness == /\ WF_vars(Publish /\ UNCHANGED gateVars)
            /\ WF_vars(SparkStep /\ UNCHANGED gateVars)
            /\ WF_vars(ResumeBatch /\ UNCHANGED gateVars)
            /\ WF_vars(Trigger)
            /\ WF_vars(GateStep)

FairSpec == Spec /\ Fairness

-----------------------------------------------------------------------------
(* Properties.                                                              *)

Sealed(d, t) == ctl[d][t].status = "sealed"

(* A sealed row's snapshot holds every change committed before T24 closed    *)
(* the day, else "the snapshot would lack data of day D"                     *)
(* (COB_PIPELINE_FLOW_DESCRIPTION.md:79).                                    *)
PinnedComplete ==
  \A d \in Days, t \in Tables, m \in DOMAIN log :
    (Sealed(d, t) /\ Closes(m, d)) =>
      /\ ctl[d][t].snapshot # Null
      /\ LandedUpTo(ctl[d][t].snapshot, t, m)

(* A sealed row's snapshot shows the table as it was when T24 closed the day *)
(* and nothing later (DWH_System_Architecture.md:299).                       *)
PinnedAsOfCob ==
  \A d \in Days, t \in Tables, m \in DOMAIN log :
    (Sealed(d, t) /\ Closes(m, d)) =>
      \A r \in Recs : ctl[d][t].snapshot[r] <= m

(* A day that is fully sealed is left alone by every run nobody forced: the  *)
(* zero that a finished COB leaves in the marker is not taken for a new COB, *)
(* whatever fails or crashes around it.                                      *)
SealedDayIsFinal ==
  [][ \A d \in Days :
        (AllSealed(ctl, d, Tables) /\ ~gate.forced) => ctl'[d] = ctl[d] ]_vars

(* The run that holds a day: one that nobody forced has none before its      *)
(* sensor fires.                                                             *)
Committed == gate.pc \in {"open", "wait", "pin"}
DayInHand ==
  IF Committed \/ gate.forced
    THEN [d |-> gate.d, forced |-> gate.forced,
          over |-> IF gate.pc # "pin" THEN {}
                     ELSE {GateSources[k] : k \in 1..(gate.next - 1)}]
    ELSE [d |-> 0, forced |-> FALSE, over |-> {}]

SealedByDay == [d \in Days |-> {t \in Tables : Sealed(d, t)}]
PinnedByDay == [d \in Days |-> [t \in Tables |-> ctl[d][t].snapshot]]

Ledger == INSTANCE SealLedger WITH
  Sources <- Tables, closed <- day - 1,
  sealed  <- SealedByDay, data <- PinnedByDay, run <- DayInHand

(* The gate implements the ledger the builds rely on: it takes closed days   *)
(* only, reopens all rows before it seals the first, seals each one once and *)
(* changes no snapshot of a sealed row, over timeouts, exceptions and forced *)
(* runs that start half way (etl_control.py:64).                             *)
ImplementsLedger == Ledger!LedgerSpec

ClosedDay(d) == \E m \in DOMAIN log : Closes(m, d)

(* T24 has started the COB of a later day: the marker has left day d.        *)
Superseded(d) == \E m \in DOMAIN log : log[m].tab = BATCH /\ log[m].day > d

(* When T24 has closed a day, the day gets sealed, unless the next COB takes *)
(* the marker first: tables that are quiet or empty do not block it, and     *)
(* neither does a failed run, nor a crash of the driver.                     *)
ClosedDayIsSealed ==
  \A d \in Days : ClosedDay(d) ~> (AllSealed(ctl, d, Tables) \/ Superseded(d))
-----------------------------------------------------------------------------
(* The inductive invariants behind the proofs.                              *)

(* Nothing is opened, and no run works on a day, before T24 has closed it.   *)
OnlyClosedDays ==
  /\ \A d \in Days, t \in Tables : ctl[d][t].status # "none" => d < day
  /\ (Committed \/ gate.forced) => gate.d \in Days /\ gate.d < day

(* The progress of a run's loops over the tables; a run nobody forced works  *)
(* on a day that is not all sealed.                                          *)
LoopProgress ==
  /\ gate.pc \in {"idle", "detect", "wait"} => gate.next = 1
  /\ gate.pc = "idle" => ~gate.forced
  /\ gate.pc = "wait" => \A t \in Tables : ctl[gate.d][t].status = "pending"
  /\ gate.pc = "open" => \A k \in 1..(gate.next - 1) :
                            ctl[gate.d][GateSources[k]].status = "pending"
  /\ gate.pc = "pin" => \A k \in gate.next..Len(GateSources) :
                            ctl[gate.d][GateSources[k]].status = "pending"
  /\ (Committed /\ ~gate.forced) =>
       \E t \in Tables : ctl[gate.d][t].status # "sealed"

GateShape == TypeOK /\ StreamShape /\ OnlyClosedDays /\ LoopProgress

(* A run knows the position of the marker of its day, or was forced when the *)
(* stream was past it; once it pins, every table has landed up to it.        *)
KnowsMarker ==
  \A m \in DOMAIN log :
    /\ (Committed /\ Closes(m, gate.d)) => gate.l_cob = m \/ m <= streamLsn
    /\ (gate.forced /\ Closes(m, gate.d)) => m <= streamLsn

PinsCovered ==
  gate.pc = "pin" =>
    \A m \in DOMAIN log, t \in Tables :
      Closes(m, gate.d) => LandedUpTo(bronze[t], t, m)

GateInv == GateShape /\ StreamInv /\ KnowsMarker /\ PinsCovered /\ PinnedComplete
=============================================================================
