------------------------------- MODULE Builds -------------------------------
(***************************************************************************)
(* The builds downstream of the seals: build_mart (dags/build_mart_dag.py) *)
(* rebuilds the silver table of every ENQ of a day whose sources are all   *)
(* sealed, and one DAG per domain (dags/dbt_model_cob_dag.py) rebuilds its *)
(* gold models from silver, or, in bronze mode, from the sources.          *)
(*                                                                         *)
(* cob_gate, pull_cob and sftp_hold are reduced to what they do to a       *)
(* control row: open it, load an edition of the source for the day, seal   *)
(* it; a replay does it again.  A silver or gold table is materialised     *)
(* whole (materialized='table', --full-refresh): it is what its last build *)
(* read, for whichever day that was.                                       *)
(***************************************************************************)
EXTENDS EtlControl, CobMarker

CONSTANTS
  Sources,    \* the bronze tables that some DAG seals
  CdcSources, \* those read AT SNAPSHOT; the others by business_date
  Enqs,       \* ENQ_SOURCES: the silver models
  SourceSet,  \* SourceSet[e]: source_set(e)
  Domains,    \* DOMAIN_CONFIGS
  EnqsOf,     \* EnqsOf[m]: enq_names and extra_enqs; {}: bronze mode
  DirectOf,   \* DirectOf[m]: direct_bronze_sources, in bronze mode all sources
  MaxTrouble  \* bound: failed sensors and tasks, runs triggered by hand with
              \* conf business_date, and replays of a seal, together

SilverMode(m) == EnqsOf[m] # {}
AllSources    == UNION {SourceSet[e] : e \in Enqs}

ASSUME BuildsAssumption ==
  /\ IsFiniteSet(Sources) /\ CdcSources \subseteq Sources
  /\ SourceSet \in [Enqs -> SUBSET Sources]
  /\ EnqsOf \in [Domains -> SUBSET Enqs]
  /\ DirectOf \in [Domains -> SUBSET Sources]
  /\ AllSources # {}
  /\ MaxDay \in Nat /\ MaxTrouble \in Nat
  /\ Null \notin [d : Nat, k : Nat]

VARIABLES
  ctl,      \* etl_control
  loaded,   \* loaded[d][s]: the edition of source s loaded for day d, 0: none
  enqRun,   \* etl_model_runs, layer silver
  domRun,   \* etl_model_runs, layer gold
  silver,   \* each silver table: the day it was built for and what it read
  gold,     \* each domain's gold tables: likewise
  mart,     \* the run of build_mart in progress
  div,      \* the run of each domain's DAG in progress
  trouble   \* how much of MaxTrouble is used

tables    == <<enqRun, domRun, silver, gold>>
buildVars == <<markerVars, ctl, loaded, tables, mart, div, trouble>>

Days == 1..MaxDay

(* The snapshot, or the partition, of a source for a day.                    *)
Edition(d, s) == [d |-> d, k |-> loaded[d][s]]
NoSilver == [d |-> 0, reads |-> << >>]
NoGold   == [d |-> 0, reads |-> << >>, enqs |-> << >>]
MartIdle == [pc |-> "idle", d |-> 0, forced |-> FALSE,
             step |-> [e \in Enqs |-> "over"], snaps |-> [e \in Enqs |-> << >>]]
DivIdle  == [pc |-> "idle", d |-> 0, forced |-> FALSE, snaps |-> << >>]

BuildsInit ==
  /\ MarkerInit
  /\ ctl    = [d \in Days |-> [s \in Sources |-> NoRow]]
  /\ loaded = [d \in Days |-> [s \in Sources |-> 0]]
  /\ enqRun = [d \in Days |-> [e \in Enqs |-> "none"]]
  /\ domRun = [d \in Days |-> [m \in Domains |-> "none"]]
  /\ silver = [e \in Enqs |-> NoSilver]
  /\ gold   = [m \in Domains |-> NoGold]
  /\ mart   = MartIdle
  /\ div    = [m \in Domains |-> DivIdle]
  /\ trouble = 0

-----------------------------------------------------------------------------
Troubled == trouble < MaxTrouble /\ trouble' = trouble + 1

(* T24's marker, and the DAGs that seal.                                     *)
Marker == /\ Write \/ Show
          /\ UNCHANGED <<ctl, loaded, tables, mart, div, trouble>>

(* A replay reopens a sealed row; a row that was never sealed is pending or  *)
(* absent, which no build tells apart.                                       *)
ReopenSource(d, s) ==
  /\ ctl[d][s].status = "sealed" /\ Troubled
  /\ ctl' = OpenPending(ctl, d, s, Null)
  /\ UNCHANGED <<markerVars, loaded, tables, mart, div>>

(* pin_and_seal, or write_bronze_pull and reconcile_seal.                    *)
SealSource(d, s) ==
  /\ 2 * d <= shown /\ ctl[d][s].status # "sealed"
  /\ loaded' = [loaded EXCEPT ![d][s] = @ + 1]
  /\ ctl' = Seal(ctl, d, s, IF s \in CdcSources THEN [d |-> d, k |-> loaded[d][s] + 1]
                                                ELSE Null, Null, Null)
  /\ UNCHANGED <<markerVars, tables, mart, div, trouble>>

CobDone == shown > 0 /\ shown % 2 = 0

-----------------------------------------------------------------------------
(* build_mart.                                                               *)
EnqBuilt(d, e) == enqRun[d][e] = "success"

MartForced(d) ==
  /\ mart.pc = "idle" /\ Troubled /\ 2 * d <= writes
  /\ mart' = [MartIdle EXCEPT !.pc = "gate", !.d = d, !.forced = TRUE]
  /\ UNCHANGED <<markerVars, ctl, loaded, tables, div>>

(* Mutant: a forced run skips the gate as well.                              *)
DetectUngated ==
  /\ mart.pc = IF mart.forced THEN "gate" ELSE "idle"
  /\ ~mart.forced => CobDone
  /\ LET d == IF mart.forced THEN mart.d ELSE shown \div 2 IN
       /\ ~mart.forced => (\E e \in Enqs : ~EnqBuilt(d, e)) /\ AllSealed(ctl, d, AllSources)
       /\ mart' = [mart EXCEPT !.pc = "build", !.d = d,
                               !.step = [e \in Enqs |-> "prepare"]]
  /\ UNCHANGED <<markerVars, ctl, loaded, tables, div, trouble>>

(* Mutant: a run catches up on any closed day that is not built.             *)
DetectBacklog ==
  /\ mart.pc = IF mart.forced THEN "gate" ELSE "idle"
  /\ \E d \in Days :
       /\ IF mart.forced THEN d = mart.d ELSE 2 * d <= shown /\ \E e \in Enqs : ~EnqBuilt(d, e)
       /\ AllSealed(ctl, d, AllSources)
       /\ mart' = [mart EXCEPT !.pc = "build", !.d = d,
                               !.step = [e \in Enqs |-> "prepare"]]
  /\ UNCHANGED <<markerVars, ctl, loaded, tables, div, trouble>>

(* detect_and_gate: a forced run skips the marker and the idempotence check, *)
(* not the gate.  A run whose sensor has not fired keeps nothing: the first  *)
(* step of a run is the poke that fires.                                     *)
DetectAndGate ==
  /\ mart.pc = IF mart.forced THEN "gate" ELSE "idle"
  /\ ~mart.forced => CobDone
  /\ LET d == IF mart.forced THEN mart.d ELSE shown \div 2 IN
       /\ ~mart.forced => \E e \in Enqs : ~EnqBuilt(d, e)
       /\ AllSealed(ctl, d, AllSources)
       /\ mart' = [mart EXCEPT !.pc = "build", !.d = d,
                               !.step = [e \in Enqs |-> "prepare"]]
  /\ UNCHANGED <<markerVars, ctl, loaded, tables, div, trouble>>

MartAt(e, step) == mart.pc = "build" /\ mart.step[e] = step

(* prepare_vars, skip-if-built.                                              *)
SkipEnq(e) ==
  /\ MartAt(e, "prepare") /\ ~mart.forced /\ EnqBuilt(mart.d, e)
  /\ mart' = [mart EXCEPT !.step[e] = "over"]
  /\ UNCHANGED <<markerVars, ctl, loaded, tables, div, trouble>>

(* Mutant: the day is asked from the marker again, not from the gate's xcom. *)
PrepareEnqNow(e) ==
  /\ MartAt(e, "prepare") /\ (mart.forced \/ ~EnqBuilt(mart.d, e))
  /\ enqRun' = [enqRun EXCEPT ![mart.d][e] = "running"]
  /\ mart' = [mart EXCEPT !.step[e] = "dbt",
                !.snaps[e] = SealedSnapshots(ctl, shown \div 2, SourceSet[e] \cap CdcSources)]
  /\ UNCHANGED <<markerVars, ctl, loaded, domRun, silver, gold, div, trouble>>

(* Mutant: no check of its own: one ENQ left over rebuilds them all.         *)
PrepareAnyEnq(e) ==
  /\ MartAt(e, "prepare")
  /\ enqRun' = [enqRun EXCEPT ![mart.d][e] = "running"]
  /\ mart' = [mart EXCEPT !.step[e] = "dbt",
                !.snaps[e] = SealedSnapshots(ctl, mart.d, SourceSet[e] \cap CdcSources)]
  /\ UNCHANGED <<markerVars, ctl, loaded, domRun, silver, gold, div, trouble>>

(* Mutant: an ENQ that says running is taken for one in progress.            *)
PrepareFreshEnq(e) ==
  /\ MartAt(e, "prepare") /\ (mart.forced \/ enqRun[mart.d][e] = "none")
  /\ enqRun' = [enqRun EXCEPT ![mart.d][e] = "running"]
  /\ mart' = [mart EXCEPT !.step[e] = "dbt",
                !.snaps[e] = SealedSnapshots(ctl, mart.d, SourceSet[e] \cap CdcSources)]
  /\ UNCHANGED <<markerVars, ctl, loaded, domRun, silver, gold, div, trouble>>

(* prepare_vars: start_enq_run, then the pinned snapshots of the sources.    *)
PrepareEnq(e) ==
  /\ MartAt(e, "prepare") /\ (mart.forced \/ ~EnqBuilt(mart.d, e))
  /\ enqRun' = [enqRun EXCEPT ![mart.d][e] = "running"]
  /\ mart' = [mart EXCEPT !.step[e] = "dbt",
                !.snaps[e] = SealedSnapshots(ctl, mart.d, SourceSet[e] \cap CdcSources)]
  /\ UNCHANGED <<markerVars, ctl, loaded, domRun, silver, gold, div, trouble>>

(* dbt run: var("snap_x") without a value is a compilation error; a pull or  *)
(* sftp source is read WHERE business_date = D.                              *)
HasVars(snaps, sources) == sources \cap CdcSources \subseteq DOMAIN snaps
Read(d, snaps, sources) ==
  [s \in sources |-> IF s \in CdcSources THEN snaps[s] ELSE Edition(d, s)]

DbtEnq(e) ==
  /\ MartAt(e, "dbt") /\ HasVars(mart.snaps[e], SourceSet[e])
  /\ silver' = [silver EXCEPT ![e] =
                  [d |-> mart.d, reads |-> Read(mart.d, mart.snaps[e], SourceSet[e])]]
  /\ mart' = [mart EXCEPT !.step[e] = "finish"]
  /\ UNCHANGED <<markerVars, ctl, loaded, enqRun, domRun, gold, div, trouble>>

FinishEnq(e) ==
  /\ MartAt(e, "finish")
  /\ enqRun' = [enqRun EXCEPT ![mart.d][e] = "success"]
  /\ mart' = [mart EXCEPT !.step[e] = "over", !.snaps[e] = << >>]
  /\ UNCHANGED <<markerVars, ctl, loaded, domRun, silver, gold, div, trouble>>

(* dbt run without a variable it needs.                                      *)
DbtEnqError(e) ==
  /\ MartAt(e, "dbt") /\ ~HasVars(mart.snaps[e], SourceSet[e])
  /\ mart' = [mart EXCEPT !.step[e] = "over", !.snaps[e] = << >>]
  /\ UNCHANGED <<markerVars, ctl, loaded, tables, div, trouble>>

(* A task fails or its worker is lost: the row stays running.                *)
FailEnq(e) ==
  /\ mart.pc = "build" /\ mart.step[e] # "over" /\ Troubled
  /\ mart' = [mart EXCEPT !.step[e] = "over", !.snaps[e] = << >>]
  /\ UNCHANGED <<markerVars, ctl, loaded, tables, div>>

(* The sensor of a forced run gives up.  Its timeout is hours and its poke    *)
(* minutes: it gives up on a gate that is not open.                          *)
MartTimeout ==
  /\ mart.pc = "gate" /\ ~AllSealed(ctl, mart.d, AllSources)
  /\ mart' = MartIdle
  /\ UNCHANGED <<markerVars, ctl, loaded, tables, div, trouble>>

MartEnd ==
  /\ mart.pc = "build" /\ \A e \in Enqs : mart.step[e] = "over"
  /\ mart' = MartIdle
  /\ UNCHANGED <<markerVars, ctl, loaded, tables, div, trouble>>

-----------------------------------------------------------------------------
(* The DAG of a domain.                                                      *)
DivTo(m, r) == /\ div' = [div EXCEPT ![m] = r]
               /\ UNCHANGED <<markerVars, ctl, loaded, mart>>

Built(d, m) == domRun[d][m] = "success"

DivForced(m, d) ==
  /\ div[m].pc = "idle" /\ Troubled /\ 2 * d <= writes
  /\ DivTo(m, [DivIdle EXCEPT !.pc = "gate", !.d = d, !.forced = TRUE])
  /\ UNCHANGED tables

DetectD(m) ==
  /\ div[m].pc = "idle" /\ CobDone /\ ~Built(shown \div 2, m)
  /\ DivTo(m, [div[m] EXCEPT !.pc = "gate", !.d = shown \div 2])
  /\ UNCHANGED <<tables, trouble>>

(* _gate_ready: all_enqs_built, then all_sealed; in bronze mode all_sealed.  *)
GateOpen(m) == /\ \A e \in EnqsOf[m] : EnqBuilt(div[m].d, e)
               /\ AllSealed(ctl, div[m].d, DirectOf[m])

GateReady(m) ==
  /\ div[m].pc = "gate" /\ GateOpen(m)
  /\ DivTo(m, [div[m] EXCEPT !.pc = "start"])
  /\ UNCHANGED <<tables, trouble>>

(* wait_gate gives up: its day may never be built, as when build_mart has    *)
(* moved on, and max_active_runs = 1 keeps the next day waiting behind it.   *)
GateTimeout(m) ==
  /\ div[m].pc = "gate" /\ ~GateOpen(m)
  /\ DivTo(m, DivIdle)
  /\ UNCHANGED <<tables, trouble>>

(* skip_if_built, start_model_run, and prepare_vars, which pins snapshots in *)
(* bronze mode only.  Nobody else reads or writes the domain's row.          *)
PrepareVars(m) ==
  LET d == div[m].d
      skip == ~div[m].forced /\ Built(d, m)
  IN
  /\ div[m].pc = "start"
  /\ domRun' = IF skip THEN domRun ELSE [domRun EXCEPT ![d][m] = "running"]
  /\ DivTo(m, IF skip THEN DivIdle ELSE
       [div[m] EXCEPT !.pc = "dbt", !.snaps =
          IF SilverMode(m) THEN << >>
            ELSE SealedSnapshots(ctl, d, DirectOf[m] \cap CdcSources)])
  /\ UNCHANGED <<enqRun, silver, gold, trouble>>

(* dbt run --full-refresh: the silver tables as they are now, the direct     *)
(* sources of the day.                                                       *)
DbtDomain(m) ==
  LET d == div[m].d IN
  /\ div[m].pc = "dbt" /\ HasVars(div[m].snaps, DirectOf[m])
  /\ gold' = [gold EXCEPT ![m] = [d |-> d, reads |-> Read(d, div[m].snaps, DirectOf[m]),
                                  enqs |-> [e \in EnqsOf[m] |-> silver[e].d]]]
  /\ DivTo(m, [div[m] EXCEPT !.pc = "finish"])
  /\ UNCHANGED <<enqRun, domRun, silver, trouble>>

FinishModelRun(m) ==
  /\ div[m].pc = "finish"
  /\ domRun' = [domRun EXCEPT ![div[m].d][m] = "success"]
  /\ DivTo(m, DivIdle)
  /\ UNCHANGED <<enqRun, silver, gold, trouble>>

DbtDomainError(m) ==
  /\ div[m].pc = "dbt" /\ ~HasVars(div[m].snaps, DirectOf[m])
  /\ DivTo(m, DivIdle)
  /\ UNCHANGED <<tables, trouble>>

FailDomain(m) ==
  /\ div[m].pc # "idle" /\ Troubled
  /\ DivTo(m, DivIdle)
  /\ UNCHANGED tables

-----------------------------------------------------------------------------
MartStep == \/ DetectAndGate \/ MartTimeout \/ MartEnd
            \/ \E e \in Enqs : SkipEnq(e) \/ PrepareEnq(e) \/ DbtEnq(e)
                                 \/ DbtEnqError(e) \/ FinishEnq(e)

DivStep(m) == \/ DetectD(m) \/ GateReady(m) \/ GateTimeout(m)
              \/ PrepareVars(m) \/ DbtDomain(m) \/ DbtDomainError(m) \/ FinishModelRun(m)

BuildsNext ==
  \/ Marker
  \/ \E d \in Days, s \in Sources : ReopenSource(d, s) \/ SealSource(d, s)
  \/ MartStep
  \/ \E d \in Days : MartForced(d)
  \/ \E e \in Enqs : FailEnq(e)
  \/ \E m \in Domains : DivStep(m) \/ FailDomain(m)
  \/ \E m \in Domains, d \in Days : DivForced(m, d)

BuildsSpec == BuildsInit /\ [][BuildsNext]_buildVars

(* Closed days get sealed (ClosedDayIsSealed, ClosedDayIsPulled and           *)
(* ClosedDayIsHeld), the DAGs are triggered every day, and the scheduler     *)
(* pokes their sensors and runs their ready tasks.                           *)
BuildsFairness ==
  /\ WF_shown(Show /\ UNCHANGED <<ctl, loaded, tables, mart, div, trouble>>)
  /\ WF_ctl(\E d \in Days, s \in Sources : SealSource(d, s))
  /\ WF_mart(MartStep)
  /\ \A m \in Domains : WF_div(DivStep(m))

BuildsFairSpec == BuildsSpec /\ BuildsFairness

-----------------------------------------------------------------------------
(* Properties.                                                              *)

(* A table holds one day: every bronze source was read as it was sealed for  *)
(* the day of the build, none was read live, whoever reopens rows under the  *)
(* build (REPLAY_RERUN_GUIDE.html: "đọc snapshot pinned cho D").             *)
ReadsItsDay ==
  \A table \in {silver[e] : e \in Enqs} \cup {gold[m] : m \in Domains} :
    \A s \in DOMAIN table.reads :
      table.reads[s].d = table.d /\ table.reads[s].k # 0

(* A build is recorded as a success only on top of what it needs: a gold     *)
(* success of a day has a silver build of the same day behind every ENQ, and *)
(* a silver success a load of every source, over failures and replays.       *)
SuccessHasInputs ==
  /\ \A d \in Days, e \in Enqs : EnqBuilt(d, e) => \A s \in SourceSet[e] : loaded[d][s] # 0
  /\ \A d \in Days, m \in Domains : Built(d, m) =>
       /\ \A e \in EnqsOf[m] : enqRun[d][e] # "none"
       /\ \A s \in DirectOf[m] : loaded[d][s] # 0

(* A day built with success is not built again unless somebody forces it.    *)
BuiltStays ==
  [][ /\ \A d \in Days, e \in Enqs :
           (EnqBuilt(d, e) /\ ~mart.forced) => enqRun'[d][e] = "success"
      /\ \A d \in Days, m \in Domains :
           (Built(d, m) /\ ~div[m].forced) => domRun'[d][m] = "success" ]_buildVars

(* A silver table, which keeps no history, is only put back to an earlier    *)
(* day by a forced run: the day that a run nobody forced took from the       *)
(* marker is never older than the tables it replaces, forced runs, failed    *)
(* builds and replayed seals in between.                                     *)
SilverMovesOn ==
  [][\A e \in Enqs : silver'[e].d < silver[e].d => mart.forced]_buildVars

(* A closed day comes to be built in every domain, over failed tasks and     *)
(* replayed seals, unless the next COB takes the marker first.               *)
ClosedDayIsBuilt ==
  \A d \in Days : (writes >= 2 * d) ~> \/ \A m \in Domains : Built(d, m)
                                       \/ writes > 2 * d

(* dbt_model_cob_dag.py:247: gold is the snapshot of day D.                   *)
GoldOfItsDay ==
  \A d \in Days, m \in Domains :
    (SilverMode(m) /\ Built(d, m) /\ gold[m].d = d) =>
      \A e \in EnqsOf[m] : gold[m].enqs[e] = d
=============================================================================
