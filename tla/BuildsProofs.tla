---------------------------- MODULE BuildsProofs ----------------------------
(***************************************************************************)
(* Proofs about Builds, for any sources, ENQs, domains, days, failures and *)
(* replays: a silver or gold table holds the one day it was built for, a   *)
(* success is only recorded on top of its inputs, and stays recorded; only *)
(* a forced run puts a silver table back to an earlier day.                *)
(***************************************************************************)
EXTENDS Builds, FiniteSetTheorems, TLAPS

Snap     == [d : Nat, k : Nat]
SnapMap  == UNION {[S -> Snap] : S \in SUBSET Sources}
Status   == {"none", "running", "success"}
CtlRow   == [status : {"none", "pending", "sealed"}, l_cob : {Null},
             snapshot : Snap \cup {Null}, expected : {Null}, actual : {Null}]
MartType == [pc : {"idle", "gate", "build"}, d : Nat, forced : BOOLEAN,
             step : [Enqs -> {"over", "prepare", "dbt", "finish"}], snaps : [Enqs -> SnapMap]]
DivType  == [pc : {"idle", "gate", "start", "dbt", "finish"}, d : Nat, forced : BOOLEAN,
             snaps : SnapMap]

BuildsTypeOK ==
  /\ writes \in 0..(2 * MaxDay) /\ shown \in 0..writes
  /\ ctl \in [Days -> [Sources -> CtlRow]]
  /\ loaded \in [Days -> [Sources -> Nat]]
  /\ enqRun \in [Days -> [Enqs -> Status]]
  /\ domRun \in [Days -> [Domains -> Status]]
  /\ DOMAIN silver = Enqs /\ DOMAIN gold = Domains
  /\ mart \in MartType
  /\ div \in [Domains -> DivType]

(* Snapshots, or what a table read, of day d.                                *)
OfDay(map, d) == \A s \in DOMAIN map : map[s].d = d /\ map[s].k # 0

Loaded(d, sources) == \A s \in sources : loaded[d][s] # 0

(* A sealed row has a load behind it, a pinned snapshot is one of its day.   *)
SealedIsLoaded ==
  \A d \in Days, s \in Sources :
    /\ ctl[d][s].status = "sealed" => loaded[d][s] # 0
    /\ ctl[d][s].snapshot # Null => ctl[d][s].snapshot.d = d /\ ctl[d][s].snapshot.k # 0

(* What build_mart saw at its gate stays true while it builds.               *)
MartGated ==
  /\ mart.pc # "idle" => mart.d \in Days
  /\ mart.pc # "build" => \A e \in Enqs : mart.snaps[e] = << >>
  /\ mart.pc = "build" => \A e \in Enqs : /\ Loaded(mart.d, SourceSet[e])
                                          /\ OfDay(mart.snaps[e], mart.d)

(* ... and what a domain's DAG saw.                                          *)
DivGated ==
  \A m \in Domains :
    /\ div[m].pc # "idle" => div[m].d \in Days
    /\ div[m].pc \in {"idle", "gate", "start"} => div[m].snaps = << >>
    /\ div[m].pc \in {"start", "dbt", "finish"} =>
         /\ Loaded(div[m].d, DirectOf[m])
         /\ \A e \in EnqsOf[m] : enqRun[div[m].d][e] # "none"
         /\ OfDay(div[m].snaps, div[m].d)

TablesOfDay == /\ \A e \in Enqs : OfDay(silver[e].reads, silver[e].d)
               /\ \A m \in Domains : OfDay(gold[m].reads, gold[m].d)

BuildsInv == BuildsTypeOK /\ SealedIsLoaded /\ MartGated /\ DivGated
               /\ TablesOfDay /\ SuccessHasInputs

-----------------------------------------------------------------------------
(* Facts about the operators.                                               *)

LEMMA EmptyMap ==
  /\ << >> \in SnapMap
  /\ \A d : OfDay(<< >>, d)
<1>1. << >> \in [{} -> Snap] /\ DOMAIN << >> = {}
  OBVIOUS
<1> QED BY <1>1 DEF SnapMap, OfDay

LEMMA AllSealedIsLoaded ==
  ASSUME BuildsTypeOK, SealedIsLoaded, NEW d \in Days, NEW S \in SUBSET Sources,
         AllSealed(ctl, d, S)
  PROVE  Loaded(d, S)
<1>1. IsFiniteSet(S) /\ SealedRows(ctl, d, S) \in SUBSET S
  BY BuildsAssumption, FS_Subset DEF SealedRows
<1>2. S = SealedRows(ctl, d, S)
  BY <1>1, FS_Subset DEF AllSealed
<1> QED BY <1>2 DEF SealedRows, SealedIsLoaded, Loaded

LEMMA PinnedOfDay ==
  ASSUME BuildsTypeOK, SealedIsLoaded, NEW d \in Days, NEW S \in SUBSET Sources
  PROVE  /\ SealedSnapshots(ctl, d, S) \in SnapMap
         /\ OfDay(SealedSnapshots(ctl, d, S), d)
<1> DEFINE K == {s \in SealedRows(ctl, d, S) : ctl[d][s].snapshot # Null}
<1>1. K \in SUBSET Sources
  BY DEF SealedRows
<1>2. \A s \in K : ctl[d][s].snapshot \in Snap
  <2>1. \A s \in Sources : ctl[d][s] \in CtlRow
    BY DEF BuildsTypeOK
  <2> QED BY <1>1, <2>1 DEF CtlRow
<1>3. \A s \in K : ctl[d][s].snapshot.d = d /\ ctl[d][s].snapshot.k # 0
  BY <1>1 DEF SealedIsLoaded
<1>4. SealedSnapshots(ctl, d, S) = [s \in K |-> ctl[d][s].snapshot]
  BY DEF SealedSnapshots
<1> HIDE DEF K
<1>5. SealedSnapshots(ctl, d, S) \in [K -> Snap]
  BY <1>2, <1>4
<1> QED BY <1>1, <1>3, <1>4, <1>5 DEF SnapMap, OfDay

(* A table reads the snapshots it was given and the partitions of the day.   *)
LEMMA ReadOfDay ==
  ASSUME NEW d, NEW map, NEW S, OfDay(map, d), Loaded(d, S), HasVars(map, S)
  PROVE  OfDay(Read(d, map, S), d)
BY DEF OfDay, Loaded, HasVars, Read, Edition

LEMMA ShownDay ==
  ASSUME BuildsTypeOK, CobDone
  PROVE  shown \div 2 \in Days
<1>1. writes \in 0..(2 * MaxDay) /\ shown \in 0..writes /\ MaxDay \in Nat
  BY BuildsAssumption DEF BuildsTypeOK
<1> QED BY <1>1 DEF CobDone, Days

LEMMA Subsets ==
  /\ IsFiniteSet(Sources) /\ CdcSources \in SUBSET Sources
  /\ \A e \in Enqs : SourceSet[e] \in SUBSET Sources /\ SourceSet[e] \subseteq AllSources
  /\ AllSources \in SUBSET Sources
  /\ \A m \in Domains : EnqsOf[m] \in SUBSET Enqs /\ DirectOf[m] \in SUBSET Sources
BY BuildsAssumption DEF AllSources

LEMMA IdleTypes == MartIdle \in MartType /\ DivIdle \in DivType
BY EmptyMap DEF MartIdle, DivIdle, MartType, DivType

-----------------------------------------------------------------------------
LEMMA BuildsInitInv == BuildsInit => BuildsInv
<1> SUFFICES ASSUME BuildsInit PROVE BuildsInv
  OBVIOUS
<1>1. writes = 0 /\ shown = 0 /\ mart = MartIdle /\ MaxDay \in Nat
  BY BuildsAssumption DEF BuildsInit, MarkerInit
<1>2. ctl \in [Days -> [Sources -> CtlRow]]
  <2>1. NoRow \in CtlRow
    BY DEF NoRow, CtlRow
  <2> QED BY <2>1 DEF BuildsInit
<1>3. /\ loaded \in [Days -> [Sources -> Nat]]
      /\ enqRun \in [Days -> [Enqs -> Status]] /\ domRun \in [Days -> [Domains -> Status]]
      /\ DOMAIN silver = Enqs /\ DOMAIN gold = Domains
      /\ div \in [Domains -> DivType]
  BY IdleTypes DEF BuildsInit, Status
<1>4. BuildsTypeOK
  BY <1>1, <1>2, <1>3, IdleTypes DEF BuildsTypeOK
<1>5. SealedIsLoaded
  BY DEF BuildsInit, NoRow, SealedIsLoaded
<1>6. MartGated
  BY <1>1 DEF MartIdle, MartGated
<1>7. DivGated
  BY DEF BuildsInit, DivIdle, DivGated
<1>8. TablesOfDay
  BY EmptyMap DEF BuildsInit, NoSilver, NoGold, TablesOfDay
<1>9. SuccessHasInputs
  BY DEF BuildsInit, SuccessHasInputs, EnqBuilt, Built
<1> QED BY <1>4, <1>5, <1>6, <1>7, <1>8, <1>9 DEF BuildsInv

(* Loads are added and a build that was started stays known: what was        *)
(* checked at a gate remains true.                                           *)
LEMMA GrowStep ==
  ASSUME BuildsInv, UNCHANGED <<enqRun, tables, mart, div>>,
         writes' \in 0..(2 * MaxDay), shown' \in 0..writes',
         ctl' \in [Days -> [Sources -> CtlRow]], loaded' \in [Days -> [Sources -> Nat]],
         \A d \in Days, s \in Sources : loaded[d][s] # 0 => loaded'[d][s] # 0,
         SealedIsLoaded'
  PROVE  BuildsInv'
<1> USE DEF BuildsInv
<1>1. BuildsTypeOK'
  BY DEF BuildsTypeOK, tables
<1>2. \A d \in Days, S \in SUBSET Sources : Loaded(d, S) => Loaded(d, S)'
  BY DEF Loaded
<1>3. MartGated'
  <2>1. \A e \in Enqs : SourceSet[e] \in SUBSET Sources
    BY Subsets
  <2>2. \A e \in Enqs : mart.pc = "build" => Loaded(mart.d, SourceSet[e])'
    BY <1>2, <2>1 DEF MartGated
  <2> QED BY <2>2 DEF MartGated, OfDay
<1>4. DivGated'
  <2>1. \A m \in Domains : DirectOf[m] \in SUBSET Sources
    BY Subsets
  <2>2. \A m \in Domains : div[m].pc \in {"start", "dbt", "finish"} =>
                             Loaded(div[m].d, DirectOf[m])'
    BY <1>2, <2>1 DEF DivGated
  <2> QED BY <2>2 DEF DivGated, OfDay
<1>5. TablesOfDay'
  BY DEF TablesOfDay, OfDay, tables
<1>6. SuccessHasInputs'
  BY Subsets DEF SuccessHasInputs, EnqBuilt, Built, tables
<1> QED BY <1>1, <1>3, <1>4, <1>5, <1>6

LEMMA MarkerInv == BuildsInv /\ Marker => BuildsInv'
<1> SUFFICES ASSUME BuildsInv, Marker PROVE BuildsInv'
  OBVIOUS
<1>1. UNCHANGED <<ctl, loaded, enqRun, tables, mart, div>>
  BY DEF Marker, tables
<1>2. writes \in 0..(2 * MaxDay) /\ shown \in 0..writes /\ MaxDay \in Nat
  BY BuildsAssumption DEF BuildsInv, BuildsTypeOK
<1>3. writes' \in 0..(2 * MaxDay) /\ shown' \in 0..writes'
  BY <1>2 DEF Marker, Write, Show
<1>4. /\ ctl' \in [Days -> [Sources -> CtlRow]] /\ loaded' \in [Days -> [Sources -> Nat]]
      /\ \A d \in Days, s \in Sources : loaded[d][s] # 0 => loaded'[d][s] # 0
      /\ SealedIsLoaded'
  BY <1>1 DEF BuildsInv, BuildsTypeOK, SealedIsLoaded
<1> QED BY <1>1, <1>3, <1>4, GrowStep

LEMMA ReopenInv ==
  ASSUME BuildsInv, NEW d \in Days, NEW s \in Sources, ReopenSource(d, s)
  PROVE  BuildsInv'
<1> DEFINE row == [ctl[d][s] EXCEPT !.status = "pending",
                                    !.l_cob = COALESCE(Null, ctl[d][s].l_cob)]
<1>1. UNCHANGED <<writes, shown, loaded, enqRun, tables, mart, div>>
  BY DEF ReopenSource, tables, markerVars
<1>2. ctl[d][s] \in CtlRow /\ ctl \in [Days -> [Sources -> CtlRow]]
  BY DEF BuildsInv, BuildsTypeOK
<1>3. row \in CtlRow /\ row.status = "pending" /\ row.snapshot = ctl[d][s].snapshot
  BY <1>2 DEF CtlRow, COALESCE
<1>4. ctl' = [ctl EXCEPT ![d][s] = row]
  BY DEF ReopenSource, OpenPending
<1> HIDE DEF row
<1>5. ctl' \in [Days -> [Sources -> CtlRow]]
  BY <1>2, <1>3, <1>4
<1>6. SealedIsLoaded'
  BY <1>1, <1>2, <1>3, <1>4 DEF BuildsInv, SealedIsLoaded
<1>7. /\ writes' \in 0..(2 * MaxDay) /\ shown' \in 0..writes'
      /\ loaded' \in [Days -> [Sources -> Nat]]
      /\ \A e \in Days, u \in Sources : loaded[e][u] # 0 => loaded'[e][u] # 0
  BY <1>1 DEF BuildsInv, BuildsTypeOK
<1> QED BY <1>1, <1>5, <1>6, <1>7, GrowStep

LEMMA SealInv ==
  ASSUME BuildsInv, NEW d \in Days, NEW s \in Sources, SealSource(d, s)
  PROVE  BuildsInv'
<1> DEFINE new == [d |-> d, k |-> loaded[d][s] + 1]
           snap == IF s \in CdcSources THEN new ELSE Null
           row == [ctl[d][s] EXCEPT !.status   = "sealed",
                                    !.snapshot = COALESCE(snap, ctl[d][s].snapshot),
                                    !.expected = COALESCE(Null, ctl[d][s].expected),
                                    !.actual   = COALESCE(Null, ctl[d][s].actual)]
<1>1. UNCHANGED <<writes, shown, enqRun, tables, mart, div>>
  BY DEF SealSource, tables, markerVars
<1>2. /\ ctl[d][s] \in CtlRow /\ ctl \in [Days -> [Sources -> CtlRow]]
      /\ loaded \in [Days -> [Sources -> Nat]] /\ loaded[d][s] \in Nat /\ d \in Nat
  BY DEF BuildsInv, BuildsTypeOK, Days
<1>3. new \in Snap /\ new # Null /\ new.d = d /\ new.k # 0
  BY <1>2, BuildsAssumption DEF Snap
<1> HIDE DEF new
<1>4. \/ COALESCE(snap, ctl[d][s].snapshot) = new
      \/ COALESCE(snap, ctl[d][s].snapshot) = ctl[d][s].snapshot
  BY <1>3 DEF COALESCE
<1>5. ctl' = [ctl EXCEPT ![d][s] = row]
  BY DEF SealSource, Seal, new
<1> HIDE DEF snap
<1>6. /\ row \in CtlRow
      /\ row.snapshot = new \/ row.snapshot = ctl[d][s].snapshot
  <2>1. COALESCE(snap, ctl[d][s].snapshot) \in Snap \cup {Null}
    BY <1>2, <1>3, <1>4 DEF CtlRow
  <2>2. COALESCE(Null, ctl[d][s].expected) = Null /\ COALESCE(Null, ctl[d][s].actual) = Null
    BY <1>2 DEF COALESCE, CtlRow
  <2> QED BY <1>2, <1>4, <2>1, <2>2 DEF CtlRow
<1> HIDE DEF row
<1>7. loaded' = [loaded EXCEPT ![d][s] = loaded[d][s] + 1]
  BY DEF SealSource
<1>8. /\ loaded' \in [Days -> [Sources -> Nat]] /\ loaded'[d][s] # 0
      /\ \A e \in Days, u \in Sources : loaded[e][u] # 0 => loaded'[e][u] # 0
  BY <1>2, <1>7
<1>9. /\ ctl' \in [Days -> [Sources -> CtlRow]] /\ ctl'[d][s] = row
      /\ \A e \in Days, u \in Sources : <<e, u>> # <<d, s>> => ctl'[e][u] = ctl[e][u]
  BY <1>2, <1>5, <1>6
<1>10. SealedIsLoaded'
  <2>1. ASSUME NEW e \in Days, NEW u \in Sources
        PROVE  /\ ctl'[e][u].status = "sealed" => loaded'[e][u] # 0
               /\ ctl'[e][u].snapshot # Null =>
                    ctl'[e][u].snapshot.d = e /\ ctl'[e][u].snapshot.k # 0
    <3>1. CASE e = d /\ u = s
      BY <1>3, <1>6, <1>8, <1>9, <3>1 DEF BuildsInv, SealedIsLoaded
    <3>2. CASE ~(e = d /\ u = s)
      BY <1>8, <1>9, <3>2 DEF BuildsInv, SealedIsLoaded
    <3> QED BY <3>1, <3>2
  <2> QED BY <2>1 DEF SealedIsLoaded
<1>11. writes' \in 0..(2 * MaxDay) /\ shown' \in 0..writes'
  BY <1>1 DEF BuildsInv, BuildsTypeOK
<1> QED BY <1>1, <1>8, <1>9, <1>10, <1>11, GrowStep

-----------------------------------------------------------------------------
(* build_mart.                                                               *)

(* What a step of build_mart leaves alone, and what it must show.            *)
LEMMA MartFrame ==
  ASSUME BuildsInv, UNCHANGED <<writes, shown, ctl, loaded, domRun, gold, div>>,
         mart' \in MartType, MartGated',
         enqRun' \in [Days -> [Enqs -> Status]],
         \A d \in Days, e \in Enqs : enqRun[d][e] # "none" => enqRun'[d][e] # "none",
         \A d \in Days, e \in Enqs :
           enqRun'[d][e] = "success" => enqRun[d][e] = "success" \/ Loaded(d, SourceSet[e]),
         DOMAIN silver' = Enqs,
         \A e \in Enqs : OfDay(silver'[e].reads, silver'[e].d)
  PROVE  BuildsInv'
<1> USE DEF BuildsInv
<1>1. BuildsTypeOK'
  BY DEF BuildsTypeOK
<1>2. SealedIsLoaded'
  BY DEF SealedIsLoaded
<1>3. DivGated'
  <2>1. \A m \in Domains : EnqsOf[m] \in SUBSET Enqs
    BY Subsets
  <2> QED BY <2>1 DEF DivGated, Loaded, OfDay
<1>4. TablesOfDay'
  BY DEF TablesOfDay, OfDay
<1>5. SuccessHasInputs'
  <2>1. \A m \in Domains : EnqsOf[m] \in SUBSET Enqs
    BY Subsets
  <2> QED BY <2>1 DEF SuccessHasInputs, EnqBuilt, Built, Loaded
<1> QED BY <1>1, <1>2, <1>3, <1>4, <1>5

(* The table of runs and the silver tables are left alone.                   *)
LEMMA MartQuiet ==
  ASSUME BuildsInv, UNCHANGED <<writes, shown, ctl, loaded, enqRun, domRun, silver, gold, div>>,
         mart' \in MartType, MartGated'
  PROVE  BuildsInv'
<1>1. /\ enqRun' \in [Days -> [Enqs -> Status]] /\ DOMAIN silver' = Enqs
      /\ \A e \in Enqs : OfDay(silver'[e].reads, silver'[e].d)
  BY DEF BuildsInv, BuildsTypeOK, TablesOfDay, OfDay
<1> QED BY <1>1, MartFrame

(* A run that ends, or has its sensor give up.                               *)
LEMMA MartIdleGated == mart' = MartIdle => mart' \in MartType /\ MartGated'
BY IdleTypes DEF MartIdle, MartGated

LEMMA MartRunInv ==
  ASSUME BuildsInv,
         DetectAndGate \/ MartTimeout \/ MartEnd \/ \E d \in Days : MartForced(d)
  PROVE  BuildsInv'
<1>1. UNCHANGED <<writes, shown, ctl, loaded, enqRun, domRun, silver, gold, div>>
  BY DEF DetectAndGate, MartTimeout, MartEnd, MartForced, tables, markerVars
<1>2. CASE MartTimeout \/ MartEnd
  BY <1>1, <1>2, MartIdleGated, MartQuiet DEF MartTimeout, MartEnd
<1>3. ASSUME NEW d \in Days, MartForced(d) PROVE BuildsInv'
  <2>0. d \in Nat
    BY BuildsAssumption DEF Days
  <2>1. mart' = [MartIdle EXCEPT !.pc = "gate", !.d = d, !.forced = TRUE]
    BY <1>3 DEF MartForced
  <2>2. MartIdle.snaps = [e \in Enqs |-> << >>]
    BY DEF MartIdle
  <2>3. mart' \in MartType /\ mart'.pc = "gate" /\ mart'.d = d /\ mart'.snaps = MartIdle.snaps
    BY <2>0, <2>1, IdleTypes DEF MartType
  <2>4. MartGated'
    BY <2>2, <2>3 DEF MartGated
  <2> QED BY <1>1, <2>3, <2>4, MartQuiet
<1>4. CASE DetectAndGate
  <2>1. PICK d \in Days : /\ AllSealed(ctl, d, AllSources)
                          /\ mart' = [mart EXCEPT !.pc = "build", !.d = d,
                                                  !.step = [e \in Enqs |-> "prepare"]]
    <3> DEFINE d == IF mart.forced THEN mart.d ELSE shown \div 2
    <3>1. /\ AllSealed(ctl, d, AllSources)
          /\ mart' = [mart EXCEPT !.pc = "build", !.d = d,
                                  !.step = [e \in Enqs |-> "prepare"]]
      BY <1>4 DEF DetectAndGate
    <3>2. d \in Days
      <4>1. CASE mart.forced
        BY <1>4, <4>1 DEF DetectAndGate, BuildsInv, MartGated
      <4>2. CASE ~mart.forced
        BY <1>4, <4>2, ShownDay DEF DetectAndGate, BuildsInv
      <4> QED BY <4>1, <4>2
    <3> QED BY <3>1, <3>2
  <2>2. mart \in MartType /\ d \in Nat /\ mart.pc # "build"
    BY <1>4 DEF DetectAndGate, BuildsInv, BuildsTypeOK, Days
  <2>3. /\ mart' \in MartType /\ mart'.pc = "build" /\ mart'.d = d
        /\ mart'.snaps = mart.snaps
    BY <2>1, <2>2 DEF MartType
  <2>4. \A e \in Enqs : mart'.snaps[e] = << >>
    BY <2>2, <2>3 DEF BuildsInv, MartGated
  <2>5. \A e \in Enqs : Loaded(d, SourceSet[e])
    <3>1. Loaded(d, AllSources)
      BY <2>1, Subsets, AllSealedIsLoaded DEF BuildsInv
    <3> QED BY <3>1, Subsets DEF Loaded
  <2>6. MartGated'
    <3>1. \A e \in Enqs : Loaded(d, SourceSet[e])' /\ OfDay(mart.snaps[e], d)'
      BY <1>1, <2>3, <2>4, <2>5, EmptyMap DEF Loaded, OfDay
    <3> QED BY <2>3, <3>1 DEF MartGated, Loaded, OfDay
  <2> QED BY <1>1, <2>3, <2>6, MartQuiet
<1> QED BY <1>2, <1>3, <1>4

(* A step of one ENQ's chain.                                                *)
EnqMoves(e) ==
  /\ mart' \in MartType
  /\ mart'.pc = mart.pc /\ mart'.d = mart.d
  /\ OfDay(mart'.snaps[e], mart.d)
  /\ \A u \in Enqs \ {e} : mart'.snaps[u] = mart.snaps[u]

LEMMA EnqGated ==
  ASSUME BuildsInv, UNCHANGED loaded, mart.pc = "build", NEW e \in Enqs, EnqMoves(e)
  PROVE  MartGated'
<1>1. \A u \in Enqs : OfDay(mart'.snaps[u], mart'.d)
  BY DEF BuildsInv, MartGated, EnqMoves
<1>2. \A u \in Enqs : Loaded(mart'.d, SourceSet[u])
  BY DEF BuildsInv, MartGated, EnqMoves
<1>3. mart'.pc = "build" /\ mart'.d \in Days
  BY DEF BuildsInv, MartGated, EnqMoves
<1> QED BY <1>1, <1>2, <1>3 DEF MartGated, OfDay, Loaded

(* An ENQ is over: built already, not compiled, or failed.                   *)
LEMMA EnqOverInv ==
  ASSUME BuildsInv, NEW e \in Enqs, SkipEnq(e) \/ DbtEnqError(e) \/ FailEnq(e)
  PROVE  BuildsInv'
<1>1. UNCHANGED <<writes, shown, ctl, loaded, enqRun, domRun, silver, gold, div>>
  BY DEF SkipEnq, DbtEnqError, FailEnq, tables, markerVars
<1>2. mart.pc = "build" /\ mart \in MartType
  BY DEF SkipEnq, DbtEnqError, FailEnq, MartAt, BuildsInv, BuildsTypeOK
<1>3. EnqMoves(e)
  <2>1. CASE SkipEnq(e)
    <3>1. mart' = [mart EXCEPT !.step[e] = "over"]
      BY <2>1 DEF SkipEnq
    <3>2. OfDay(mart.snaps[e], mart.d)
      BY <1>2 DEF BuildsInv, MartGated
    <3> QED BY <1>2, <3>1, <3>2 DEF MartType, EnqMoves
  <2>2. CASE DbtEnqError(e) \/ FailEnq(e)
    <3>1. mart' = [mart EXCEPT !.step[e] = "over", !.snaps[e] = << >>]
      BY <2>2 DEF DbtEnqError, FailEnq
    <3>2. << >> \in SnapMap /\ OfDay(<< >>, mart.d)
      BY EmptyMap
    <3>3. mart' \in MartType /\ mart'.pc = mart.pc /\ mart'.d = mart.d /\ mart'.snaps[e] = << >>
          /\ \A u \in Enqs \ {e} : mart'.snaps[u] = mart.snaps[u]
      BY <1>2, <3>1, <3>2 DEF MartType
    <3> QED BY <3>2, <3>3 DEF EnqMoves
  <2> QED BY <2>1, <2>2
<1> QED BY <1>1, <1>2, <1>3, EnqGated, MartQuiet DEF EnqMoves

LEMMA PrepareEnqInv ==
  ASSUME BuildsInv, NEW e \in Enqs, PrepareEnq(e)
  PROVE  BuildsInv'
<1> DEFINE S == SourceSet[e] \cap CdcSources
           map == SealedSnapshots(ctl, mart.d, S)
<1>1. UNCHANGED <<writes, shown, ctl, loaded, domRun, silver, gold, div>>
  BY DEF PrepareEnq, markerVars
<1>2. mart.pc = "build" /\ mart \in MartType /\ mart.d \in Days
  BY DEF PrepareEnq, MartAt, BuildsInv, BuildsTypeOK, MartGated
<1>3. S \in SUBSET Sources
  BY Subsets
<1>4. map \in SnapMap /\ OfDay(map, mart.d)
  BY <1>2, <1>3, PinnedOfDay DEF BuildsInv
<1>5. mart' = [mart EXCEPT !.step[e] = "dbt", !.snaps[e] = map]
  BY DEF PrepareEnq
<1>6. enqRun' = [enqRun EXCEPT ![mart.d][e] = "running"]
  BY DEF PrepareEnq
<1> HIDE DEF map, S
<1>7. EnqMoves(e)
  <2>1. mart' \in MartType /\ mart'.pc = mart.pc /\ mart'.d = mart.d /\ mart'.snaps[e] = map
        /\ \A u \in Enqs \ {e} : mart'.snaps[u] = mart.snaps[u]
    BY <1>2, <1>4, <1>5 DEF MartType
  <2> QED BY <1>4, <2>1 DEF EnqMoves
<1>8. /\ enqRun' \in [Days -> [Enqs -> Status]]
      /\ \A d \in Days, u \in Enqs : enqRun[d][u] # "none" => enqRun'[d][u] # "none"
      /\ \A d \in Days, u \in Enqs : enqRun'[d][u] = "success" => enqRun[d][u] = "success"
  BY <1>2, <1>6 DEF BuildsInv, BuildsTypeOK, Status
<1>9. /\ DOMAIN silver' = Enqs
      /\ \A u \in Enqs : OfDay(silver'[u].reads, silver'[u].d)
  BY <1>1 DEF BuildsInv, BuildsTypeOK, TablesOfDay, OfDay
<1> QED BY <1>1, <1>2, <1>7, <1>8, <1>9, EnqGated, MartFrame DEF EnqMoves

LEMMA DbtEnqInv ==
  ASSUME BuildsInv, NEW e \in Enqs, DbtEnq(e)
  PROVE  BuildsInv'
<1> DEFINE new == [d |-> mart.d, reads |-> Read(mart.d, mart.snaps[e], SourceSet[e])]
<1>1. UNCHANGED <<writes, shown, ctl, loaded, enqRun, domRun, gold, div>>
  BY DEF DbtEnq, markerVars
<1>2. mart.pc = "build" /\ mart \in MartType
  BY DEF DbtEnq, MartAt, BuildsInv, BuildsTypeOK
<1>3. OfDay(mart.snaps[e], mart.d) /\ Loaded(mart.d, SourceSet[e])
  BY <1>2 DEF BuildsInv, MartGated
<1>4. HasVars(mart.snaps[e], SourceSet[e])
  BY DEF DbtEnq
<1>5. OfDay(new.reads, new.d)
  BY <1>3, <1>4, ReadOfDay
<1>6. silver' = [silver EXCEPT ![e] = new] /\ mart' = [mart EXCEPT !.step[e] = "finish"]
  BY DEF DbtEnq
<1> HIDE DEF new
<1>7. EnqMoves(e)
  BY <1>2, <1>3, <1>6 DEF MartType, EnqMoves
<1>8. DOMAIN silver = Enqs /\ \A u \in Enqs : OfDay(silver[u].reads, silver[u].d)
  BY DEF BuildsInv, BuildsTypeOK, TablesOfDay
<1>9. DOMAIN silver' = Enqs /\ \A u \in Enqs : silver'[u] = IF u = e THEN new ELSE silver[u]
  BY <1>6, <1>8
<1>10. \A u \in Enqs : OfDay(silver'[u].reads, silver'[u].d)
  BY <1>5, <1>8, <1>9
<1>11. enqRun' \in [Days -> [Enqs -> Status]]
  BY <1>1 DEF BuildsInv, BuildsTypeOK
<1> QED BY <1>1, <1>2, <1>7, <1>9, <1>10, <1>11, EnqGated, MartFrame DEF EnqMoves

LEMMA FinishEnqInv ==
  ASSUME BuildsInv, NEW e \in Enqs, FinishEnq(e)
  PROVE  BuildsInv'
<1>1. UNCHANGED <<writes, shown, ctl, loaded, domRun, silver, gold, div>>
  BY DEF FinishEnq, markerVars
<1>2. mart.pc = "build" /\ mart \in MartType /\ mart.d \in Days
  BY DEF FinishEnq, MartAt, BuildsInv, BuildsTypeOK, MartGated
<1>3. Loaded(mart.d, SourceSet[e])
  BY <1>2 DEF BuildsInv, MartGated
<1>4. /\ enqRun' = [enqRun EXCEPT ![mart.d][e] = "success"]
      /\ mart' = [mart EXCEPT !.step[e] = "over", !.snaps[e] = << >>]
  BY DEF FinishEnq
<1>5. EnqMoves(e)
  <2>1. << >> \in SnapMap /\ OfDay(<< >>, mart.d)
    BY EmptyMap
  <2>2. mart' \in MartType /\ mart'.pc = mart.pc /\ mart'.d = mart.d /\ mart'.snaps[e] = << >>
        /\ \A u \in Enqs \ {e} : mart'.snaps[u] = mart.snaps[u]
    BY <1>2, <1>4, <2>1 DEF MartType
  <2> QED BY <2>1, <2>2 DEF EnqMoves
<1>6. /\ enqRun' \in [Days -> [Enqs -> Status]]
      /\ \A d \in Days, u \in Enqs : enqRun[d][u] # "none" => enqRun'[d][u] # "none"
      /\ \A d \in Days, u \in Enqs : enqRun'[d][u] = "success" =>
           enqRun[d][u] = "success" \/ (d = mart.d /\ u = e)
  BY <1>2, <1>4 DEF BuildsInv, BuildsTypeOK, Status
<1>7. /\ DOMAIN silver' = Enqs
      /\ \A u \in Enqs : OfDay(silver'[u].reads, silver'[u].d)
  BY <1>1 DEF BuildsInv, BuildsTypeOK, TablesOfDay, OfDay
<1>8. \A d \in Days, u \in Enqs :
        enqRun'[d][u] = "success" => enqRun[d][u] = "success" \/ Loaded(d, SourceSet[u])
  BY <1>3, <1>6
<1> QED BY <1>1, <1>2, <1>5, <1>6, <1>7, <1>8, EnqGated, MartFrame DEF EnqMoves

-----------------------------------------------------------------------------
(* The DAG of a domain.                                                      *)

DivGatedAt(m, r, sources) ==
  /\ r.pc # "idle" => r.d \in Days
  /\ r.pc \in {"idle", "gate", "start"} => r.snaps = << >>
  /\ r.pc \in {"start", "dbt", "finish"} =>
       /\ Loaded(r.d, sources)
       /\ \A e \in EnqsOf[m] : enqRun[r.d][e] # "none"
       /\ OfDay(r.snaps, r.d)

LEMMA DivFrame ==
  ASSUME BuildsInv, UNCHANGED <<writes, shown, ctl, loaded, enqRun, silver, mart>>,
         NEW m \in Domains, NEW r \in DivType, div' = [div EXCEPT ![m] = r],
         DivGatedAt(m, r, DirectOf[m]),
         domRun' \in [Days -> [Domains -> Status]],
         \A d \in Days, n \in Domains : domRun'[d][n] = "success" =>
           \/ domRun[d][n] = "success"
           \/ n = m /\ Loaded(d, DirectOf[m]) /\ \A e \in EnqsOf[m] : enqRun[d][e] # "none",
         DOMAIN gold' = Domains,
         \A n \in Domains : OfDay(gold'[n].reads, gold'[n].d)
  PROVE  BuildsInv'
<1> USE DEF BuildsInv
<1>0. div \in [Domains -> DivType]
  BY DEF BuildsTypeOK
<1>1. div' \in [Domains -> DivType] /\ \A n \in Domains : div'[n] = IF n = m THEN r ELSE div[n]
  BY <1>0
<1>2. BuildsTypeOK'
  BY <1>1 DEF BuildsTypeOK
<1>3. SealedIsLoaded'
  BY DEF SealedIsLoaded
<1>4. MartGated'
  BY DEF MartGated, OfDay, Loaded
<1>5. DivGated'
  <2>1. \A n \in Domains : DivGatedAt(n, div[n], DirectOf[n])
    BY DEF DivGated, DivGatedAt
  <2>2. \A n \in Domains : DivGatedAt(n, div'[n], DirectOf[n])
    BY <1>1, <2>1
  <2> QED BY <2>2 DEF DivGated, DivGatedAt, Loaded, OfDay
<1>6. TablesOfDay'
  BY DEF TablesOfDay, OfDay
<1>7. SuccessHasInputs'
  BY DEF SuccessHasInputs, EnqBuilt, Built, Loaded
<1> QED BY <1>2, <1>3, <1>4, <1>5, <1>6, <1>7

LEMMA DivQuiet ==
  ASSUME BuildsInv, UNCHANGED <<enqRun, domRun, silver, gold>>,
         NEW m \in Domains, NEW r \in DivType, DivTo(m, r), DivGatedAt(m, r, DirectOf[m])
  PROVE  BuildsInv'
<1>1. UNCHANGED <<writes, shown, ctl, loaded, mart>> /\ div' = [div EXCEPT ![m] = r]
  BY DEF DivTo, markerVars
<1>2. /\ domRun' \in [Days -> [Domains -> Status]] /\ DOMAIN gold' = Domains
      /\ \A n \in Domains : OfDay(gold'[n].reads, gold'[n].d)
  BY DEF BuildsInv, BuildsTypeOK, TablesOfDay, OfDay
<1> QED BY <1>1, <1>2, DivFrame

LEMMA DivIdleGated == \A m \in Domains, S \in SUBSET Sources : DivGatedAt(m, DivIdle, S)
BY DEF DivIdle, DivGatedAt

(* The run ends without a success.                                           *)
LEMMA DivOverInv ==
  ASSUME BuildsInv, NEW m \in Domains, GateTimeout(m) \/ DbtDomainError(m) \/ FailDomain(m)
  PROVE  BuildsInv'
<1>1. DivTo(m, DivIdle) /\ UNCHANGED <<enqRun, domRun, silver, gold>>
  BY DEF GateTimeout, DbtDomainError, FailDomain, tables
<1>2. DivIdle \in DivType /\ DivGatedAt(m, DivIdle, DirectOf[m])
  BY IdleTypes, DivIdleGated, Subsets
<1> QED BY <1>1, <1>2, DivQuiet

LEMMA DivForcedInv ==
  ASSUME BuildsInv, NEW m \in Domains, NEW d \in Days, DivForced(m, d)
  PROVE  BuildsInv'
<1> DEFINE r == [DivIdle EXCEPT !.pc = "gate", !.d = d, !.forced = TRUE]
<1>1. DivTo(m, r) /\ UNCHANGED <<enqRun, domRun, silver, gold>>
  BY DEF DivForced, tables
<1>2. d \in Nat
  BY BuildsAssumption DEF Days
<1>3. DivIdle.snaps = << >>
  BY DEF DivIdle
<1>4. r \in DivType /\ r.pc = "gate" /\ r.d = d /\ r.snaps = << >>
  BY <1>2, <1>3, IdleTypes DEF DivType
<1> HIDE DEF r
<1>5. DivGatedAt(m, r, DirectOf[m])
  BY <1>4 DEF DivGatedAt
<1> QED BY <1>1, <1>4, <1>5, DivQuiet

LEMMA DetectDInv ==
  ASSUME BuildsInv, NEW m \in Domains, DetectD(m)
  PROVE  BuildsInv'
<1> DEFINE d == shown \div 2
           r == [div[m] EXCEPT !.pc = "gate", !.d = d]
<1>1. DivTo(m, r) /\ UNCHANGED <<enqRun, domRun, silver, gold>>
  BY DEF DetectD, tables
<1>2. d \in Days
  BY ShownDay DEF DetectD, BuildsInv
<1> HIDE DEF d
<1>3. d \in Nat
  BY <1>2, BuildsAssumption DEF Days
<1>4. div[m] \in DivType /\ div[m].snaps = << >>
  BY DEF DetectD, BuildsInv, BuildsTypeOK, DivGated
<1>5. r \in DivType /\ r.pc = "gate" /\ r.d = d /\ r.snaps = << >>
  BY <1>3, <1>4 DEF DivType
<1> HIDE DEF r
<1>6. DivGatedAt(m, r, DirectOf[m])
  BY <1>2, <1>5 DEF DivGatedAt
<1> QED BY <1>1, <1>5, <1>6, DivQuiet

LEMMA GateReadyInv ==
  ASSUME BuildsInv, NEW m \in Domains, GateReady(m)
  PROVE  BuildsInv'
<1> DEFINE r == [div[m] EXCEPT !.pc = "start"]
<1>1. DivTo(m, r) /\ UNCHANGED <<enqRun, domRun, silver, gold>>
  BY DEF GateReady, tables
<1>2. div[m] \in DivType /\ div[m].snaps = << >> /\ div[m].d \in Days
  BY DEF GateReady, BuildsInv, BuildsTypeOK, DivGated
<1>3. r \in DivType /\ r.pc = "start" /\ r.d = div[m].d /\ r.snaps = << >>
  BY <1>2 DEF DivType
<1> HIDE DEF r
<1>4. Loaded(r.d, DirectOf[m])
  BY <1>2, <1>3, Subsets, AllSealedIsLoaded DEF GateReady, GateOpen, BuildsInv
<1>5. \A e \in EnqsOf[m] : enqRun[r.d][e] # "none"
  BY <1>3 DEF GateReady, GateOpen, EnqBuilt
<1>6. OfDay(r.snaps, r.d)
  BY <1>3, EmptyMap
<1>7. DivGatedAt(m, r, DirectOf[m])
  BY <1>2, <1>3, <1>4, <1>5, <1>6 DEF DivGatedAt
<1> QED BY <1>1, <1>3, <1>7, DivQuiet

LEMMA PrepareVarsInv ==
  ASSUME BuildsInv, NEW m \in Domains, PrepareVars(m)
  PROVE  BuildsInv'
<1> DEFINE d == div[m].d
           skip == ~div[m].forced /\ Built(d, m)
           pinned == SealedSnapshots(ctl, d, DirectOf[m] \cap CdcSources)
           map == IF SilverMode(m) THEN << >> ELSE pinned
           r == IF skip THEN DivIdle ELSE [div[m] EXCEPT !.pc = "dbt", !.snaps = map]
<1>1. /\ DivTo(m, r) /\ UNCHANGED <<enqRun, silver, gold>>
      /\ div[m].pc = "start"
      /\ domRun' = IF skip THEN domRun ELSE [domRun EXCEPT ![d][m] = "running"]
  BY DEF PrepareVars
<1>2. /\ div[m] \in DivType /\ d \in Days
      /\ Loaded(d, DirectOf[m]) /\ \A e \in EnqsOf[m] : enqRun[d][e] # "none"
  BY <1>1 DEF BuildsInv, BuildsTypeOK, DivGated
<1>3. map \in SnapMap /\ OfDay(map, d)
  <2>1. DirectOf[m] \cap CdcSources \in SUBSET Sources
    BY Subsets
  <2>2. pinned \in SnapMap /\ OfDay(pinned, d)
    BY <1>2, <2>1, PinnedOfDay DEF BuildsInv
  <2> QED BY <2>2, EmptyMap
<1> HIDE DEF map, skip
<1>4. r \in DivType /\ DivGatedAt(m, r, DirectOf[m])
  <2>1. CASE skip
    <3>1. r = DivIdle /\ DirectOf[m] \in SUBSET Sources
      BY <2>1, Subsets
    <3> QED BY <3>1, IdleTypes, DivIdleGated
  <2>2. CASE ~skip
    <3>1. r = [div[m] EXCEPT !.pc = "dbt", !.snaps = map]
      BY <2>2
    <3> HIDE DEF r
    <3>2. r \in DivType /\ r.pc = "dbt" /\ r.d = d /\ r.snaps = map
      BY <1>2, <1>3, <3>1 DEF DivType
    <3> QED BY <1>2, <1>3, <3>2 DEF DivGatedAt
  <2> QED BY <2>1, <2>2
<1> HIDE DEF r
<1>5. domRun \in [Days -> [Domains -> Status]]
  BY DEF BuildsInv, BuildsTypeOK
<1>6. /\ domRun' \in [Days -> [Domains -> Status]]
      /\ \A x \in Days, n \in Domains : domRun'[x][n] = "success" => domRun[x][n] = "success"
  <2>1. domRun' = domRun \/ domRun' = [domRun EXCEPT ![d][m] = "running"]
    BY <1>1
  <2> HIDE DEF d
  <2> QED BY <1>2, <1>5, <2>1 DEF Status
<1>7. /\ UNCHANGED <<writes, shown, ctl, loaded, mart>> /\ div' = [div EXCEPT ![m] = r]
      /\ gold' = gold
  BY <1>1 DEF DivTo, markerVars
<1>8. /\ DOMAIN gold' = Domains
      /\ \A n \in Domains : OfDay(gold'[n].reads, gold'[n].d)
  BY <1>7 DEF BuildsInv, BuildsTypeOK, TablesOfDay, OfDay
<1> QED BY <1>1, <1>4, <1>6, <1>7, <1>8, DivFrame

LEMMA DbtDomainInv ==
  ASSUME BuildsInv, NEW m \in Domains, DbtDomain(m)
  PROVE  BuildsInv'
<1> DEFINE d == div[m].d
           new == [d |-> d, reads |-> Read(d, div[m].snaps, DirectOf[m]),
                   enqs |-> [e \in EnqsOf[m] |-> silver[e].d]]
           r == [div[m] EXCEPT !.pc = "finish"]
<1>1. /\ DivTo(m, r) /\ UNCHANGED <<enqRun, domRun, silver>>
      /\ div[m].pc = "dbt" /\ HasVars(div[m].snaps, DirectOf[m])
      /\ gold' = [gold EXCEPT ![m] = new]
  BY DEF DbtDomain
<1>2. /\ div[m] \in DivType /\ d \in Days
      /\ Loaded(d, DirectOf[m]) /\ \A e \in EnqsOf[m] : enqRun[d][e] # "none"
      /\ OfDay(div[m].snaps, d)
  BY <1>1 DEF BuildsInv, BuildsTypeOK, DivGated
<1>3. OfDay(new.reads, new.d)
  BY <1>1, <1>2, ReadOfDay
<1> HIDE DEF new
<1>4. r \in DivType /\ r.pc = "finish" /\ r.d = d /\ r.snaps = div[m].snaps
  BY <1>2 DEF DivType
<1> HIDE DEF r
<1>5. DivGatedAt(m, r, DirectOf[m])
  BY <1>2, <1>4 DEF DivGatedAt
<1>6. DOMAIN gold = Domains /\ \A n \in Domains : OfDay(gold[n].reads, gold[n].d)
  BY DEF BuildsInv, BuildsTypeOK, TablesOfDay
<1>7. DOMAIN gold' = Domains /\ \A n \in Domains : gold'[n] = IF n = m THEN new ELSE gold[n]
  BY <1>1, <1>6
<1>8. \A n \in Domains : OfDay(gold'[n].reads, gold'[n].d)
  BY <1>3, <1>6, <1>7
<1>9. domRun' \in [Days -> [Domains -> Status]]
  BY <1>1 DEF BuildsInv, BuildsTypeOK
<1>10. UNCHANGED <<writes, shown, ctl, loaded, mart>> /\ div' = [div EXCEPT ![m] = r]
  BY <1>1 DEF DivTo, markerVars
<1> QED BY <1>1, <1>4, <1>5, <1>7, <1>8, <1>9, <1>10, DivFrame

LEMMA FinishModelRunInv ==
  ASSUME BuildsInv, NEW m \in Domains, FinishModelRun(m)
  PROVE  BuildsInv'
<1> DEFINE d == div[m].d
<1>1. /\ DivTo(m, DivIdle) /\ UNCHANGED <<enqRun, silver, gold>>
      /\ div[m].pc = "finish"
      /\ domRun' = [domRun EXCEPT ![d][m] = "success"]
  BY DEF FinishModelRun
<1>2. /\ d \in Days /\ Loaded(d, DirectOf[m])
      /\ \A e \in EnqsOf[m] : enqRun[d][e] # "none"
  BY <1>1 DEF BuildsInv, DivGated
<1> HIDE DEF d
<1>3. domRun \in [Days -> [Domains -> Status]]
  BY DEF BuildsInv, BuildsTypeOK
<1>4. /\ domRun' \in [Days -> [Domains -> Status]]
      /\ \A x \in Days, n \in Domains : domRun'[x][n] = "success" =>
           domRun[x][n] = "success" \/ (x = d /\ n = m)
  BY <1>1, <1>2, <1>3 DEF Status
<1>5. \A x \in Days, n \in Domains : domRun'[x][n] = "success" =>
        \/ domRun[x][n] = "success"
        \/ n = m /\ Loaded(x, DirectOf[m]) /\ \A e \in EnqsOf[m] : enqRun[x][e] # "none"
  BY <1>2, <1>4
<1>6. /\ UNCHANGED <<writes, shown, ctl, loaded, mart>> /\ div' = [div EXCEPT ![m] = DivIdle]
      /\ DOMAIN gold' = Domains
      /\ \A n \in Domains : OfDay(gold'[n].reads, gold'[n].d)
  BY <1>1 DEF DivTo, markerVars, BuildsInv, BuildsTypeOK, TablesOfDay, OfDay
<1>7. DivIdle \in DivType /\ DivGatedAt(m, DivIdle, DirectOf[m])
  BY IdleTypes, DivIdleGated, Subsets
<1> QED BY <1>1, <1>4, <1>5, <1>6, <1>7, DivFrame

-----------------------------------------------------------------------------
LEMMA BuildsStutter == BuildsInv /\ UNCHANGED buildVars => BuildsInv'
<1> SUFFICES ASSUME BuildsInv, UNCHANGED buildVars PROVE BuildsInv'
  OBVIOUS
<1>1. UNCHANGED <<writes, shown, ctl, loaded, enqRun, domRun, silver, gold, mart, div>>
  BY DEF buildVars, markerVars, tables
<1>2. mart' \in MartType /\ MartGated'
  BY <1>1 DEF BuildsInv, BuildsTypeOK, MartGated, Loaded, OfDay
<1> QED BY <1>1, <1>2, MartQuiet

LEMMA BuildsStepInv == BuildsInv /\ [BuildsNext]_buildVars => BuildsInv'
<1> SUFFICES ASSUME BuildsInv, [BuildsNext]_buildVars PROVE BuildsInv'
  OBVIOUS
<1>1. CASE Marker \/ \E d \in Days, s \in Sources : ReopenSource(d, s) \/ SealSource(d, s)
  BY <1>1, MarkerInv, ReopenInv, SealInv
<1>2. CASE MartStep \/ (\E d \in Days : MartForced(d)) \/ \E e \in Enqs : FailEnq(e)
  BY <1>2, MartRunInv, EnqOverInv, PrepareEnqInv, DbtEnqInv, FinishEnqInv DEF MartStep
<1>3. CASE \/ \E m \in Domains : DivStep(m) \/ FailDomain(m)
           \/ \E m \in Domains, d \in Days : DivForced(m, d)
  BY <1>3, DivOverInv, DivForcedInv, DetectDInv, GateReadyInv, PrepareVarsInv, DbtDomainInv,
     FinishModelRunInv
     DEF DivStep
<1> QED BY <1>1, <1>2, <1>3, BuildsStutter DEF BuildsNext

LEMMA BuildsInvariant == BuildsSpec => []BuildsInv
BY BuildsInitInv, BuildsStepInv, PTL DEF BuildsSpec

-----------------------------------------------------------------------------
(* Theorems.                                                                *)

(* Whoever reopens rows, forces runs or fails tasks meanwhile: what a silver *)
(* or gold table read is what was loaded for the day it was built for.       *)
THEOREM TablesReadTheirDay == BuildsSpec => []ReadsItsDay
<1>1. BuildsInv => ReadsItsDay
  BY DEF BuildsInv, TablesOfDay, OfDay, ReadsItsDay
<1> QED BY <1>1, BuildsInvariant, PTL

(* A recorded success has its sources loaded, and its silver builds started. *)
THEOREM SuccessesHaveInputs == BuildsSpec => []SuccessHasInputs
BY BuildsInvariant, PTL DEF BuildsInv

(* A day built with success is built again only by a run somebody forced.    *)
THEOREM SuccessesStay == BuildsSpec => BuiltStays
<1>1. ASSUME BuildsInv, [BuildsNext]_buildVars, NEW d \in Days, NEW e \in Enqs,
             EnqBuilt(d, e), ~mart.forced
      PROVE  enqRun'[d][e] = "success"
  <2>1. enqRun \in [Days -> [Enqs -> Status]] /\ enqRun[d][e] = "success"
    BY <1>1 DEF BuildsInv, BuildsTypeOK, EnqBuilt
  <2>2. \/ enqRun' = enqRun
        \/ \E u \in Enqs : PrepareEnq(u) \/ FinishEnq(u)
    BY <1>1 DEF BuildsNext, Marker, ReopenSource, SealSource, MartStep, DetectAndGate,
                MartTimeout, MartEnd, SkipEnq, DbtEnq, DbtEnqError, MartForced, FailEnq, DivStep,
                DetectD, GateReady, GateTimeout, PrepareVars, DbtDomain, DbtDomainError,
                FinishModelRun, FailDomain, DivForced, buildVars, tables
  <2>3. ASSUME NEW u \in Enqs, PrepareEnq(u) PROVE enqRun'[d][e] = "success"
    <3>1. enqRun[mart.d][u] # "success" /\ enqRun' = [enqRun EXCEPT ![mart.d][u] = "running"]
      BY <1>1, <2>3 DEF PrepareEnq, EnqBuilt
    <3> QED BY <2>1, <3>1
  <2>4. ASSUME NEW u \in Enqs, FinishEnq(u) PROVE enqRun'[d][e] = "success"
    <3>1. enqRun' = [enqRun EXCEPT ![mart.d][u] = "success"]
      BY <2>4 DEF FinishEnq
    <3> QED BY <2>1, <3>1
  <2> QED BY <2>1, <2>2, <2>3, <2>4
<1>2. ASSUME BuildsInv, [BuildsNext]_buildVars, NEW d \in Days, NEW m \in Domains,
             Built(d, m), ~div[m].forced
      PROVE  domRun'[d][m] = "success"
  <2>1. domRun \in [Days -> [Domains -> Status]] /\ domRun[d][m] = "success"
    BY <1>2 DEF BuildsInv, BuildsTypeOK, Built
  <2>2. \/ domRun' = domRun
        \/ \E n \in Domains : PrepareVars(n) \/ FinishModelRun(n)
    BY <1>2 DEF BuildsNext, Marker, ReopenSource, SealSource, MartStep, DetectAndGate,
                MartTimeout, MartEnd, SkipEnq, PrepareEnq, DbtEnq, DbtEnqError, FinishEnq,
                MartForced, FailEnq, DivStep, DetectD, GateReady, GateTimeout, DbtDomain,
                DbtDomainError, FailDomain, DivForced, buildVars, tables
  <2>3. ASSUME NEW n \in Domains, PrepareVars(n) PROVE domRun'[d][m] = "success"
    <3>1. \/ domRun' = domRun
          \/ /\ domRun' = [domRun EXCEPT ![div[n].d][n] = "running"]
             /\ div[n].forced \/ domRun[div[n].d][n] # "success"
      BY <2>3 DEF PrepareVars, Built
    <3> QED BY <1>2, <2>1, <3>1
  <2>4. ASSUME NEW n \in Domains, FinishModelRun(n) PROVE domRun'[d][m] = "success"
    <3>1. domRun' = [domRun EXCEPT ![div[n].d][n] = "success"]
      BY <2>4 DEF FinishModelRun
    <3> QED BY <2>1, <3>1
  <2> QED BY <2>1, <2>2, <2>3, <2>4
<1>3. BuildsInv /\ [BuildsNext]_buildVars =>
        [/\ \A d \in Days, e \in Enqs :
              (EnqBuilt(d, e) /\ ~mart.forced) => enqRun'[d][e] = "success"
         /\ \A d \in Days, m \in Domains :
              (Built(d, m) /\ ~div[m].forced) => domRun'[d][m] = "success"]_buildVars
  BY <1>1, <1>2
<1> QED BY <1>3, BuildsInvariant, PTL DEF BuildsSpec, BuiltStays

-----------------------------------------------------------------------------
(* The days of the silver tables.                                           *)

(* Nothing is loaded for a day before bronze shows that it is closed, ...    *)
LoadedIsShown == \A d \in Days, s \in Sources : loaded[d][s] # 0 => 2 * d <= shown

(* ... so that no silver table is of a later day either, forced or not; and  *)
(* none is of a later day than the run that nobody forced.                   *)
SilverIsShown == \A e \in Enqs : silver[e].d \in Nat /\ 2 * silver[e].d <= shown
RunIsNewest   == (mart.pc = "build" /\ ~mart.forced) => \A e \in Enqs : silver[e].d <= mart.d

SilverInv == LoadedIsShown /\ SilverIsShown /\ RunIsNewest

LEMMA SilverInit == BuildsInit => SilverInv
<1> SUFFICES ASSUME BuildsInit PROVE SilverInv
  OBVIOUS
<1>1. shown = 0 /\ mart.pc = "idle"
  BY DEF BuildsInit, MarkerInit, MartIdle
<1>2. \A d \in Days, s \in Sources : loaded[d][s] = 0
  BY DEF BuildsInit
<1>3. \A e \in Enqs : silver[e].d = 0
  BY DEF BuildsInit, NoSilver
<1> QED BY <1>1, <1>2, <1>3 DEF SilverInv, LoadedIsShown, SilverIsShown, RunIsNewest

(* The gate of a build, forced or not, saw its sources loaded.               *)
LEMMA BuildIsShown ==
  ASSUME BuildsInv, LoadedIsShown, mart.pc = "build"
  PROVE  mart.d \in Nat /\ 2 * mart.d <= shown
<1>1. PICK e \in Enqs : \E s \in SourceSet[e] : TRUE
  BY BuildsAssumption DEF AllSources
<1>2. PICK s \in SourceSet[e] : s \in Sources
  BY <1>1, Subsets
<1>3. mart.d \in Days /\ loaded[mart.d][s] # 0
  BY <1>2 DEF BuildsInv, MartGated, Loaded
<1> QED BY <1>2, <1>3 DEF LoadedIsShown, Days

(* The marker, the seals and the runs: what a step does to the four parts.   *)
LEMMA SilverStep ==
  ASSUME BuildsInv, SilverInv, [BuildsNext]_buildVars
  PROVE  /\ SilverInv'
         /\ \A e \in Enqs : silver'[e].d < silver[e].d => mart.forced
<1> USE DEF SilverInv
<1>0. /\ writes \in Nat /\ shown \in Nat /\ mart \in MartType /\ DOMAIN silver = Enqs
      /\ loaded \in [Days -> [Sources -> Nat]] /\ \A d \in Days : d \in Nat
  <2>1. MaxDay \in Nat /\ writes \in 0..(2 * MaxDay) /\ shown \in 0..writes
    BY BuildsAssumption DEF BuildsInv, BuildsTypeOK
  <2> QED BY <2>1 DEF BuildsInv, BuildsTypeOK, Days
<1>1. ASSUME shown' \in Nat, shown <= shown', UNCHANGED <<loaded, silver>>,
             mart'.pc = "build" /\ ~mart'.forced => mart.pc = "build" /\ mart'.d = mart.d
                                                     /\ ~mart.forced
      PROVE  SilverInv' /\ \A e \in Enqs : silver'[e].d = silver[e].d
  <2>1. LoadedIsShown'
    BY <1>0, <1>1 DEF LoadedIsShown
  <2>2. SilverIsShown'
    BY <1>0, <1>1 DEF SilverIsShown
  <2>3. RunIsNewest'
    BY <1>1 DEF RunIsNewest
  <2> QED BY <1>1, <2>1, <2>2, <2>3
<1>2. CASE Marker
  <2>1. shown' \in Nat /\ shown <= shown'
    BY <1>0, <1>2 DEF Marker, Write, Show
  <2>2. UNCHANGED <<loaded, silver, mart>>
    BY <1>2 DEF Marker, tables
  <2> QED BY <1>0, <1>1, <2>1, <2>2 DEF SilverIsShown
<1>3. ASSUME NEW d \in Days, NEW s \in Sources, SealSource(d, s)
      PROVE  SilverInv' /\ UNCHANGED silver
  <2>1. /\ 2 * d <= shown /\ UNCHANGED <<shown, silver, mart>>
        /\ loaded' = [loaded EXCEPT ![d][s] = @ + 1]
    BY <1>3 DEF SealSource, markerVars, tables
  <2>2. \A x \in Days, u \in Sources : loaded'[x][u] # 0 => loaded[x][u] # 0 \/ x = d
    BY <1>0, <2>1
  <2>3. LoadedIsShown'
    BY <2>1, <2>2 DEF LoadedIsShown
  <2> QED BY <2>1, <2>3 DEF SilverIsShown, RunIsNewest
<1>4. CASE DetectAndGate
  <2>1. UNCHANGED <<shown, loaded, silver>>
    BY <1>4 DEF DetectAndGate, markerVars, tables
  <2>2. ASSUME ~mart'.forced
        PROVE  \A e \in Enqs : silver[e].d <= mart'.d
    <3>1. mart'.forced = mart.forced /\ (~mart.forced => mart'.d = shown \div 2)
      BY <1>0, <1>4 DEF DetectAndGate, MartType
    <3>2. \A e \in Enqs : silver[e].d \in Nat /\ 2 * silver[e].d <= shown
      BY DEF SilverIsShown
    <3>3. \A n \in Nat : 2 * n <= shown => n <= shown \div 2
      BY <1>0
    <3> QED BY <2>2, <3>1, <3>2, <3>3
  <2> QED BY <1>0, <2>1, <2>2 DEF LoadedIsShown, SilverIsShown, RunIsNewest
<1>5. ASSUME NEW u \in Enqs, DbtEnq(u)
      PROVE  SilverInv' /\ \A e \in Enqs : silver'[e].d < silver[e].d => mart.forced
  <2>1. /\ mart.pc = "build" /\ UNCHANGED <<shown, loaded>>
        /\ \A e \in Enqs : silver'[e].d = IF e = u THEN mart.d ELSE silver[e].d
    BY <1>0, <1>5 DEF DbtEnq, MartAt, markerVars
  <2>2. mart'.pc = mart.pc /\ mart'.d = mart.d /\ mart'.forced = mart.forced
    BY <1>0, <1>5 DEF DbtEnq, MartType
  <2>3. mart.d \in Nat /\ 2 * mart.d <= shown
    BY <2>1, BuildIsShown
  <2>4. LoadedIsShown' /\ SilverIsShown' /\ RunIsNewest'
    BY <2>1, <2>2, <2>3 DEF LoadedIsShown, SilverIsShown, RunIsNewest
  <2>5. ~mart.forced => \A e \in Enqs : silver[e].d <= mart.d
    BY <2>1 DEF RunIsNewest
  <2>6. \A e \in Enqs : silver[e].d \in Nat
    BY DEF SilverIsShown
  <2> QED BY <2>1, <2>3, <2>4, <2>5, <2>6
<1>6. CASE \/ \E d \in Days : MartForced(d)
           \/ MartTimeout \/ MartEnd
           \/ \E e \in Enqs : SkipEnq(e) \/ PrepareEnq(e) \/ DbtEnqError(e) \/ FinishEnq(e)
                                \/ FailEnq(e)
  <2>1. UNCHANGED <<shown, loaded, silver>>
    BY <1>6 DEF MartForced, MartTimeout, MartEnd, SkipEnq, PrepareEnq, DbtEnqError, FinishEnq,
                FailEnq, markerVars, tables
  <2>2. \/ mart'.pc # "build"
        \/ mart'.pc = mart.pc /\ mart'.d = mart.d /\ mart'.forced = mart.forced
    <3>1. CASE (\E d \in Days : MartForced(d)) \/ MartTimeout \/ MartEnd
      <4>1. ASSUME NEW d, mart' = [MartIdle EXCEPT !.pc = "gate", !.d = d, !.forced = TRUE]
            PROVE  mart'.pc = "gate"
        BY <4>1 DEF MartIdle
      <4>2. MartIdle.pc = "idle"
        BY DEF MartIdle
      <4> QED BY <3>1, <4>1, <4>2 DEF MartForced, MartTimeout, MartEnd
    <3>2. CASE \E e \in Enqs : SkipEnq(e) \/ PrepareEnq(e) \/ DbtEnqError(e) \/ FinishEnq(e)
                                 \/ FailEnq(e)
      BY <1>0, <3>2 DEF SkipEnq, PrepareEnq, DbtEnqError, FinishEnq, FailEnq, MartType
    <3> QED BY <1>6, <3>1, <3>2
  <2> QED BY <1>0, <1>1, <2>1, <2>2 DEF SilverIsShown
<1>7. CASE \/ \E d \in Days, s \in Sources : ReopenSource(d, s)
           \/ \E m \in Domains : DivStep(m) \/ FailDomain(m)
           \/ \E m \in Domains, d \in Days : DivForced(m, d)
           \/ UNCHANGED buildVars
  <2>1. UNCHANGED <<shown, loaded, silver, mart>>
    BY <1>7 DEF ReopenSource, DivStep, DivTo, DetectD, GateReady, GateTimeout, PrepareVars,
                DbtDomain, DbtDomainError, FinishModelRun, FailDomain, DivForced, buildVars,
                markerVars, tables
  <2> QED BY <1>0, <1>1, <2>1 DEF SilverIsShown
<1>8. UNCHANGED silver => \A e \in Enqs : ~(silver'[e].d < silver[e].d)
  BY DEF SilverIsShown
<1>9. (\A e \in Enqs : silver'[e].d = silver[e].d)
        => \A e \in Enqs : ~(silver'[e].d < silver[e].d)
  BY DEF SilverIsShown
<1>10. CASE \E d \in Days, s \in Sources : SealSource(d, s)
  BY <1>3, <1>8, <1>10
<1>11. CASE MartStep
  <2>1. (\E e \in Enqs : DbtEnq(e)) \/ DetectAndGate \/ ~(\E e \in Enqs : DbtEnq(e))
    OBVIOUS
  <2> QED BY <1>4, <1>5, <1>6, <1>8, <1>11 DEF MartStep
<1> QED BY <1>2, <1>6, <1>7, <1>8, <1>10, <1>11 DEF BuildsNext

(* Only a forced run puts a silver table back to an earlier day.             *)
THEOREM SilverGoesBackByForce == BuildsSpec => SilverMovesOn
<1>1. BuildsInv /\ SilverInv /\ [BuildsNext]_buildVars => SilverInv'
  BY SilverStep
<1>2. BuildsInv /\ SilverInv /\ [BuildsNext]_buildVars =>
        [\A e \in Enqs : silver'[e].d < silver[e].d => mart.forced]_buildVars
  BY SilverStep
<1>3. BuildsSpec => []SilverInv
  BY <1>1, SilverInit, BuildsInvariant, PTL DEF BuildsSpec
<1> QED BY <1>2, <1>3, BuildsInvariant, PTL DEF BuildsSpec, SilverMovesOn
=============================================================================
