---------------------------- MODULE PullCobProofs ----------------------------
(***************************************************************************)
(* Proofs about PullCob, for any tables, days, chunks, editions, failures  *)
(* and replays: data changes only under a pending row, a sealed day is     *)
(* left alone, a sealed partition has the whole of its last extract, read  *)
(* after T24 closed the day, and the DAG implements SealLedger.            *)
(***************************************************************************)
EXTENDS PullCob, FiniteSetTheorems, TLAPS

-----------------------------------------------------------------------------
(* Types.                                                                   *)

Edn     == [ed : Nat, chunks : 0..MaxChunks]
RowSet  == {S \in SUBSET [ed : Nat, no : PartNo] : IsFiniteSet(S)}
Dir     == [PartNo -> Nat]
Count0  == Nat \cup {Null}
CtlRow  == [status : {"none", "pending", "sealed"}, l_cob : {Null}, snapshot : {Null},
            expected : Count0, actual : Count0]
Steps   == {"over", "extract", "upload", "parse", "count", "seal"}
RunType == [pc : {"idle", "wait", "open", "tables"}, d : Nat, forced : BOOLEAN,
            opened : SUBSET Tables, step : [Tables -> Steps], from : [Tables -> Edn],
            put : [Tables -> Nat], n : [Tables -> Nat]]

PullTypeOK ==
  /\ writes \in 0..(2 * MaxDay) /\ shown \in Nat
  /\ source \in [Tables -> Edn]
  /\ raw \in [Days -> [Tables -> Dir]]
  /\ bronze \in [Days -> [Tables -> RowSet]] /\ seen \in [Days -> [Tables -> RowSet]]
  /\ ctl \in [Days -> [Tables -> CtlRow]]
  /\ run \in RunType
  /\ closing \in [Days -> [Tables -> Nat]]
  /\ last \in [Days -> [Tables -> Edn]]

-----------------------------------------------------------------------------
(* The control part: which rows a run holds pending.                        *)

OnADay == run.pc \in {"open", "tables"}

(* A run works on a day that T24 has closed.                                 *)
AfterClose == /\ shown <= writes
              /\ OnADay => run.d \in Days /\ 2 * run.d <= writes

(* A row that was opened and not sealed yet is pending.                      *)
WorkIsPending ==
  /\ run.pc = "wait" => run.opened = {}
  /\ run.pc = "open" => \A t \in run.opened : ctl[run.d][t].status = "pending"
  /\ run.pc = "tables" =>
       \A t \in Tables : run.step[t] # "over" => ctl[run.d][t].status = "pending"

(* A run nobody forced opens a day with an unsealed row.                     *)
OpensUnsealed ==
  (run.pc = "open" /\ ~run.forced) => \E t \in Tables : ctl[run.d][t].status # "sealed"

ControlInv == PullTypeOK /\ AfterClose /\ WorkIsPending /\ OpensUnsealed

-----------------------------------------------------------------------------
(* The data part.                                                           *)

(* What was read for a day was read after the close, and editions grow.      *)
ReadLate ==
  /\ \A t \in Tables : source[t].ed > 0
  /\ \A d \in Days, t \in Tables : closing[d][t] <= source[t].ed
  /\ \A d \in Days, t \in Tables : \A i \in PartNo :
       raw[d][t][i] # 0 => 2 * d <= writes /\ closing[d][t] <= raw[d][t][i]
  /\ ReadAfterClose
  /\ run.pc = "tables" =>
       \A t \in Tables : run.step[t] = "upload" =>
         run.from[t].ed > 0 /\ closing[run.d][t] <= run.from[t].ed

(* The part files uploaded so far are those of the extract; a finished       *)
(* extract is in the raw zone, a parsed one in the partition.                *)
Uploaded ==
  run.pc = "tables" => \A t \in Tables :
    /\ run.step[t] = "upload" =>
         /\ run.put[t] < run.from[t].chunks
         /\ \A i \in PartNo : i < run.put[t] => raw[run.d][t][i] = run.from[t].ed
    /\ run.step[t] \in {"parse", "count", "seal"} =>
         RowsOf(last[run.d][t]) \subseteq ReadRaw(raw[run.d][t])
    /\ run.step[t] \in {"count", "seal"} =>
         RowsOf(last[run.d][t]) \subseteq bronze[run.d][t]

PullInv == ControlInv /\ ReadLate /\ Uploaded /\ NothingMissing

-----------------------------------------------------------------------------
(* Facts about the operators.                                               *)

(* all_sealed counts the rows.                                               *)
LEMMA AllSealedIsEach ==
  ASSUME NEW d
  PROVE  AllSealed(ctl, d, Tables) <=> \A t \in Tables : ctl[d][t].status = "sealed"
<1>1. IsFiniteSet(Tables) /\ SealedRows(ctl, d, Tables) \in SUBSET Tables
  BY PullAssumption DEF SealedRows
<1>2. Cardinality(Tables) = Cardinality(SealedRows(ctl, d, Tables))
        => Tables = SealedRows(ctl, d, Tables)
  BY <1>1, FS_Subset
<1> QED BY <1>2 DEF AllSealed, SealedRows

(* One statement on one row.                                                 *)
LEMMA OpenPendingRow ==
  ASSUME PullTypeOK, NEW d \in Days, NEW t \in Tables, ctl' = OpenPending(ctl, d, t, Null)
  PROVE  /\ ctl' \in [Days -> [Tables -> CtlRow]]
         /\ ctl'[d][t].status = "pending"
         /\ \A e \in Days, u \in Tables : <<e, u>> # <<d, t>> => ctl'[e][u] = ctl[e][u]
<1> DEFINE row == [ctl[d][t] EXCEPT !.status = "pending",
                                    !.l_cob = COALESCE(Null, ctl[d][t].l_cob)]
<1>1. row \in CtlRow /\ row.status = "pending"
  <2>1. ctl[d][t] \in CtlRow
    BY DEF PullTypeOK
  <2>2. COALESCE(Null, ctl[d][t].l_cob) = ctl[d][t].l_cob
    BY DEF COALESCE
  <2> QED BY <2>1, <2>2 DEF CtlRow
<1>2. ctl' = [ctl EXCEPT ![d][t] = row]
  BY DEF OpenPending
<1> HIDE DEF row
<1> QED BY <1>1, <1>2 DEF PullTypeOK

LEMMA SealRow ==
  ASSUME PullTypeOK, NEW d \in Days, NEW t \in Tables, NEW n \in Nat,
         ctl' = Seal(ctl, d, t, Null, n, n)
  PROVE  /\ ctl' \in [Days -> [Tables -> CtlRow]]
         /\ ctl'[d][t].status = "sealed"
         /\ \A e \in Days, u \in Tables : <<e, u>> # <<d, t>> => ctl'[e][u] = ctl[e][u]
<1> DEFINE row == [ctl[d][t] EXCEPT !.status = "sealed",
                                    !.snapshot = COALESCE(Null, ctl[d][t].snapshot),
                                    !.expected = COALESCE(n, ctl[d][t].expected),
                                    !.actual = COALESCE(n, ctl[d][t].actual)]
<1>1. row \in CtlRow /\ row.status = "sealed"
  <2>1. ctl[d][t] \in CtlRow
    BY DEF PullTypeOK
  <2>2. COALESCE(Null, ctl[d][t].snapshot) = ctl[d][t].snapshot
    BY DEF COALESCE
  <2>3. ctl[d][t].expected \in Count0 /\ ctl[d][t].actual \in Count0
    BY <2>1 DEF CtlRow
  <2>4. COALESCE(n, ctl[d][t].expected) \in Count0 /\ COALESCE(n, ctl[d][t].actual) \in Count0
    BY <2>3 DEF COALESCE, Count0
  <2> QED BY <2>1, <2>2, <2>4 DEF CtlRow
<1>2. ctl' = [ctl EXCEPT ![d][t] = row]
  BY DEF Seal
<1> HIDE DEF row
<1> QED BY <1>1, <1>2 DEF PullTypeOK

(* A directory of part files is a finite set of rows.                        *)
LEMMA ReadRawFinite ==
  ASSUME NEW dir \in Dir
  PROVE  ReadRaw(dir) \in RowSet
<1>1. ReadRaw(dir) \subseteq [ed : Nat, no : PartNo]
  BY DEF ReadRaw, Dir
<1>2. \A r, s \in ReadRaw(dir) : r.no = s.no => r = s
  BY DEF ReadRaw
<1> DEFINE f == [r \in ReadRaw(dir) |-> r.no]
<1>3. f \in [ReadRaw(dir) -> PartNo]
  BY <1>1
<1>4. \A r, s \in ReadRaw(dir) : f[r] = f[s] => r = s
  BY <1>2
<1> HIDE DEF f
<1>5. f \in Injection(ReadRaw(dir), PartNo)
  BY <1>3, <1>4 DEF Injection, IsInjective
<1>6. IsFiniteSet(PartNo)
  BY PullAssumption, FS_Interval DEF PartNo
<1>7. IsFiniteSet(ReadRaw(dir))
  BY <1>5, <1>6, FS_Injection
<1> QED BY <1>1, <1>7 DEF RowSet
-----------------------------------------------------------------------------
(* The steps of a run.                                                      *)

LEMMA IdleType == Idle \in RunType
<1>1. None \in Edn
  BY PullAssumption DEF None, Edn
<1> QED BY <1>1 DEF Idle, RunType, Steps

(* One table goes to step s and the others stay where they are.              *)
Moves(t, s) ==
  /\ run' \in RunType
  /\ run'.pc = run.pc /\ run'.d = run.d /\ run'.forced = run.forced
  /\ run'.step[t] = s
  /\ \A u \in Tables \ {t} : /\ run'.step[u] = run.step[u] /\ run'.from[u] = run.from[u]
                             /\ run'.put[u] = run.put[u]

LEMMA OverMoves ==
  ASSUME run \in RunType, NEW t \in Tables,
         run' = [run EXCEPT !.step[t] = "over", !.from[t] = None, !.put[t] = 0, !.n[t] = 0]
  PROVE  Moves(t, "over")
<1>1. None \in Edn
  BY PullAssumption DEF None, Edn
<1> QED BY <1>1 DEF RunType, Steps, Moves

LEMMA ExtractMoves ==
  ASSUME PullTypeOK, NEW t \in Tables, Extract(t)
  PROVE  /\ Moves(t, IF t \in Jdbc \/ source[t].chunks = 0 THEN "parse" ELSE "upload")
         /\ run'.from[t] = source[t] /\ run'.put[t] = 0
<1> DEFINE s == IF t \in Jdbc \/ source[t].chunks = 0 THEN "parse" ELSE "upload"
<1>1. s \in Steps /\ source[t] \in Edn /\ run \in RunType
  BY DEF Steps, PullTypeOK
<1>2. run' = [run EXCEPT !.step[t] = s, !.from[t] = source[t], !.put[t] = 0]
  BY DEF Extract
<1> HIDE DEF s
<1>3. Moves(t, s) /\ run'.from[t] = source[t] /\ run'.put[t] = 0
  BY <1>1, <1>2 DEF RunType, Moves
<1> QED BY <1>3 DEF s

LEMMA UploadMoves ==
  ASSUME PullTypeOK, NEW t \in Tables, UploadChunk(t)
  PROVE  /\ Moves(t, IF run.put[t] + 1 = run.from[t].chunks THEN "parse" ELSE "upload")
         /\ run'.from[t] = run.from[t] /\ run'.put[t] = run.put[t] + 1
<1> DEFINE s == IF run.put[t] + 1 = run.from[t].chunks THEN "parse" ELSE "upload"
<1>1. s \in Steps /\ run \in RunType
  BY DEF Steps, PullTypeOK
<1>2. run' = [run EXCEPT !.put[t] = run.put[t] + 1, !.step[t] = s]
  BY DEF UploadChunk
<1>3. run.put[t] + 1 \in Nat
  BY <1>1 DEF RunType
<1> HIDE DEF s
<1>4. Moves(t, s) /\ run'.from[t] = run.from[t] /\ run'.put[t] = run.put[t] + 1
  BY <1>1, <1>2, <1>3 DEF RunType, Moves
<1> QED BY <1>4 DEF s

LEMMA ParseMoves ==
  ASSUME PullTypeOK, NEW t \in Tables, Parse(t)
  PROVE  Moves(t, "count")
BY DEF PullTypeOK, Parse, RunType, Steps, Moves

LEMMA CountMoves ==
  ASSUME PullTypeOK, OnADay, AfterClose, NEW t \in Tables, Count(t)
  PROVE  Moves(t, "seal") /\ seen' \in [Days -> [Tables -> RowSet]]
<1>1. run.d \in Days
  BY DEF AfterClose
<1>2. seen' \in [Days -> [Tables -> RowSet]]
  <2>1. seen' = [seen EXCEPT ![run.d][t] = bronze[run.d][t]] \/ seen' = seen
    BY DEF Count
  <2>2. bronze[run.d][t] \in RowSet
    BY <1>1 DEF PullTypeOK
  <2>3. seen \in [Days -> [Tables -> RowSet]]
    BY DEF PullTypeOK
  <2> QED BY <1>1, <2>1, <2>2, <2>3
<1>3. Cardinality(seen'[run.d][t]) \in Nat
  <2>1. IsFiniteSet(seen'[run.d][t])
    BY <1>1, <1>2 DEF RowSet
  <2> QED BY <2>1, FS_CardinalityType
<1>4. run' = [run EXCEPT !.step[t] = "seal", !.n[t] = Cardinality(seen'[run.d][t])]
  BY DEF Count
<1>5. Moves(t, "seal")
  BY <1>3, <1>4 DEF PullTypeOK, RunType, Steps, Moves
<1> QED BY <1>2, <1>5

-----------------------------------------------------------------------------
(* The types and the control part.                                          *)

LEMMA ControlInit == PullInit => ControlInv
<1> SUFFICES ASSUME PullInit PROVE ControlInv
  OBVIOUS
<1>1. writes = 0 /\ shown = 0 /\ run = Idle
  BY DEF PullInit, MarkerInit
<1>2. source \in [Tables -> Edn]
  BY DEF PullInit, Edn
<1>3. raw \in [Days -> [Tables -> Dir]]
  BY DEF PullInit, Dir
<1>4. bronze \in [Days -> [Tables -> RowSet]] /\ seen \in [Days -> [Tables -> RowSet]]
  <2>1. {} \in RowSet
    BY FS_EmptySet DEF RowSet
  <2> QED BY <2>1 DEF PullInit
<1>5. ctl \in [Days -> [Tables -> CtlRow]]
  <2>1. NoRow \in CtlRow
    BY DEF NoRow, CtlRow, Count0
  <2> QED BY <2>1 DEF PullInit
<1>6. closing \in [Days -> [Tables -> Nat]]
  BY DEF PullInit
<1>7. last \in [Days -> [Tables -> Edn]]
  <2>1. None \in Edn
    BY PullAssumption DEF None, Edn
  <2> QED BY <2>1 DEF PullInit
<1>8. PullTypeOK
  BY <1>1, <1>2, <1>3, <1>4, <1>5, <1>6, <1>7, IdleType, PullAssumption DEF PullTypeOK
<1>9. AfterClose /\ WorkIsPending /\ OpensUnsealed
  BY <1>1 DEF Idle, OnADay, AfterClose, WorkIsPending, OpensUnsealed
<1> QED BY <1>8, <1>9 DEF ControlInv

(* T24 edits tables and closes days, and the stream shows its marker.        *)
LEMMA WorldTypes ==
  ASSUME ControlInv, (\E t \in Tables : Edit(t)) \/ Cob \/ ShowMarker
  PROVE  /\ UNCHANGED <<raw, bronze, seen, last, ctl, run>>
         /\ writes' \in 0..(2 * MaxDay) /\ shown' \in Nat
         /\ source' \in [Tables -> Edn] /\ closing' \in [Days -> [Tables -> Nat]]
         /\ writes <= writes' /\ shown' <= writes'
<1> USE DEF ControlInv
<1>0. /\ writes \in 0..(2 * MaxDay) /\ shown \in Nat /\ shown <= writes /\ MaxDay \in Nat
      /\ source \in [Tables -> Edn] /\ closing \in [Days -> [Tables -> Nat]]
  BY PullAssumption DEF PullTypeOK, AfterClose
<1>1. ASSUME NEW t \in Tables, Edit(t) PROVE source' \in [Tables -> Edn]
  <2>1. PICK c \in 0..MaxChunks : source' = [source EXCEPT ![t] = [ed |-> source[t].ed + 1, chunks |-> c]]
    BY <1>1 DEF Edit
  <2>2. [ed |-> source[t].ed + 1, chunks |-> c] \in Edn
    BY <1>0 DEF Edn
  <2> QED BY <1>0, <2>1, <2>2
<1>2. CASE \E t \in Tables : Edit(t)
  <2>1. UNCHANGED <<raw, bronze, seen, last, ctl, run, writes, shown, closing>>
    BY <1>2 DEF Edit, markerVars, lake
  <2> QED BY <1>0, <1>1, <1>2, <2>1
<1>3. CASE Cob
  <2>1. UNCHANGED <<raw, bronze, seen, last, ctl, run, shown, source>>
    BY <1>3 DEF Cob, Write, lake
  <2>2. writes' = writes + 1 /\ writes < 2 * MaxDay
    BY <1>3 DEF Cob, Write
  <2>3. closing' \in [Days -> [Tables -> Nat]]
    <3>1. [t \in Tables |-> source[t].ed] \in [Tables -> Nat]
      BY <1>0 DEF Edn
    <3>2. \/ closing' = closing
          \/ closing' = [closing EXCEPT ![writes' \div 2] = [t \in Tables |-> source[t].ed]]
      BY <1>3 DEF Cob
    <3> QED BY <1>0, <3>1, <3>2
  <2> QED BY <1>0, <2>1, <2>2, <2>3
<1>4. CASE ShowMarker
  <2>1. UNCHANGED <<raw, bronze, seen, last, ctl, run, writes, source, closing>>
    BY <1>4 DEF ShowMarker, Show, lake
  <2>2. shown' \in (shown + 1)..writes
    BY <1>4 DEF ShowMarker, Show
  <2> QED BY <1>0, <2>1, <2>2
<1> QED BY <1>2, <1>3, <1>4

LEMMA WorldControl ==
  ASSUME ControlInv, (\E t \in Tables : Edit(t)) \/ Cob \/ ShowMarker
  PROVE  ControlInv'
<1>1. PullTypeOK'
  BY WorldTypes DEF ControlInv, PullTypeOK
<1>2. AfterClose'
  BY WorldTypes, PullAssumption DEF ControlInv, PullTypeOK, AfterClose, OnADay, RunType
<1>3. WorkIsPending' /\ OpensUnsealed'
  BY WorldTypes DEF ControlInv, WorkIsPending, OpensUnsealed
<1> QED BY <1>1, <1>2, <1>3 DEF ControlInv


(* A run starts, or ends.                                                    *)
LEMMA RunControl ==
  ASSUME ControlInv,
         \/ Trigger \/ FailSensor \/ EndRun \/ WaitCob
         \/ \E d \in Days : TriggerForced(d)
  PROVE  /\ ControlInv'
         /\ UNCHANGED <<writes, shown, source, closing, raw, bronze, seen, last, ctl>>
         /\ run'.pc # "tables"
<1> USE DEF ControlInv
<1>1. UNCHANGED <<writes, shown, source, closing, raw, bronze, seen, last, ctl>>
  BY DEF Trigger, FailSensor, EndRun, WaitCob, TriggerForced, world, lake, markerVars
<1>2. CASE Trigger \/ FailSensor \/ EndRun
  <2>1. run' \in RunType /\ run'.pc \in {"idle", "wait"} /\ run'.opened = {}
    <3>1. run' = Idle \/ run' = [Idle EXCEPT !.pc = "wait"]
      BY <1>2 DEF Trigger, FailSensor, EndRun
    <3>2. Idle.pc = "idle" /\ Idle.opened = {}
      BY DEF Idle
    <3> QED BY <3>1, <3>2, IdleType DEF RunType
  <2>2. PullTypeOK'
    BY <1>1, <2>1 DEF PullTypeOK
  <2>3. AfterClose' /\ WorkIsPending' /\ OpensUnsealed'
    BY <1>1, <2>1 DEF AfterClose, OnADay, WorkIsPending, OpensUnsealed
  <2> QED BY <1>1, <2>1, <2>2, <2>3
<1>3. ASSUME NEW d \in Days, TriggerForced(d) PROVE ControlInv' /\ run'.pc # "tables"
  <2>1. 2 * d <= writes /\ run' = [Idle EXCEPT !.pc = "open", !.d = d, !.forced = TRUE]
    BY <1>3 DEF TriggerForced
  <2>2. Idle.opened = {} /\ d \in Nat
    BY DEF Idle, Days
  <2>3. /\ run' \in RunType /\ run'.pc = "open" /\ run'.d = d /\ run'.forced = TRUE
        /\ run'.opened = {}
    BY <2>1, <2>2, IdleType DEF RunType
  <2>4. PullTypeOK'
    BY <1>1, <2>3 DEF PullTypeOK
  <2>5. AfterClose' /\ WorkIsPending' /\ OpensUnsealed'
    BY <1>1, <2>1, <2>3 DEF AfterClose, OnADay, WorkIsPending, OpensUnsealed
  <2> QED BY <2>3, <2>4, <2>5
<1>4. CASE WaitCob
  <2> DEFINE d == shown \div 2
  <2>1. /\ run.pc = "wait" /\ shown > 0 /\ shown % 2 = 0 /\ ~AllSealed(ctl, d, Tables)
        /\ run' = [run EXCEPT !.pc = "open", !.d = d]
    BY <1>4 DEF WaitCob, CobDone
  <2>2. /\ writes \in 0..(2 * MaxDay) /\ shown \in Nat /\ shown <= writes /\ MaxDay \in Nat
        /\ run \in RunType
    BY PullAssumption DEF PullTypeOK, AfterClose
  <2>3. d \in Nat /\ 2 * d = shown
    BY <2>1, <2>2
  <2>4. d \in Days /\ 2 * d <= writes
    BY <2>1, <2>2, <2>3 DEF Days
  <2>5. \E t \in Tables : ctl[d][t].status # "sealed"
    BY <2>1, AllSealedIsEach
  <2> HIDE DEF d
  <2>6. /\ run' \in RunType /\ run'.pc = "open" /\ run'.d = d /\ run'.opened = run.opened
    BY <2>1, <2>2, <2>3 DEF RunType
  <2>7. run.opened = {}
    BY <2>1 DEF WorkIsPending
  <2>8. PullTypeOK'
    BY <1>1, <2>6 DEF PullTypeOK
  <2>9. AfterClose' /\ WorkIsPending' /\ OpensUnsealed'
    BY <1>1, <2>2, <2>4, <2>5, <2>6, <2>7 DEF AfterClose, OnADay, WorkIsPending, OpensUnsealed
  <2> QED BY <1>1, <2>6, <2>8, <2>9
<1> QED BY <1>1, <1>2, <1>3, <1>4

(* One turn of the loop over the tables.                                     *)
LEMMA OpenControl ==
  ASSUME ControlInv, NEW t \in Tables, OpenNext(t)
  PROVE  /\ ControlInv'
         /\ UNCHANGED <<writes, shown, source, closing, raw, bronze, seen, last>>
         /\ run.pc = "open" /\ run'.d = run.d
         /\ run'.pc = "tables" => \A u \in Tables : run'.step[u] = "extract"
         /\ \A d \in Days, u \in Tables : ctl'[d][u].status = "sealed" => ctl'[d][u] = ctl[d][u]
         /\ \A d \in Days : d # run.d => ctl'[d] = ctl[d]
<1> USE DEF ControlInv
<1>1. /\ UNCHANGED <<writes, shown, source, closing, raw, bronze, seen, last>>
      /\ run.pc = "open"
  BY DEF OpenNext, world, lake, markerVars
<1>2. run \in RunType /\ run.d \in Days /\ 2 * run.d <= writes
  BY <1>1 DEF PullTypeOK, AfterClose, OnADay
<1>3. ctl' = OpenPending(ctl, run.d, t, Null)
  BY DEF OpenNext
<1>4. /\ ctl' \in [Days -> [Tables -> CtlRow]]
      /\ ctl'[run.d][t].status = "pending"
      /\ \A e \in Days, u \in Tables : <<e, u>> # <<run.d, t>> => ctl'[e][u] = ctl[e][u]
  BY <1>2, <1>3, OpenPendingRow
<1>5. /\ run' \in RunType /\ run'.d = run.d /\ run'.forced = run.forced
      /\ \/ run'.pc = "tables" /\ \A u \in Tables : run'.step[u] = "extract"
         \/ run'.pc = "open"
      /\ run'.pc = "open" => run'.opened = run.opened \cup {t}
      /\ run'.pc = "tables" => run.opened \cup {t} = Tables
  <2>1. CASE run.opened \cup {t} = Tables
    <3>1. run' = [run EXCEPT !.pc = "tables", !.opened = {}, !.step = [u \in Tables |-> "extract"]]
      BY <2>1 DEF OpenNext
    <3> QED BY <2>1, <3>1, <1>2 DEF RunType, Steps
  <2>2. CASE run.opened \cup {t} # Tables
    <3>1. run' = [run EXCEPT !.opened = @ \cup {t}]
      BY <2>2 DEF OpenNext
    <3> QED BY <2>2, <3>1, <1>1, <1>2 DEF RunType
  <2> QED BY <2>1, <2>2
<1>6. PullTypeOK'
  BY <1>1, <1>4, <1>5 DEF PullTypeOK
<1>7. AfterClose'
  BY <1>1, <1>2, <1>5 DEF AfterClose
<1>8. WorkIsPending'
  <2>1. \A u \in run.opened \cup {t} : ctl'[run.d][u].status = "pending"
    <3>1. \A u \in run.opened : u \in Tables /\ ctl[run.d][u].status = "pending"
      BY <1>1, <1>2 DEF WorkIsPending, RunType
    <3> QED BY <1>2, <1>4, <3>1
  <2> QED BY <1>5, <2>1 DEF WorkIsPending
<1>9. OpensUnsealed'
  BY <1>2, <1>4, <1>5 DEF OpensUnsealed
<1>10. \A d \in Days, u \in Tables : ctl'[d][u].status = "sealed" => ctl'[d][u] = ctl[d][u]
  BY <1>4
<1>11. \A d \in Days : d # run.d => ctl'[d] = ctl[d]
  BY <1>3, <1>2 DEF OpenPending, PullTypeOK
<1> QED BY <1>1, <1>5, <1>6, <1>7, <1>8, <1>9, <1>10, <1>11

(* A step of one table's chain.                                              *)
LEMMA TableControl ==
  ASSUME ControlInv, NEW t \in Tables, NEW s,
         run.pc = "tables", run.step[t] # "over", Moves(t, s),
         UNCHANGED <<writes, shown, source, closing>>,
         raw' \in [Days -> [Tables -> Dir]],
         bronze' \in [Days -> [Tables -> RowSet]], seen' \in [Days -> [Tables -> RowSet]],
         last' \in [Days -> [Tables -> Edn]],
         ctl' \in [Days -> [Tables -> CtlRow]],
         s # "over" => ctl' = ctl,
         \A u \in Tables : u # t => ctl'[run.d][u] = ctl[run.d][u]
  PROVE  ControlInv'
<1> USE DEF ControlInv, Moves
<1>1. PullTypeOK'
  BY DEF PullTypeOK
<1>2. AfterClose'
  BY DEF AfterClose, OnADay
<1>3. WorkIsPending'
  BY DEF WorkIsPending
<1>4. OpensUnsealed'
  BY DEF OpensUnsealed
<1> QED BY <1>1, <1>2, <1>3, <1>4

-----------------------------------------------------------------------------
(* The data a step of a table's chain touches.                              *)

Elsewhere(t) ==
  /\ UNCHANGED <<writes, shown, source, closing>>
  /\ \A d \in Days, u \in Tables : <<d, u>> # <<run.d, t>> =>
       /\ raw'[d][u] = raw[d][u] /\ bronze'[d][u] = bronze[d][u]
       /\ last'[d][u] = last[d][u] /\ ctl'[d][u] = ctl[d][u]

LEMMA ExtractEffect ==
  ASSUME ControlInv, NEW t \in Tables, Extract(t)
  PROVE  /\ ControlInv' /\ Elsewhere(t)
         /\ bronze' = bronze /\ ctl' = ctl
         /\ \A i \in PartNo : raw'[run.d][t][i] \in {0, source[t].ed, raw[run.d][t][i]}
         /\ run'.step[t] = "upload" => source[t].chunks > 0
         /\ run'.step[t] = "parse" => /\ last'[run.d][t] = source[t]
                                      /\ source[t].ed > 0 =>
                                           RowsOf(source[t]) \subseteq ReadRaw(raw'[run.d][t])
         /\ run'.step[t] \in {"upload", "parse"}
<1> USE DEF ControlInv
<1>1. run.pc = "tables" /\ run.step[t] = "extract"
  BY DEF Extract, At
<1>2. run.d \in Days /\ run \in RunType
  BY <1>1 DEF AfterClose, OnADay, PullTypeOK
<1> DEFINE whole == t \in Jdbc \/ source[t].chunks = 0
<1>3. /\ Moves(t, IF whole THEN "parse" ELSE "upload")
  BY ExtractMoves
<1>4. UNCHANGED <<writes, shown, source, closing, bronze, seen, ctl>>
  BY DEF Extract, world, markerVars
<1>5. source[t] \in Edn /\ source[t].ed \in Nat /\ source[t].chunks \in 0..MaxChunks /\ MaxChunks \in Nat
  BY PullAssumption DEF PullTypeOK, Edn
<1>6. raw \in [Days -> [Tables -> Dir]] /\ last \in [Days -> [Tables -> Edn]]
  BY DEF PullTypeOK
<1>7. /\ last' \in [Days -> [Tables -> Edn]]
      /\ whole => last'[run.d][t] = source[t]
      /\ \A d \in Days, u \in Tables : <<d, u>> # <<run.d, t>> => last'[d][u] = last[d][u]
  <2>1. last' = IF whole THEN [last EXCEPT ![run.d][t] = source[t]] ELSE last
    BY DEF Extract
  <2> HIDE DEF whole
  <2> QED BY <1>2, <1>5, <1>6, <2>1
<1>8. PICK dir \in Dir :
        /\ raw' = [raw EXCEPT ![run.d][t] = dir]
        /\ \A i \in PartNo : dir[i] \in {0, source[t].ed, raw[run.d][t][i]}
        /\ (whole /\ source[t].ed > 0) => RowsOf(source[t]) \subseteq ReadRaw(dir)
  <2>1. CASE t \in Jdbc
    <3> DEFINE dir == [i \in PartNo |-> IF i < source[t].chunks THEN source[t].ed ELSE 0]
    <3>1. raw' = [raw EXCEPT ![run.d][t] = dir]
      BY <2>1 DEF Extract
    <3>2. dir \in Dir /\ \A i \in PartNo : dir[i] \in {0, source[t].ed}
      BY <1>5 DEF Dir
    <3>3. source[t].ed > 0 => RowsOf(source[t]) \subseteq ReadRaw(dir)
      BY <1>5 DEF RowsOf, ReadRaw, PartNo
    <3> HIDE DEF dir
    <3> QED BY <3>1, <3>2, <3>3
  <2>2. CASE t \notin Jdbc /\ source[t].chunks = 0
    <3>1. RowsOf(source[t]) = {}
      BY <2>2 DEF RowsOf
    <3>2. CASE MaxChunks > 0
      <4>1. raw' = [raw EXCEPT ![run.d][t][0] = 0]
        BY <2>2, <3>2 DEF Extract
      <4>2. [raw[run.d][t] EXCEPT ![0] = 0] \in Dir /\ raw[run.d][t] \in Dir
        BY <1>2, <1>6 DEF Dir
      <4>3. \A i \in PartNo : [raw[run.d][t] EXCEPT ![0] = 0][i] \in {0, raw[run.d][t][i]}
        BY <4>2 DEF Dir
      <4>4. raw' = [raw EXCEPT ![run.d][t] = [raw[run.d][t] EXCEPT ![0] = 0]]
        BY <4>1
      <4> QED BY <3>1, <4>2, <4>3, <4>4
    <3>3. CASE ~(MaxChunks > 0)
      <4>1. raw' = raw /\ raw[run.d][t] \in Dir
        BY <1>2, <1>6, <2>2, <3>3 DEF Extract
      <4>2. raw = [raw EXCEPT ![run.d][t] = raw[run.d][t]]
        BY <1>2, <1>6
      <4> QED BY <3>1, <4>1, <4>2
    <3> QED BY <3>2, <3>3
  <2>3. CASE ~whole
    <3>1. raw' = raw /\ raw[run.d][t] \in Dir
      BY <1>2, <1>6, <2>3 DEF Extract
    <3>2. raw = [raw EXCEPT ![run.d][t] = raw[run.d][t]]
      BY <1>2, <1>6
    <3> QED BY <2>3, <3>1, <3>2
  <2> QED BY <2>1, <2>2, <2>3
<1>9. /\ raw' \in [Days -> [Tables -> Dir]] /\ raw'[run.d][t] = dir
      /\ \A d \in Days, u \in Tables : <<d, u>> # <<run.d, t>> => raw'[d][u] = raw[d][u]
  BY <1>2, <1>6, <1>8
<1>10. ControlInv'
  <2>1. bronze' \in [Days -> [Tables -> RowSet]] /\ seen' \in [Days -> [Tables -> RowSet]]
        /\ ctl' \in [Days -> [Tables -> CtlRow]]
    BY <1>4 DEF PullTypeOK
  <2> HIDE DEF whole
  <2> QED BY <1>1, <1>3, <1>4, <1>7, <1>9, <2>1, TableControl
<1>11. Elsewhere(t)
  BY <1>4, <1>7, <1>9 DEF Elsewhere
<1>12. run'.step[t] = IF whole THEN "parse" ELSE "upload"
  BY <1>3 DEF Moves
<1> QED BY <1>4, <1>5, <1>7, <1>8, <1>9, <1>10, <1>11, <1>12

LEMMA UploadEffect ==
  ASSUME ControlInv, Uploaded, NEW t \in Tables, UploadChunk(t)
  PROVE  /\ ControlInv' /\ Elsewhere(t)
         /\ bronze' = bronze /\ ctl' = ctl
         /\ run.put[t] \in PartNo
         /\ \A i \in PartNo : raw'[run.d][t][i] =
               IF i = run.put[t] THEN run.from[t].ed ELSE raw[run.d][t][i]
         /\ run'.step[t] = "upload" => run.put[t] + 1 < run.from[t].chunks
         /\ run'.step[t] = "parse" => /\ last'[run.d][t] = run.from[t]
                                      /\ run.put[t] + 1 = run.from[t].chunks
         /\ run'.step[t] \in {"upload", "parse"}
<1> USE DEF ControlInv
<1>1. run.pc = "tables" /\ run.step[t] = "upload"
  BY DEF UploadChunk, At
<1>2. run.d \in Days /\ run \in RunType
  BY <1>1 DEF AfterClose, OnADay, PullTypeOK
<1>3. run.from[t] \in Edn /\ run.put[t] \in Nat /\ run.put[t] < run.from[t].chunks
  BY <1>1, <1>2 DEF Uploaded, RunType
<1>4. /\ run.put[t] \in PartNo /\ run.from[t].ed \in Nat
      /\ run.put[t] \in Nat /\ run.from[t].chunks \in Nat
  BY <1>3, PullAssumption DEF Edn, PartNo
<1> DEFINE end == run.put[t] + 1 = run.from[t].chunks
<1>5. Moves(t, IF end THEN "parse" ELSE "upload")
  BY UploadMoves
<1>6. UNCHANGED <<writes, shown, source, closing, bronze, seen, ctl>>
  BY DEF UploadChunk, world, markerVars
<1>7. raw \in [Days -> [Tables -> Dir]] /\ last \in [Days -> [Tables -> Edn]]
  BY DEF PullTypeOK
<1>8. /\ last' \in [Days -> [Tables -> Edn]]
      /\ end => last'[run.d][t] = run.from[t]
      /\ \A d \in Days, u \in Tables : <<d, u>> # <<run.d, t>> => last'[d][u] = last[d][u]
  <2>1. last' = IF end THEN [last EXCEPT ![run.d][t] = run.from[t]] ELSE last
    BY DEF UploadChunk
  <2> HIDE DEF end
  <2> QED BY <1>2, <1>3, <1>7, <2>1
<1>9. /\ raw' \in [Days -> [Tables -> Dir]]
      /\ \A i \in PartNo : raw'[run.d][t][i] =
            IF i = run.put[t] THEN run.from[t].ed ELSE raw[run.d][t][i]
      /\ \A d \in Days, u \in Tables : <<d, u>> # <<run.d, t>> => raw'[d][u] = raw[d][u]
  <2> DEFINE dir == [raw[run.d][t] EXCEPT ![run.put[t]] = run.from[t].ed]
  <2>1. raw' = [raw EXCEPT ![run.d][t] = dir]
    BY DEF UploadChunk
  <2>2. raw[run.d][t] \in Dir
    BY <1>2, <1>7
  <2>3. /\ dir \in Dir
        /\ \A i \in PartNo : dir[i] = IF i = run.put[t] THEN run.from[t].ed ELSE raw[run.d][t][i]
    BY <1>4, <2>2 DEF Dir
  <2> HIDE DEF dir
  <2> QED BY <1>2, <1>7, <2>1, <2>3
<1>10. ControlInv'
  <2>1. bronze' \in [Days -> [Tables -> RowSet]] /\ seen' \in [Days -> [Tables -> RowSet]]
        /\ ctl' \in [Days -> [Tables -> CtlRow]]
    BY <1>6 DEF PullTypeOK
  <2> HIDE DEF end
  <2> QED BY <1>1, <1>5, <1>6, <1>8, <1>9, <2>1, TableControl
<1>11. Elsewhere(t)
  BY <1>6, <1>8, <1>9 DEF Elsewhere
<1>12. run'.step[t] = IF end THEN "parse" ELSE "upload"
  BY <1>5 DEF Moves
<1>13. run'.step[t] = "upload" => run.put[t] + 1 < run.from[t].chunks
  BY <1>3, <1>4, <1>12
<1>14. run'.step[t] = "parse" => end
  BY <1>12
<1> HIDE DEF end
<1>15. run'.step[t] = "parse" => last'[run.d][t] = run.from[t]
  BY <1>8, <1>14
<1> QED BY <1>4, <1>6, <1>9, <1>10, <1>11, <1>12, <1>13, <1>14, <1>15 DEF end

LEMMA ParseEffect ==
  ASSUME ControlInv, NEW t \in Tables, Parse(t)
  PROVE  /\ ControlInv' /\ Elsewhere(t)
         /\ raw' = raw /\ last' = last /\ ctl' = ctl
         /\ bronze'[run.d][t] = IF ReadRaw(raw[run.d][t]) = {} THEN bronze[run.d][t]
                                  ELSE ReadRaw(raw[run.d][t])
         /\ run.step[t] = "parse" /\ run'.step[t] = "count"
<1> USE DEF ControlInv
<1>1. run.pc = "tables" /\ run.step[t] = "parse"
  BY DEF Parse, At
<1>2. run.d \in Days /\ Moves(t, "count")
  BY <1>1, ParseMoves DEF AfterClose, OnADay
<1>3. UNCHANGED <<writes, shown, source, closing, raw, seen, last, ctl>>
  BY DEF Parse, world, markerVars
<1>4. raw[run.d][t] \in Dir /\ bronze \in [Days -> [Tables -> RowSet]]
  BY <1>2 DEF PullTypeOK
<1>5. ReadRaw(raw[run.d][t]) \in RowSet
  BY <1>4, ReadRawFinite
<1>6. bronze' = IF ReadRaw(raw[run.d][t]) = {} THEN bronze
                  ELSE [bronze EXCEPT ![run.d][t] = ReadRaw(raw[run.d][t])]
  BY DEF Parse
<1>7. /\ bronze' \in [Days -> [Tables -> RowSet]]
      /\ bronze'[run.d][t] = IF ReadRaw(raw[run.d][t]) = {} THEN bronze[run.d][t]
                               ELSE ReadRaw(raw[run.d][t])
      /\ \A d \in Days, u \in Tables : <<d, u>> # <<run.d, t>> => bronze'[d][u] = bronze[d][u]
  BY <1>2, <1>4, <1>5, <1>6
<1>8. ControlInv'
  <2>1. /\ raw' \in [Days -> [Tables -> Dir]] /\ seen' \in [Days -> [Tables -> RowSet]]
        /\ ctl' \in [Days -> [Tables -> CtlRow]] /\ last' \in [Days -> [Tables -> Edn]]
    BY <1>3 DEF PullTypeOK
  <2> QED BY <1>1, <1>2, <1>3, <1>7, <2>1, TableControl
<1>9. Elsewhere(t)
  BY <1>3, <1>7 DEF Elsewhere
<1> QED BY <1>1, <1>2, <1>3, <1>7, <1>8, <1>9 DEF Moves

(* The steps that leave raw zone and partitions alone.                       *)
LEMMA RestEffect ==
  ASSUME ControlInv, NEW t \in Tables, Count(t) \/ SealTable(t) \/ FailTask(t)
  PROVE  /\ ControlInv' /\ Elsewhere(t)
         /\ raw' = raw /\ bronze' = bronze /\ last' = last
         /\ \/ run.step[t] = "count" /\ run'.step[t] = "seal" /\ ctl' = ctl
            \/ run.step[t] = "seal" /\ run'.step[t] = "over"
            \/ run'.step[t] = "over" /\ ctl' = ctl
<1> USE DEF ControlInv
<1>1. run.pc = "tables" /\ run.step[t] # "over"
  BY DEF Count, SealTable, FailTask, At
<1>2. run.d \in Days /\ OnADay /\ run \in RunType
  BY <1>1 DEF AfterClose, OnADay, PullTypeOK
<1>3. UNCHANGED <<writes, shown, source, closing, raw, bronze, last>>
  BY DEF Count, SealTable, FailTask, world, lake, markerVars
<1>4. /\ raw' \in [Days -> [Tables -> Dir]] /\ bronze' \in [Days -> [Tables -> RowSet]]
      /\ last' \in [Days -> [Tables -> Edn]]
  BY <1>3 DEF PullTypeOK
<1>5. CASE Count(t)
  <2>1. Moves(t, "seal") /\ seen' \in [Days -> [Tables -> RowSet]]
    BY <1>2, <1>5, CountMoves
  <2>2. ctl' = ctl /\ run.step[t] = "count"
    BY <1>5 DEF Count, At
  <2>3. ctl' \in [Days -> [Tables -> CtlRow]]
    BY <2>2 DEF PullTypeOK
  <2>4. ControlInv'
    BY <1>1, <1>3, <1>4, <2>1, <2>2, <2>3, TableControl
  <2> QED BY <1>3, <2>1, <2>2, <2>4 DEF Moves, Elsewhere
<1>6. CASE SealTable(t)
  <2>1. Moves(t, "over") /\ seen' = seen /\ run.step[t] = "seal"
    BY <1>2, <1>6, OverMoves DEF SealTable, At, lake
  <2>2. seen' \in [Days -> [Tables -> RowSet]]
    BY <2>1 DEF PullTypeOK
  <2>3. run.n[t] \in Nat /\ ctl' = Seal(ctl, run.d, t, Null, run.n[t], run.n[t])
    BY <1>2, <1>6 DEF SealTable, RunType
  <2>4. /\ ctl' \in [Days -> [Tables -> CtlRow]]
        /\ \A e \in Days, u \in Tables : <<e, u>> # <<run.d, t>> => ctl'[e][u] = ctl[e][u]
    BY <1>2, <2>3, SealRow
  <2>5. ControlInv'
    BY <1>1, <1>2, <1>3, <1>4, <2>1, <2>2, <2>4, TableControl
  <2> QED BY <1>3, <2>1, <2>4, <2>5 DEF Moves, Elsewhere
<1>7. CASE FailTask(t)
  <2>1. Moves(t, "over") /\ seen' = seen /\ ctl' = ctl
    BY <1>2, <1>7, OverMoves DEF FailTask, lake
  <2>2. seen' \in [Days -> [Tables -> RowSet]] /\ ctl' \in [Days -> [Tables -> CtlRow]]
    BY <2>1 DEF PullTypeOK
  <2>3. ControlInv'
    BY <1>1, <1>3, <1>4, <2>1, <2>2, TableControl
  <2> QED BY <1>3, <2>1, <2>3 DEF Moves, Elsewhere
<1> QED BY <1>5, <1>6, <1>7

LEMMA StutterControl ==
  ASSUME ControlInv, UNCHANGED pullVars
  PROVE  ControlInv'
BY DEF ControlInv, PullTypeOK, AfterClose, OnADay, WorkIsPending, OpensUnsealed,
       pullVars, world, lake, markerVars

LEMMA ControlStep == ControlInv /\ Uploaded /\ [PullNext]_pullVars => ControlInv'
BY WorldControl, RunControl, OpenControl, ExtractEffect, UploadEffect, ParseEffect, RestEffect,
   StutterControl
   DEF PullNext, PullStep, TableStep

-----------------------------------------------------------------------------
(* The data part.                                                           *)

LEMMA DataInit == PullInit => ReadLate /\ Uploaded /\ NothingMissing
<1> SUFFICES ASSUME PullInit PROVE ReadLate /\ Uploaded /\ NothingMissing
  OBVIOUS
<1>1. run.pc = "idle"
  BY DEF PullInit, Idle
<1>2. \A d \in Days, t \in Tables : /\ \A i \in PartNo : raw[d][t][i] = 0
                                    /\ bronze[d][t] = {} /\ closing[d][t] = 0
                                    /\ ctl[d][t].status = "none"
  BY DEF PullInit, NoRow
<1>3. \A t \in Tables : source[t].ed = 1
  BY DEF PullInit
<1> QED BY <1>1, <1>2, <1>3 DEF ReadLate, ReadAfterClose, Uploaded, NothingMissing, Sealed

LEMMA Halved ==
  ASSUME NEW n \in Nat, n % 2 = 0
  PROVE  n = 2 * (n \div 2)
OBVIOUS

(* T24's edits come later than what was read; a day is closed before         *)
(* anything is read for it.                                                  *)
LEMMA WorldReadLate ==
  ASSUME ControlInv, ReadLate, (\E t \in Tables : Edit(t)) \/ Cob \/ ShowMarker
  PROVE  ReadLate'
<1>1. /\ UNCHANGED <<raw, bronze, run>> /\ writes \in Nat /\ writes' \in Nat /\ writes <= writes'
  BY WorldTypes, PullAssumption DEF ControlInv, PullTypeOK
<1>2. /\ source \in [Tables -> Edn] /\ closing \in [Days -> [Tables -> Nat]]
      /\ \A t \in Tables : source[t].ed \in Nat
      /\ \A d \in Days, t \in Tables : closing[d][t] \in Nat
      /\ raw \in [Days -> [Tables -> Dir]]
  BY DEF ControlInv, PullTypeOK, Edn
<1>3. CASE \E t \in Tables : Edit(t)
  <2>1. closing' = closing /\ writes' = writes
    BY <1>3 DEF Edit, markerVars
  <2>2. \A t \in Tables : source'[t].ed \in Nat /\ source[t].ed <= source'[t].ed
    BY <1>2, <1>3 DEF Edit
  <2>3. ReadAfterClose'
    BY <1>1, <2>1 DEF ReadLate, ReadAfterClose
  <2>4. /\ \A t \in Tables : source'[t].ed > 0
        /\ \A d \in Days, t \in Tables : closing[d][t] <= source'[t].ed
    BY <1>2, <2>2 DEF ReadLate
  <2> QED BY <1>1, <2>1, <2>3, <2>4 DEF ReadLate
<1>4. CASE Cob
  <2>1. source' = source /\ writes' = writes + 1
    BY <1>4 DEF Cob, Write
  <2>2. \A d \in Days, t \in Tables :
          closing'[d][t] = closing[d][t] \/ (closing'[d][t] = source[t].ed /\ 2 * d = writes')
    <3>1. CASE writes' % 2 = 0
      <4>1. closing' = [closing EXCEPT ![writes' \div 2] = [t \in Tables |-> source[t].ed]]
        BY <1>4, <3>1 DEF Cob
      <4>2. writes' = 2 * (writes' \div 2)
        BY <1>1, <3>1, Halved
      <4> QED BY <1>2, <4>1, <4>2
    <3>2. CASE writes' % 2 # 0
      BY <1>4, <3>2 DEF Cob
    <3> QED BY <3>1, <3>2
  <2>3. \A d \in Days, t \in Tables : 2 * d <= writes => closing'[d][t] = closing[d][t]
    BY <1>1, <2>1, <2>2 DEF Days
  <2>4. \A d \in Days, t \in Tables : \A i \in PartNo :
          raw[d][t][i] # 0 => 2 * d <= writes' /\ closing'[d][t] <= raw[d][t][i]
    BY <1>1, <2>3 DEF ReadLate, Days
  <2>5. ReadAfterClose'
    BY <1>1, <2>3 DEF ReadLate, ReadAfterClose, Days
  <2>6. run.pc = "tables" => run.d \in Days /\ 2 * run.d <= writes
    BY DEF ControlInv, AfterClose, OnADay
  <2>7. \A d \in Days, t \in Tables : closing'[d][t] <= source[t].ed
    BY <1>2, <2>2 DEF ReadLate
  <2> QED BY <1>1, <2>1, <2>3, <2>4, <2>5, <2>6, <2>7 DEF ReadLate
<1>5. CASE ShowMarker
  <2>1. source' = source /\ closing' = closing /\ writes' = writes
    BY <1>5 DEF ShowMarker, Show
  <2> QED BY <1>1, <2>1 DEF ReadLate, ReadAfterClose
<1> QED BY <1>3, <1>4, <1>5

(* A run that is not at its tables leaves the data alone.                    *)
LEMMA IdleData ==
  ASSUME ReadLate, NothingMissing,
         UNCHANGED <<writes, source, closing, raw, bronze, last>>,
         run'.pc = "tables" => \A t \in Tables : run'.step[t] = "extract",
         \A d \in Days, t \in Tables : ctl'[d][t].status = "sealed" => ctl'[d][t] = ctl[d][t]
  PROVE  ReadLate' /\ Uploaded' /\ NothingMissing'
BY DEF ReadLate, ReadAfterClose, Uploaded, NothingMissing, Sealed

(* A table's step: what happens to the table itself.                         *)
LEMMA TableData ==
  ASSUME PullInv, NEW t \in Tables, NEW s, run.pc = "tables", run.d \in Days,
         Moves(t, s), Elsewhere(t),
         \A i \in PartNo : raw'[run.d][t][i] # 0 =>
           2 * run.d <= writes /\ closing[run.d][t] <= raw'[run.d][t][i],
         \A r \in bronze'[run.d][t] : 2 * run.d <= writes /\ r.ed >= closing[run.d][t],
         s = "upload" =>
           /\ run'.from[t].ed > 0 /\ closing[run.d][t] <= run'.from[t].ed
           /\ run'.put[t] < run'.from[t].chunks
           /\ \A i \in PartNo : i < run'.put[t] => raw'[run.d][t][i] = run'.from[t].ed,
         s \in {"parse", "count", "seal"} =>
           RowsOf(last'[run.d][t]) \subseteq ReadRaw(raw'[run.d][t]),
         s \in {"count", "seal"} => RowsOf(last'[run.d][t]) \subseteq bronze'[run.d][t],
         ctl'[run.d][t].status = "sealed" => RowsOf(last'[run.d][t]) \subseteq bronze'[run.d][t]
  PROVE  ReadLate' /\ Uploaded' /\ NothingMissing'
<1>1. ReadLate'
  <2>1. \A d \in Days, u \in Tables : \A i \in PartNo :
          raw'[d][u][i] # 0 => 2 * d <= writes /\ closing[d][u] <= raw'[d][u][i]
    BY DEF Elsewhere, PullInv, ReadLate
  <2>2. ReadAfterClose'
    BY DEF Elsewhere, PullInv, ReadLate, ReadAfterClose
  <2>3. \A u \in Tables : run'.step[u] = "upload" =>
          run'.from[u].ed > 0 /\ closing[run.d][u] <= run'.from[u].ed
    BY DEF Moves, PullInv, ReadLate
  <2> QED BY <2>1, <2>2, <2>3 DEF Elsewhere, Moves, PullInv, ReadLate
<1>2. Uploaded'
  <2>1. run' \in RunType /\ run'.pc = run.pc /\ run'.d = run.d /\ run'.step[t] = s
    BY DEF Moves
  <2>2. ASSUME NEW u \in Tables, u # t
        PROVE  /\ run'.step[u] = run.step[u] /\ run'.put[u] = run.put[u]
               /\ run'.from[u] = run.from[u]
               /\ raw'[run.d][u] = raw[run.d][u] /\ bronze'[run.d][u] = bronze[run.d][u]
               /\ last'[run.d][u] = last[run.d][u]
    BY <2>2 DEF Moves, Elsewhere
  <2>3. ASSUME NEW u \in Tables
        PROVE  /\ run'.step[u] = "upload" =>
                    /\ run'.put[u] < run'.from[u].chunks
                    /\ \A i \in PartNo : i < run'.put[u] => raw'[run'.d][u][i] = run'.from[u].ed
               /\ run'.step[u] \in {"parse", "count", "seal"} =>
                    RowsOf(last'[run'.d][u]) \subseteq ReadRaw(raw'[run'.d][u])
               /\ run'.step[u] \in {"count", "seal"} =>
                    RowsOf(last'[run'.d][u]) \subseteq bronze'[run'.d][u]
    <3>1. CASE u = t
      BY <2>1, <3>1
    <3>2. CASE u # t
      BY <2>1, <2>2, <3>2 DEF PullInv, Uploaded
    <3> QED BY <3>1, <3>2
  <2>4. \A u \in Tables :
          /\ RowsOf(last'[run'.d][u]) = RowsOf(last[run.d][u])'
          /\ ReadRaw(raw'[run'.d][u]) = ReadRaw(raw[run.d][u])'
    BY DEF RowsOf, ReadRaw
  <2> QED BY <2>3, <2>4, Zenon DEF Uploaded
<1>3. NothingMissing'
  BY DEF Elsewhere, PullInv, NothingMissing, Sealed
<1> QED BY <1>1, <1>2, <1>3

LEMMA ExtractData ==
  ASSUME PullInv, NEW t \in Tables, Extract(t)
  PROVE  ReadLate' /\ Uploaded' /\ NothingMissing'
<1> DEFINE s == IF t \in Jdbc \/ source[t].chunks = 0 THEN "parse" ELSE "upload"
<1>1. run.pc = "tables" /\ run.step[t] = "extract"
  BY DEF Extract, At
<1>2. run.d \in Days /\ 2 * run.d <= writes
  BY <1>1 DEF PullInv, ControlInv, AfterClose, OnADay
<1>3. /\ Moves(t, s) /\ run'.from[t] = source[t] /\ run'.put[t] = 0
  BY ExtractMoves DEF PullInv, ControlInv
<1>4. /\ Elsewhere(t) /\ bronze' = bronze /\ ctl' = ctl
      /\ \A i \in PartNo : raw'[run.d][t][i] \in {0, source[t].ed, raw[run.d][t][i]}
      /\ run'.step[t] = "upload" => source[t].chunks > 0
      /\ run'.step[t] = "parse" => /\ last'[run.d][t] = source[t]
                                   /\ source[t].ed > 0 =>
                                        RowsOf(source[t]) \subseteq ReadRaw(raw'[run.d][t])
  BY ExtractEffect DEF PullInv
<1>5. /\ source[t].ed > 0 /\ closing[run.d][t] <= source[t].ed
      /\ \A i \in PartNo : raw[run.d][t][i] # 0 => closing[run.d][t] <= raw[run.d][t][i]
  BY <1>2 DEF PullInv, ReadLate
<1>6. s \in {"parse", "upload"} /\ run'.step[t] = s
  BY <1>3 DEF Moves
<1>7. ctl[run.d][t].status = "pending"
  BY <1>1 DEF PullInv, ControlInv, WorkIsPending
<1> HIDE DEF s
<1>8. \A i \in PartNo : raw'[run.d][t][i] # 0 =>
        2 * run.d <= writes /\ closing[run.d][t] <= raw'[run.d][t][i]
  BY <1>2, <1>4, <1>5
<1>9. \A r \in bronze'[run.d][t] : 2 * run.d <= writes /\ r.ed >= closing[run.d][t]
  BY <1>2, <1>4 DEF PullInv, ReadLate, ReadAfterClose
<1>10. s = "upload" =>
         /\ run'.from[t].ed > 0 /\ closing[run.d][t] <= run'.from[t].ed
         /\ run'.put[t] < run'.from[t].chunks
         /\ \A i \in PartNo : i < run'.put[t] => raw'[run.d][t][i] = run'.from[t].ed
  BY <1>3, <1>4, <1>5, <1>6 DEF PartNo
<1>11. s \in {"parse", "count", "seal"} =>
         RowsOf(last'[run.d][t]) \subseteq ReadRaw(raw'[run.d][t])
  <2>1. s = "parse" => /\ last'[run.d][t] = source[t]
                       /\ RowsOf(source[t]) \subseteq ReadRaw(raw'[run.d][t])
    BY <1>4, <1>5, <1>6
  <2>2. s \in {"parse", "count", "seal"} => s = "parse"
    BY <1>6
  <2> QED BY <2>1, <2>2
<1>12. s \notin {"count", "seal"} /\ ctl'[run.d][t].status # "sealed"
  BY <1>4, <1>6, <1>7
<1> QED BY <1>1, <1>2, <1>3, <1>4, <1>8, <1>9, <1>10, <1>11, <1>12, TableData

LEMMA UploadData ==
  ASSUME PullInv, NEW t \in Tables, UploadChunk(t)
  PROVE  ReadLate' /\ Uploaded' /\ NothingMissing'
<1> DEFINE s == IF run.put[t] + 1 = run.from[t].chunks THEN "parse" ELSE "upload"
           d == run.d
           e == run.from[t]
<1>1. run.pc = "tables" /\ run.step[t] = "upload"
  BY DEF UploadChunk, At
<1>2. d \in Days /\ 2 * d <= writes
  BY <1>1 DEF PullInv, ControlInv, AfterClose, OnADay
<1>3. Moves(t, s) /\ run'.from[t] = e /\ run'.put[t] = run.put[t] + 1
  BY UploadMoves DEF PullInv, ControlInv
<1>4. /\ Elsewhere(t) /\ bronze' = bronze /\ ctl' = ctl
      /\ run.put[t] \in PartNo
      /\ \A i \in PartNo : raw'[d][t][i] = IF i = run.put[t] THEN e.ed ELSE raw[d][t][i]
      /\ run'.step[t] = "upload" => run.put[t] + 1 < e.chunks
      /\ run'.step[t] = "parse" => last'[d][t] = e /\ run.put[t] + 1 = e.chunks
  BY UploadEffect DEF PullInv
<1>5. /\ e.ed > 0 /\ closing[d][t] <= e.ed
      /\ \A i \in PartNo : raw[d][t][i] # 0 => closing[d][t] <= raw[d][t][i]
      /\ \A i \in PartNo : i < run.put[t] => raw[d][t][i] = e.ed
  BY <1>1, <1>2 DEF PullInv, ReadLate, Uploaded
<1>6. s \in {"parse", "upload"} /\ run'.step[t] = s
  BY <1>3 DEF Moves
<1>7. ctl[d][t].status = "pending"
  BY <1>1 DEF PullInv, ControlInv, WorkIsPending
<1>8. run.put[t] \in Nat /\ e \in Edn /\ MaxChunks \in Nat
  <2>1. run \in RunType
    BY DEF PullInv, ControlInv, PullTypeOK
  <2> QED BY <2>1, PullAssumption DEF RunType
<1> HIDE DEF s
<1>9. \A i \in PartNo : raw'[d][t][i] # 0 =>
        2 * d <= writes /\ closing[d][t] <= raw'[d][t][i]
  BY <1>2, <1>4, <1>5
<1>10. \A r \in bronze'[d][t] : 2 * d <= writes /\ r.ed >= closing[d][t]
  BY <1>2, <1>4 DEF PullInv, ReadLate, ReadAfterClose
<1>11. \A i \in PartNo : i < run.put[t] + 1 => raw'[d][t][i] = e.ed
  BY <1>4, <1>5, <1>8 DEF PartNo
<1>12. s = "upload" =>
         /\ run'.from[t].ed > 0 /\ closing[d][t] <= run'.from[t].ed
         /\ run'.put[t] < run'.from[t].chunks
         /\ \A i \in PartNo : i < run'.put[t] => raw'[d][t][i] = run'.from[t].ed
  BY <1>3, <1>4, <1>5, <1>6, <1>11
<1>13. s = "parse" => RowsOf(last'[d][t]) \subseteq ReadRaw(raw'[d][t])
  <2> SUFFICES ASSUME s = "parse" PROVE RowsOf(last'[d][t]) \subseteq ReadRaw(raw'[d][t])
    OBVIOUS
  <2>1. last'[d][t] = e /\ e.chunks = run.put[t] + 1
    BY <1>4, <1>6
  <2>2. \A i \in 0..(e.chunks - 1) : i \in PartNo /\ raw'[d][t][i] = e.ed
    BY <1>8, <1>11, <2>1 DEF Edn, PartNo
  <2> QED BY <1>5, <2>1, <2>2 DEF RowsOf, ReadRaw
<1>14. s \notin {"count", "seal"} /\ ctl'[d][t].status # "sealed"
  BY <1>4, <1>6, <1>7
<1> QED BY <1>1, <1>2, <1>3, <1>4, <1>9, <1>10, <1>12, <1>13, <1>14, TableData

LEMMA ParseData ==
  ASSUME PullInv, NEW t \in Tables, Parse(t)
  PROVE  ReadLate' /\ Uploaded' /\ NothingMissing'
<1>1. /\ Elsewhere(t) /\ raw' = raw /\ last' = last /\ ctl' = ctl
      /\ bronze'[run.d][t] = IF ReadRaw(raw[run.d][t]) = {} THEN bronze[run.d][t]
                               ELSE ReadRaw(raw[run.d][t])
      /\ run.pc = "tables" /\ run.step[t] = "parse"
  BY ParseEffect DEF PullInv, Parse, At
<1>2. run.d \in Days /\ 2 * run.d <= writes
  BY <1>1 DEF PullInv, ControlInv, AfterClose, OnADay
<1>3. Moves(t, "count")
  BY ParseMoves DEF PullInv, ControlInv
<1>4. /\ \A i \in PartNo : raw[run.d][t][i] # 0 => closing[run.d][t] <= raw[run.d][t][i]
      /\ \A r \in bronze[run.d][t] : r.ed >= closing[run.d][t]
  BY <1>2 DEF PullInv, ReadLate, ReadAfterClose
<1>5. /\ closing[run.d][t] \in Nat
      /\ \A i \in PartNo : raw[run.d][t][i] \in Nat
  <2>1. closing \in [Days -> [Tables -> Nat]] /\ raw[run.d][t] \in Dir
    BY <1>2 DEF PullInv, ControlInv, PullTypeOK
  <2> QED BY <1>2, <2>1 DEF Dir
<1>6. \A r \in ReadRaw(raw[run.d][t]) : r.ed >= closing[run.d][t]
  BY <1>4, <1>5 DEF ReadRaw
<1>7. \A r \in bronze'[run.d][t] : 2 * run.d <= writes /\ r.ed >= closing[run.d][t]
  BY <1>1, <1>2, <1>4, <1>6
<1>8. \A i \in PartNo : raw'[run.d][t][i] # 0 =>
        2 * run.d <= writes /\ closing[run.d][t] <= raw'[run.d][t][i]
  BY <1>1, <1>2, <1>4
<1>9. /\ RowsOf(last'[run.d][t]) \subseteq ReadRaw(raw'[run.d][t])
      /\ RowsOf(last'[run.d][t]) \subseteq bronze'[run.d][t]
  <2>1. RowsOf(last[run.d][t]) \subseteq ReadRaw(raw[run.d][t])
    BY <1>1 DEF PullInv, Uploaded
  <2> QED BY <1>1, <2>1
<1> QED BY <1>1, <1>2, <1>3, <1>7, <1>8, <1>9, TableData

LEMMA RestData ==
  ASSUME PullInv, NEW t \in Tables, Count(t) \/ SealTable(t) \/ FailTask(t)
  PROVE  ReadLate' /\ Uploaded' /\ NothingMissing'
<1>1. /\ Elsewhere(t) /\ raw' = raw /\ bronze' = bronze /\ last' = last
      /\ \/ run.step[t] = "count" /\ run'.step[t] = "seal" /\ ctl' = ctl
         \/ run.step[t] = "seal" /\ run'.step[t] = "over"
         \/ run'.step[t] = "over" /\ ctl' = ctl
  BY RestEffect DEF PullInv
<1>2. run.pc = "tables" /\ run.step[t] # "over"
  BY DEF Count, SealTable, FailTask, At
<1>3. run.d \in Days /\ OnADay /\ run \in RunType
  BY <1>2 DEF PullInv, ControlInv, AfterClose, OnADay, PullTypeOK
<1>4. PICK s : Moves(t, s)
  <2>1. CASE Count(t)
    BY <1>3, <2>1, CountMoves DEF PullInv, ControlInv
  <2>2. CASE SealTable(t) \/ FailTask(t)
    BY <1>3, <2>2, OverMoves DEF SealTable, FailTask
  <2> QED BY <2>1, <2>2
<1>5. run'.step[t] = s
  BY <1>4 DEF Moves
<1>6. /\ \A i \in PartNo : raw'[run.d][t][i] # 0 =>
           2 * run.d <= writes /\ closing[run.d][t] <= raw'[run.d][t][i]
      /\ \A r \in bronze'[run.d][t] : 2 * run.d <= writes /\ r.ed >= closing[run.d][t]
  BY <1>1, <1>3 DEF PullInv, ReadLate, ReadAfterClose
<1>7. run.step[t] \in {"count", "seal"} =>
        /\ RowsOf(last'[run.d][t]) \subseteq bronze'[run.d][t]
        /\ run.step[t] = "count" => RowsOf(last'[run.d][t]) \subseteq ReadRaw(raw'[run.d][t])
  BY <1>1, <1>2 DEF PullInv, Uploaded
<1>8. ctl[run.d][t].status = "pending"
  BY <1>2 DEF PullInv, ControlInv, WorkIsPending
<1>9. /\ s # "upload"
      /\ s \in {"parse", "count", "seal"} =>
           RowsOf(last'[run.d][t]) \subseteq ReadRaw(raw'[run.d][t])
      /\ s \in {"count", "seal"} => RowsOf(last'[run.d][t]) \subseteq bronze'[run.d][t]
      /\ ctl'[run.d][t].status = "sealed" =>
           RowsOf(last'[run.d][t]) \subseteq bronze'[run.d][t]
  BY <1>1, <1>5, <1>7, <1>8
<1> QED BY <1>1, <1>2, <1>3, <1>4, <1>6, <1>9, TableData

LEMMA PullStepInv == PullInv /\ [PullNext]_pullVars => PullInv'
<1> SUFFICES ASSUME PullInv, [PullNext]_pullVars PROVE PullInv'
  OBVIOUS
<1>1. ControlInv'
  BY ControlStep DEF PullInv
<1>2. CASE (\E t \in Tables : Edit(t)) \/ Cob \/ ShowMarker
  <2>1. UNCHANGED <<raw, bronze, last, ctl, run>> /\ ReadLate'
    BY <1>2, WorldTypes, WorldReadLate DEF PullInv
  <2>2. Uploaded' /\ NothingMissing'
    BY <2>1 DEF PullInv, Uploaded, NothingMissing, Sealed
  <2> QED BY <1>1, <2>1, <2>2 DEF PullInv
<1>3. CASE Trigger \/ FailSensor \/ EndRun \/ WaitCob \/ \E d \in Days : TriggerForced(d)
  <2>1. /\ UNCHANGED <<writes, source, closing, raw, bronze, last, ctl>>
        /\ run'.pc # "tables"
    BY <1>3, RunControl DEF PullInv
  <2>2. ReadLate' /\ Uploaded' /\ NothingMissing'
    BY <2>1, IdleData DEF PullInv
  <2> QED BY <1>1, <2>2 DEF PullInv
<1>4. ASSUME NEW t \in Tables, OpenNext(t) PROVE PullInv'
  <2>1. /\ UNCHANGED <<writes, source, closing, raw, bronze, last>>
        /\ run'.pc = "tables" => \A u \in Tables : run'.step[u] = "extract"
        /\ \A d \in Days, u \in Tables : ctl'[d][u].status = "sealed" => ctl'[d][u] = ctl[d][u]
    BY <1>4, OpenControl DEF PullInv
  <2>2. ReadLate' /\ Uploaded' /\ NothingMissing'
    BY <2>1, IdleData DEF PullInv
  <2> QED BY <1>1, <2>2 DEF PullInv
<1>5. ASSUME NEW t \in Tables,
             Extract(t) \/ UploadChunk(t) \/ Parse(t) \/ Count(t) \/ SealTable(t) \/ FailTask(t)
      PROVE  PullInv'
  BY <1>1, <1>5, ExtractData, UploadData, ParseData, RestData DEF PullInv
<1>6. CASE UNCHANGED pullVars
  <2>1. ReadLate'
    BY <1>6 DEF PullInv, ReadLate, ReadAfterClose, pullVars, world, lake, markerVars
  <2>2. Uploaded' /\ NothingMissing'
    BY <1>6 DEF PullInv, Uploaded, NothingMissing, Sealed, pullVars, world, lake, markerVars
  <2> QED BY <1>1, <2>1, <2>2 DEF PullInv
<1> QED BY <1>2, <1>3, <1>4, <1>5, <1>6 DEF PullNext, PullStep, TableStep

LEMMA PullInvariant == PullSpec => []PullInv
<1>1. PullInit => PullInv
  BY ControlInit, DataInit DEF PullInv
<1> QED BY <1>1, PullStepInv, PTL DEF PullSpec

-----------------------------------------------------------------------------
(* Theorems.                                                                *)

(* For any tables, days and editions, through failed tasks and replays: a    *)
(* sealed partition has every row of the last extract of its day.            *)
THEOREM SealedIsComplete == PullSpec => []NothingMissing
BY PullInvariant, PTL DEF PullInv

(* Nothing in the partition of a day was read before T24 closed that day.    *)
THEOREM PulledAfterClose == PullSpec => []ReadAfterClose
<1>1. PullInv => ReadAfterClose
  BY DEF PullInv, ReadLate
<1> QED BY <1>1, PullInvariant, PTL

(* A partition changes only while its control row is pending.                *)
THEOREM DataChangesUnderPending == PullSpec => ChangesOnlyPending
<1>1. ASSUME PullInv, [PullNext]_pullVars, NEW d \in Days, NEW t \in Tables,
             bronze'[d][t] # bronze[d][t]
      PROVE  ctl[d][t].status = "pending"
  <2>1. PICK u \in Tables : Parse(u)
    <3>1. ~ \/ (\E x \in Tables : Edit(x)) \/ Cob \/ ShowMarker \/ UNCHANGED pullVars
            \/ Trigger \/ FailSensor \/ EndRun \/ WaitCob \/ \E x \in Days : TriggerForced(x)
            \/ \E x \in Tables : \/ OpenNext(x) \/ Extract(x) \/ UploadChunk(x) \/ Count(x)
                                  \/ SealTable(x) \/ FailTask(x)
      BY <1>1 DEF Edit, Cob, ShowMarker, pullVars, Trigger, FailSensor, EndRun, WaitCob,
                  TriggerForced, OpenNext, Extract, UploadChunk, Count, SealTable, FailTask,
                  world, lake
    <3> QED BY <1>1, <3>1 DEF PullNext, PullStep, TableStep
  <2>2. d = run.d /\ t = u /\ run.pc = "tables" /\ run.step[u] = "parse"
    BY <1>1, <2>1, ParseEffect DEF PullInv, Elsewhere, Parse, At
  <2> QED BY <1>1, <2>2 DEF PullInv, ControlInv, WorkIsPending
<1>2. PullInv /\ [PullNext]_pullVars =>
        [\A d \in Days, t \in Tables :
           bronze'[d][t] # bronze[d][t] => ctl[d][t].status = "pending"]_pullVars
  BY <1>1
<1> QED BY <1>2, PullInvariant, PTL DEF PullSpec, ChangesOnlyPending

(* A day whose tables are all sealed is left alone by runs nobody forced.    *)
THEOREM SealedDayIsAtRest == PullSpec => SealedDayIsLeft
<1>1. ASSUME PullInv, [PullNext]_pullVars, NEW d \in Days,
             AllSealed(ctl, d, Tables), ~run.forced
      PROVE  ctl'[d] = ctl[d] /\ raw'[d] = raw[d]
  <2>1. \A t \in Tables : ctl[d][t].status = "sealed"
    BY <1>1, AllSealedIsEach
  <2>2. CASE \/ (\E t \in Tables : Edit(t)) \/ Cob \/ ShowMarker \/ UNCHANGED pullVars
             \/ Trigger \/ FailSensor \/ EndRun \/ WaitCob \/ \E x \in Days : TriggerForced(x)
    BY <2>2 DEF Edit, Cob, ShowMarker, pullVars, Trigger, FailSensor, EndRun, WaitCob,
                TriggerForced, lake
  <2>3. ASSUME NEW t \in Tables, OpenNext(t) PROVE ctl'[d] = ctl[d] /\ raw'[d] = raw[d]
    <3>1. d # run.d
      BY <1>1, <2>1, <2>3 DEF OpenNext, PullInv, ControlInv, OpensUnsealed
    <3> QED BY <1>1, <2>3, <3>1, OpenControl DEF PullInv
  <2>4. ASSUME NEW t \in Tables,
               Extract(t) \/ UploadChunk(t) \/ Parse(t) \/ Count(t) \/ SealTable(t) \/ FailTask(t)
        PROVE  ctl'[d] = ctl[d] /\ raw'[d] = raw[d]
    <3>1. run.pc = "tables" /\ run.step[t] # "over"
      BY <2>4 DEF Extract, UploadChunk, Parse, Count, SealTable, FailTask, At
    <3>2. d # run.d
      BY <1>1, <2>1, <3>1 DEF PullInv, ControlInv, WorkIsPending
    <3>3. Elsewhere(t) /\ ControlInv /\ ControlInv'
      BY <1>1, <2>4, ExtractEffect, UploadEffect, ParseEffect, RestEffect DEF PullInv
    <3>4. \A u \in Tables : ctl'[d][u] = ctl[d][u] /\ raw'[d][u] = raw[d][u]
      BY <3>2, <3>3 DEF Elsewhere
    <3>5. /\ ctl \in [Days -> [Tables -> CtlRow]] /\ ctl' \in [Days -> [Tables -> CtlRow]]
          /\ raw \in [Days -> [Tables -> Dir]] /\ raw' \in [Days -> [Tables -> Dir]]
      BY <3>3 DEF ControlInv, PullTypeOK
    <3>6. /\ ctl[d] \in [Tables -> CtlRow] /\ ctl'[d] \in [Tables -> CtlRow]
          /\ raw[d] \in [Tables -> Dir] /\ raw'[d] \in [Tables -> Dir]
      BY <3>5
    <3> QED BY <3>4, <3>6
  <2> QED BY <1>1, <2>2, <2>3, <2>4 DEF PullNext, PullStep, TableStep
<1>2. PullInv /\ [PullNext]_pullVars =>
        [\A d \in Days : (AllSealed(ctl, d, Tables) /\ ~run.forced)
           => ctl'[d] = ctl[d] /\ raw'[d] = raw[d]]_pullVars
  BY <1>1
<1> QED BY <1>2, PullInvariant, PTL DEF PullSpec, SealedDayIsLeft
-----------------------------------------------------------------------------
(* The pipeline implements the ledger.                                      *)

(* One row of the control table is written.                                  *)
LEMMA SealedMoves ==
  ASSUME NEW d \in Days, NEW t \in Tables,
         \A e \in Days, u \in Tables : <<e, u>> # <<d, t>> => ctl'[e][u] = ctl[e][u]
  PROVE  /\ ctl'[d][t].status # "sealed"
              => SealedByDay' = [SealedByDay EXCEPT ![d] = @ \ {t}]
         /\ ctl'[d][t].status = "sealed"
              => SealedByDay' = [SealedByDay EXCEPT ![d] = @ \cup {t}]
<1>1. \A e \in Days : e # d => SealedByDay'[e] = SealedByDay[e]
  BY DEF SealedByDay, Sealed
<1>2. ctl'[d][t].status # "sealed" => SealedByDay'[d] = SealedByDay[d] \ {t}
  BY DEF SealedByDay, Sealed
<1>3. ctl'[d][t].status = "sealed" => SealedByDay'[d] = SealedByDay[d] \cup {t}
  BY DEF SealedByDay, Sealed
<1>4. /\ SealedByDay' = [e \in Days |-> SealedByDay'[e]]
      /\ SealedByDay = [e \in Days |-> SealedByDay[e]]
  BY DEF SealedByDay
<1> HIDE DEF SealedByDay
<1> QED BY <1>1, <1>2, <1>3, <1>4

(* What the ledger sees of the run.                                          *)
LEMMA InHandOnADay ==
  ASSUME ControlInv, OnADay
  PROVE  /\ DayInHand = [d |-> run.d, forced |-> run.forced,
                         over |-> {t \in Tables : run.pc = "tables" /\ run.step[t] = "over"}]
         /\ DayInHand # Ledger!NoRun
         /\ run.d \in Days /\ run.d \in 1..MaxDay
<1>1. run.d \in Days
  BY DEF ControlInv, AfterClose
<1>2. run.d # 0 /\ run.d \in 1..MaxDay
  BY <1>1 DEF Days
<1> QED BY <1>1, <1>2 DEF DayInHand, OnADay, Ledger!NoRun

LEMMA MovesInHand ==
  ASSUME ControlInv, NEW t \in Tables, NEW s, run.pc = "tables", run.step[t] # "over",
         Moves(t, s)
  PROVE  /\ s # "over" => DayInHand' = DayInHand
         /\ s = "over" => DayInHand' = [DayInHand EXCEPT !.over = @ \cup {t}]
<1> DEFINE over == {u \in Tables : run.step[u] = "over"}
<1>1. DayInHand = [d |-> run.d, forced |-> run.forced, over |-> over]
  BY DEF DayInHand
<1>2. DayInHand' = [d |-> run.d, forced |-> run.forced, over |-> over']
  BY DEF DayInHand, Moves
<1>3. over' = IF s = "over" THEN over \cup {t} ELSE over
  BY DEF Moves
<1> HIDE DEF over
<1> QED BY <1>1, <1>2, <1>3

LEMMA WorldIsLedgerStep ==
  ASSUME ControlInv, (\E t \in Tables : Edit(t)) \/ Cob \/ ShowMarker \/ UNCHANGED pullVars
  PROVE  [Ledger!LedgerNext]_<<writes \div 2, SealedByDay, bronze, DayInHand>>
<1>1. UNCHANGED <<ctl, bronze, run>>
  BY DEF Edit, Cob, ShowMarker, lake, pullVars
<1>2. UNCHANGED <<SealedByDay, DayInHand>>
  BY <1>1 DEF SealedByDay, Sealed, DayInHand
<1>3. writes' = writes \/ writes' = writes + 1
  BY DEF Edit, Cob, Write, ShowMarker, Show, markerVars, pullVars, world
<1>4. writes' \div 2 = writes \div 2 \/ writes' \div 2 = (writes \div 2) + 1
  <2>1. writes \in Nat
    BY PullAssumption DEF ControlInv, PullTypeOK
  <2> QED BY <1>3, <2>1
<1>5. CASE writes' \div 2 = (writes \div 2) + 1
  BY <1>1, <1>2, <1>5 DEF Ledger!LedgerNext, Ledger!CloseDay
<1> QED BY <1>1, <1>2, <1>4, <1>5

(* A run nobody forced takes its day when its sensor fires.                  *)
LEMMA TakesClosedDay ==
  ASSUME ControlInv, ControlInv', UNCHANGED <<writes, ctl, bronze>>,
         ~OnADay, run'.pc = "open",
         ~run'.forced => \E t \in Tables : ctl[run'.d][t].status # "sealed"
  PROVE  Ledger!LedgerNext
<1> DEFINE d == run'.d
<1>1. UNCHANGED <<writes \div 2, SealedByDay, bronze>>
  BY DEF SealedByDay, Sealed
<1>2. DayInHand = Ledger!NoRun
  BY DEF DayInHand, OnADay, Ledger!NoRun
<1>3. DayInHand' = [d |-> d, forced |-> run'.forced, over |-> {}]
  <2>1. {t \in Tables : run'.pc = "tables" /\ run'.step[t] = "over"} = {}
    OBVIOUS
  <2> QED BY <2>1 DEF DayInHand
<1>4. d \in Days /\ 2 * d <= writes /\ writes \in Nat
  BY PullAssumption DEF ControlInv, AfterClose, OnADay, PullTypeOK
<1>5. d \in 1..(writes \div 2) /\ d \in 1..MaxDay
  BY <1>4 DEF Days
<1>6. ~run'.forced => SealedByDay[d] # Tables
  BY <1>4 DEF SealedByDay, Sealed
<1>7. run'.forced \in BOOLEAN
  BY DEF ControlInv, PullTypeOK, RunType
<1>8. Ledger!Take(d, run'.forced)
  BY <1>1, <1>2, <1>3, <1>5, <1>6 DEF Ledger!Take
<1> QED BY <1>5, <1>7, <1>8 DEF Ledger!LedgerNext

LEMMA RunIsLedgerStep ==
  ASSUME ControlInv,
         \/ Trigger \/ FailSensor \/ EndRun \/ WaitCob
         \/ \E d \in Days : TriggerForced(d)
  PROVE  Ledger!LedgerNext
<1>1. ControlInv' /\ UNCHANGED <<writes, ctl, bronze>>
  BY RunControl
<1>2. CASE Trigger \/ FailSensor \/ EndRun
  <2>1. run'.pc \in {"idle", "wait"}
    <3>1. run' = Idle \/ run' = [Idle EXCEPT !.pc = "wait"]
      BY <1>2 DEF Trigger, FailSensor, EndRun
    <3> QED BY <3>1, IdleType DEF RunType, Idle
  <2>2. DayInHand' = Ledger!NoRun
    BY <2>1 DEF DayInHand, Ledger!NoRun
  <2>3. UNCHANGED <<writes \div 2, SealedByDay, bronze>>
    BY <1>1 DEF SealedByDay, Sealed
  <2> QED BY <2>2, <2>3 DEF Ledger!LedgerNext, Ledger!Leave
<1>3. CASE WaitCob
  <2>1. ~OnADay /\ run'.pc = "open"
    BY <1>3 DEF WaitCob, OnADay, ControlInv, PullTypeOK, RunType
  <2>2. ~run'.forced => \E t \in Tables : ctl[run'.d][t].status # "sealed"
    BY <1>1, <2>1 DEF ControlInv, OpensUnsealed
  <2> QED BY <1>1, <2>1, <2>2, TakesClosedDay
<1>4. ASSUME NEW d \in Days, TriggerForced(d) PROVE Ledger!LedgerNext
  <2>1. run.pc = "idle" /\ run' = [Idle EXCEPT !.pc = "open", !.d = d, !.forced = TRUE]
    BY <1>4 DEF TriggerForced
  <2>2. ~OnADay /\ run'.pc = "open" /\ run'.forced
    BY <2>1, IdleType DEF RunType, OnADay
  <2> QED BY <1>1, <2>2, TakesClosedDay
<1> QED BY <1>2, <1>3, <1>4

LEMMA OpenIsLedgerStep ==
  ASSUME ControlInv, NEW t \in Tables, OpenNext(t)
  PROVE  Ledger!LedgerNext
<1>1. /\ run.pc = "open" /\ OnADay /\ ctl' = OpenPending(ctl, run.d, t, Null)
      /\ UNCHANGED <<writes, bronze>>
  BY DEF OpenNext, OnADay, world, lake, markerVars
<1>2. /\ run.d \in Days /\ DayInHand # Ledger!NoRun
      /\ DayInHand = [d |-> run.d, forced |-> run.forced, over |-> {}]
  <2>1. {u \in Tables : run.pc = "tables" /\ run.step[u] = "over"} = {}
    BY <1>1
  <2> QED BY <1>1, <2>1, InHandOnADay
<1>3. SealedByDay' = [SealedByDay EXCEPT ![run.d] = @ \ {t}]
  <2>1. /\ ctl'[run.d][t].status = "pending"
        /\ \A e \in Days, u \in Tables : <<e, u>> # <<run.d, t>> => ctl'[e][u] = ctl[e][u]
    BY <1>1, <1>2, OpenPendingRow DEF ControlInv
  <2> QED BY <1>2, <2>1, SealedMoves
<1>4. DayInHand' = DayInHand
  <2>1. /\ run'.d = run.d /\ run'.forced = run.forced /\ run'.pc \in {"open", "tables"}
        /\ run'.pc = "tables" => \A u \in Tables : run'.step[u] # "over"
    <3>1. run \in RunType
      BY DEF ControlInv, PullTypeOK
    <3>2. \/ run' = [run EXCEPT !.pc = "tables", !.opened = {},
                                !.step = [u \in Tables |-> "extract"]]
          \/ run' = [run EXCEPT !.opened = @ \cup {t}]
      BY DEF OpenNext
    <3> QED BY <1>1, <3>1, <3>2 DEF RunType
  <2>2. {u \in Tables : run'.pc = "tables" /\ run'.step[u] = "over"} = {}
    BY <2>1
  <2>3. DayInHand' = [d |-> run.d, forced |-> run.forced, over |-> {}]
    BY <2>1, <2>2 DEF DayInHand
  <2> QED BY <1>2, <2>3
<1>5. DayInHand.d = run.d /\ DayInHand.over = {}
  BY <1>2
<1>6. Ledger!Reopen(t)
  BY <1>1, <1>2, <1>3, <1>4, <1>5 DEF Ledger!Reopen, Ledger!InHand
<1> QED BY <1>6 DEF Ledger!LedgerNext

(* A step of one table's chain: it loads the partition, seals the row, gives *)
(* up, or shows nothing.                                                     *)
LEMMA TableIsLedgerStep ==
  ASSUME ControlInv, Uploaded, NEW t \in Tables,
         Extract(t) \/ UploadChunk(t) \/ Parse(t) \/ Count(t) \/ SealTable(t) \/ FailTask(t)
  PROVE  [Ledger!LedgerNext]_<<writes \div 2, SealedByDay, bronze, DayInHand>>
<1>1. run.pc = "tables" /\ run.step[t] # "over" /\ OnADay /\ run \in RunType /\ PullTypeOK
  BY DEF Extract, UploadChunk, Parse, Count, SealTable, FailTask, At, OnADay, ControlInv,
         PullTypeOK
<1>2. /\ run.d \in Days /\ DayInHand.d = run.d
      /\ Ledger!InHand(t)
  <2>1. /\ run.d \in Days /\ DayInHand # Ledger!NoRun
        /\ DayInHand = [d |-> run.d, forced |-> run.forced,
                        over |-> {u \in Tables : run.pc = "tables" /\ run.step[u] = "over"}]
    BY <1>1, InHandOnADay
  <2>2. DayInHand.d = run.d /\ t \notin DayInHand.over
    BY <1>1, <2>1
  <2> QED BY <2>1, <2>2 DEF Ledger!InHand
<1>3. t \notin SealedByDay[run.d]
  <2>1. ctl[run.d][t].status = "pending"
    BY <1>1 DEF ControlInv, WorkIsPending
  <2> QED BY <1>2, <2>1 DEF SealedByDay, Sealed
<1>4. Elsewhere(t)
  BY ExtractEffect, UploadEffect, ParseEffect, RestEffect
<1>5. writes' \div 2 = writes \div 2 /\ Ledger!OnlyRow(t)
  <2>1. \A d \in 1..MaxDay, u \in Tables : (d # run.d \/ u # t) => bronze'[d][u] = bronze[d][u]
    BY <1>4 DEF Elsewhere, Days
  <2> QED BY <1>2, <1>4, <2>1 DEF Elsewhere, Ledger!OnlyRow
<1>6. ctl' = ctl => UNCHANGED SealedByDay
  BY DEF SealedByDay, Sealed
<1>7. CASE Extract(t) \/ UploadChunk(t) \/ Count(t)
  <2>1. ctl' = ctl /\ bronze' = bronze
    BY <1>7 DEF Extract, UploadChunk, Count
  <2>2. PICK s \in Steps \ {"over"} : Moves(t, s)
    <3>1. Extract(t) => Moves(t, "parse") \/ Moves(t, "upload")
      BY <1>1, ExtractMoves
    <3>2. UploadChunk(t) => Moves(t, "parse") \/ Moves(t, "upload")
      BY <1>1, UploadMoves
    <3>3. Count(t) => Moves(t, "seal")
      BY <1>1, CountMoves DEF ControlInv
    <3> QED BY <1>7, <3>1, <3>2, <3>3 DEF Steps
  <2>3. DayInHand' = DayInHand
    BY <1>1, <2>2, MovesInHand
  <2> QED BY <1>5, <1>6, <2>1, <2>3
<1>8. CASE Parse(t)
  <2>1. ctl' = ctl /\ Moves(t, "count")
    BY <1>1, <1>8, ParseMoves DEF Parse
  <2>2. DayInHand' = DayInHand
    BY <1>1, <2>1, MovesInHand
  <2>3. Ledger!Load(t)
    BY <1>2, <1>3, <1>5, <1>6, <2>1, <2>2 DEF Ledger!Load
  <2> QED BY <2>3 DEF Ledger!LedgerNext
<1>9. CASE SealTable(t)
  <2>1. Moves(t, "over")
    BY <1>1, <1>9, OverMoves DEF SealTable
  <2>2. DayInHand' = [DayInHand EXCEPT !.over = @ \cup {t}]
    BY <1>1, <2>1, MovesInHand
  <2>3. run.n[t] \in Nat /\ ctl' = Seal(ctl, run.d, t, Null, run.n[t], run.n[t])
    BY <1>1, <1>9 DEF SealTable, RunType
  <2>4. /\ ctl'[run.d][t].status = "sealed"
        /\ \A e \in Days, u \in Tables : <<e, u>> # <<run.d, t>> => ctl'[e][u] = ctl[e][u]
    BY <1>1, <1>2, <2>3, SealRow
  <2>5. SealedByDay' = [SealedByDay EXCEPT ![run.d] = @ \cup {t}]
    BY <1>2, <2>4, SealedMoves
  <2>6. Ledger!SealRow(t)
    BY <1>2, <1>3, <1>5, <2>2, <2>5 DEF Ledger!SealRow
  <2> QED BY <2>6 DEF Ledger!LedgerNext
<1>10. CASE FailTask(t)
  <2>1. Moves(t, "over") /\ ctl' = ctl /\ bronze' = bronze
    BY <1>1, <1>10, OverMoves DEF FailTask, lake
  <2>2. DayInHand' = [DayInHand EXCEPT !.over = @ \cup {t}]
    BY <1>1, <2>1, MovesInHand
  <2>3. Ledger!GiveUp(t)
    BY <1>2, <1>5, <1>6, <2>1, <2>2 DEF Ledger!GiveUp
  <2> QED BY <2>3 DEF Ledger!LedgerNext
<1> QED BY <1>7, <1>8, <1>9, <1>10

(* pull_cob implements the ledger the builds rely on, for any tables, days   *)
(* and editions, whatever fails, counts stale or is forced: it takes closed  *)
(* days only, and writes no row and no partition of a day but while the run  *)
(* holds the day and is not over with the table.                             *)
THEOREM PullImplementsLedger == PullSpec => ImplementsLedger
<1> DEFINE shows == <<writes \div 2, SealedByDay, bronze, DayInHand>>
<1>1. PullInit => Ledger!LedgerInit
  <2> SUFFICES ASSUME PullInit PROVE Ledger!LedgerInit
    OBVIOUS
  <2>1. writes = 0 /\ run = Idle /\ \A d \in Days, t \in Tables : ctl[d][t].status = "none"
    BY DEF PullInit, MarkerInit, NoRow
  <2>2. SealedByDay = [d \in 1..MaxDay |-> {}]
    BY <2>1 DEF SealedByDay, Sealed, Days
  <2>3. DayInHand = Ledger!NoRun
    BY <2>1 DEF DayInHand, Idle, Ledger!NoRun
  <2>4. writes \div 2 = 0
    BY <2>1
  <2> QED BY <2>2, <2>3, <2>4 DEF Ledger!LedgerInit
<1>2. PullInv /\ [PullNext]_pullVars => [Ledger!LedgerNext]_shows
  <2> SUFFICES ASSUME PullInv, [PullNext]_pullVars PROVE [Ledger!LedgerNext]_shows
    OBVIOUS
  <2>0. ControlInv /\ Uploaded
    BY DEF PullInv
  <2>1. CASE (\E t \in Tables : Edit(t)) \/ Cob \/ ShowMarker \/ UNCHANGED pullVars
    BY <2>0, <2>1, WorldIsLedgerStep
  <2>2. CASE Trigger \/ FailSensor \/ EndRun \/ WaitCob \/ \E d \in Days : TriggerForced(d)
    BY <2>0, <2>2, RunIsLedgerStep
  <2>3. ASSUME NEW t \in Tables, OpenNext(t) PROVE [Ledger!LedgerNext]_shows
    BY <2>0, <2>3, OpenIsLedgerStep
  <2>4. ASSUME NEW t \in Tables,
               Extract(t) \/ UploadChunk(t) \/ Parse(t) \/ Count(t) \/ SealTable(t) \/ FailTask(t)
        PROVE  [Ledger!LedgerNext]_shows
    BY <2>0, <2>4, TableIsLedgerStep
  <2> QED BY <2>1, <2>2, <2>3, <2>4 DEF PullNext, PullStep, TableStep
<1> QED BY <1>1, <1>2, PullInvariant, PTL
        DEF PullSpec, ImplementsLedger, Ledger!LedgerSpec, Ledger!ledgerVars

=============================================================================
