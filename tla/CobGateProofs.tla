---------------------------- MODULE CobGateProofs ----------------------------
(***************************************************************************)
(* Proofs about CobGate.  For every value of the constants: every variable *)
(* keeps its type, and a sealed day is left alone by every run nobody      *)
(* forced, and the gate implements SealLedger.  When the stream is         *)
(* Ordered: what the gate seals is complete.  The stream behind the gate   *)
(* is CdcStream's: its theorems hold here too.                             *)
(***************************************************************************)
EXTENDS CobGate, CdcStreamProofs, FiniteSetTheorems

-----------------------------------------------------------------------------
(* The control table.                                                       *)

(* The COUNT of sealed rows reaches the number of sources when every source  *)
(* is sealed.                                                                *)
LEMMA AllSealedMeansEach ==
  ASSUME NEW d
  PROVE  AllSealed(ctl, d, Tables) <=> \A t \in Tables : ctl[d][t].status = "sealed"
<1> DEFINE rows == SealedRows(ctl, d, Tables)
<1>1. rows \subseteq Tables /\ IsFiniteSet(Tables)
  BY GateAssumption DEF SealedRows
<1>2. (Cardinality(rows) = Cardinality(Tables)) <=> rows = Tables
  <2> HIDE DEF rows
  <2> QED BY <1>1, FS_Subset
<1>3. rows = Tables <=> \A t \in Tables : ctl[d][t].status = "sealed"
  BY DEF SealedRows
<1> QED BY <1>2, <1>3 DEF AllSealed

LEMMA SourceIsTable ==
  ASSUME NEW k \in 1..Len(GateSources)
  PROVE  GateSources[k] \in Tables /\ Len(GateSources) \in Nat
BY GateAssumption

LEMMA SourcesDistinct ==
  ASSUME NEW j \in 1..Len(GateSources), NEW k \in 1..Len(GateSources), j # k
  PROVE  GateSources[j] # GateSources[k]
BY GateAssumption

(* One statement of open_pending and of seal writes one row.                 *)
LEMMA OpenWritesRow ==
  ASSUME TypeOK, NEW d \in Days, NEW t \in Tables, NEW l \in Nat
  PROVE  LET new == OpenPending(ctl, d, t, l) IN
           /\ new \in [Days -> [Tables -> Row]]
           /\ new[d][t].status = "pending"
           /\ \A e \in Days, u \in Tables : (e # d \/ u # t) => new[e][u] = ctl[e][u]
           /\ \A e \in Days : e # d => new[e] = ctl[e]
<1> DEFINE row == [ctl[d][t] EXCEPT !.status = "pending", !.l_cob = COALESCE(l, ctl[d][t].l_cob)]
           new == [ctl EXCEPT ![d] = [ctl[d] EXCEPT ![t] = row]]
<1>1. ctl \in [Days -> [Tables -> Row]]
  BY DEF TypeOK
<1>2. ctl[d][t] \in Row
  BY <1>1
<1>3. OpenPending(ctl, d, t, l) = new
  BY <1>1 DEF OpenPending
<1>4. COALESCE(l, ctl[d][t].l_cob) \in Nat \cup {Null}
  BY <1>2 DEF COALESCE, Row
<1>5. row \in Row /\ row.status = "pending"
  BY <1>2, <1>4 DEF Row
<1> HIDE DEF row
<1> QED BY <1>1, <1>3, <1>5

LEMMA SealWritesRow ==
  ASSUME TypeOK, NEW d \in Days, NEW t \in Tables, NEW snap \in Snapshots
  PROVE  LET new == Seal(ctl, d, t, snap, Null, Null) IN
           /\ new \in [Days -> [Tables -> Row]]
           /\ new[d][t].status = "sealed" /\ new[d][t].snapshot = snap /\ snap # Null
           /\ \A e \in Days, u \in Tables : (e # d \/ u # t) => new[e][u] = ctl[e][u]
           /\ \A e \in Days : e # d => new[e] = ctl[e]
<1> DEFINE row == [ctl[d][t] EXCEPT !.status = "sealed",
                                    !.snapshot = COALESCE(snap, ctl[d][t].snapshot),
                                    !.expected = COALESCE(Null, ctl[d][t].expected),
                                    !.actual = COALESCE(Null, ctl[d][t].actual)]
           new == [ctl EXCEPT ![d] = [ctl[d] EXCEPT ![t] = row]]
<1>1. ctl \in [Days -> [Tables -> Row]]
  BY DEF TypeOK
<1>2. ctl[d][t] \in Row
  BY <1>1
<1>3. Seal(ctl, d, t, snap, Null, Null) = new
  BY <1>1 DEF Seal
<1>4. snap # Null /\ COALESCE(snap, ctl[d][t].snapshot) = snap
  BY GateAssumption DEF COALESCE, Snapshots
<1>5. COALESCE(Null, ctl[d][t].expected) = Null /\ COALESCE(Null, ctl[d][t].actual) = Null
  BY <1>2 DEF COALESCE, Row
<1>6. row \in Row /\ row.status = "sealed" /\ row.snapshot = snap
  BY <1>2, <1>4, <1>5 DEF Row
<1> HIDE DEF row
<1> QED BY <1>1, <1>3, <1>4, <1>6

-----------------------------------------------------------------------------
(* The events that close a day: one per day, of a day that is over.          *)
LEMMA MarkerIsUnique ==
  ASSUME StreamShape, NEW d, NEW m \in DOMAIN log, Closes(m, d)
  PROVE  /\ d \in Days /\ d < day
         /\ \A n \in DOMAIN log : Closes(n, d) => n = m
<1>1. log[m] \in Event
  BY DEF StreamShape, StreamTypeOK
<1>2. log[m].day \in Nat /\ day \in Nat /\ MaxDay \in Nat
  BY <1>1, ConstantsAssumption DEF Event, StreamShape, StreamTypeOK
<1>3. d >= 1 /\ d < day /\ day <= MaxDay + 1 /\ d \in Nat
  BY <1>2 DEF StreamShape, MarkersCloseDays, Closes
<1>4. d \in Days
  BY <1>2, <1>3 DEF Days
<1> QED BY <1>3, <1>4 DEF StreamShape, MarkersCloseDays, Closes

-----------------------------------------------------------------------------
(* The shape of the gate.                                                   *)

LEMMA GateTypes ==
  ASSUME TypeOK
  PROVE  /\ gate \in Run /\ gate.next \in 1..Len(GateSources) /\ gate.l_cob \in Nat
         /\ GateSources[gate.next] \in Tables /\ Len(GateSources) \in Nat
         /\ gate.d \in Nat /\ Len(GateSources) >= 1
         /\ ctl \in [Days -> [Tables -> Row]] /\ fails \in Nat /\ forcings \in Nat
<1>1. gate \in Run /\ gate.next \in 1..Len(GateSources) /\ gate.l_cob \in Nat /\ gate.d \in Nat
  BY DEF TypeOK, Run
<1>2. Len(GateSources) \in Nat /\ Len(GateSources) >= 1
  BY GateAssumption
<1> QED BY <1>1, <1>2, SourceIsTable DEF TypeOK

LEMMA IdleType == Idle \in Run
BY GateAssumption DEF Idle, Run, NoLsn

LEMMA StreamGateShape ==
  ASSUME GateShape, [StreamNext]_streamVars, UNCHANGED gateVars
  PROVE  GateShape'
<1> USE DEF GateShape
<1>1. StreamShape' /\ StreamTypeOK'
  BY StreamNextShape DEF StreamShape
<1>2. UNCHANGED <<ctl, gate, fails, forcings>>
  BY DEF gateVars
<1>3. TypeOK'
  BY <1>1, <1>2 DEF TypeOK
<1>4. OnlyClosedDays'
  <2>1. day \in Nat /\ day' \in Nat /\ day' >= day /\ gate.d \in Nat
    BY HistoryGrows, GateTypes
  <2>2. \A d \in Days : d \in Nat
    BY DEF Days
  <2>3. Committed' = Committed
    BY <1>2 DEF Committed
  <2> QED BY <1>2, <2>1, <2>2, <2>3 DEF OnlyClosedDays
<1>5. LoopProgress'
  BY <1>2 DEF LoopProgress, Committed
<1> QED BY <1>1, <1>3, <1>4, <1>5

LEMMA TriggerShape ==
  ASSUME GateShape, Trigger \/ (\E d \in Days : TriggerForced(d)) \/ FailRun
  PROVE  GateShape'
<1> USE DEF GateShape
<1>1. /\ StreamShape' /\ StreamTypeOK' /\ UNCHANGED <<ctl, log, day>>
      /\ ctl \in [Days -> [Tables -> Row]] /\ fails' \in Nat /\ forcings' \in Nat
  <2>1. UNCHANGED streamVars /\ ctl' = ctl
    BY DEF Trigger, TriggerForced, FailRun, streamVars
  <2>2. fails' \in Nat /\ forcings' \in Nat
    <3>1. /\ fails' = fails \/ fails' = fails + 1
          /\ forcings' = forcings \/ forcings' = forcings + 1
      BY DEF Trigger, TriggerForced, FailRun
    <3> QED BY <3>1, GateTypes
  <2> QED BY <2>1, <2>2, StreamIdle, GateTypes
<1>2. /\ gate' \in Run /\ gate'.next = 1 /\ gate'.pc \in {"idle", "detect"}
      /\ gate'.pc = "idle" => ~gate'.forced
      /\ gate'.forced => gate'.d \in Days /\ gate'.d < day
  <2>1. CASE Trigger
    BY <2>1, IdleType DEF Trigger, Idle, Run
  <2>2. ASSUME NEW d \in Days, TriggerForced(d)
        PROVE  /\ gate' \in Run /\ gate'.next = 1 /\ gate'.pc = "detect"
               /\ gate'.d \in Days /\ gate'.d < day
    <3>1. d < day
      <4>1. PICK m \in DOMAIN log : Closes(m, d)
        BY <2>2 DEF TriggerForced, Replayable
      <4> QED BY <4>1, MarkerIsUnique
    <3>2. gate' = [Idle EXCEPT !.pc = "detect", !.d = d, !.forced = TRUE]
      BY <2>2 DEF TriggerForced
    <3>3. d \in Nat
      BY DEF Days
    <3> QED BY <3>1, <3>2, <3>3, IdleType DEF Idle, Run
  <2>3. CASE FailRun
    BY <2>3, IdleType DEF FailRun, Idle
  <2> QED BY <2>1, <2>2, <2>3
<1>3. TypeOK'
  BY <1>1, <1>2 DEF TypeOK
<1>4. ~Committed'
  BY <1>2 DEF Committed
<1>5. OnlyClosedDays'
  BY <1>1, <1>2, <1>4 DEF OnlyClosedDays
<1>6. LoopProgress'
  BY <1>2, <1>4 DEF LoopProgress
<1> QED BY <1>1, <1>3, <1>5, <1>6

LEMMA DetectShape ==
  ASSUME GateShape, DetectForced \/ DetectCob
  PROVE  GateShape'
<1> USE DEF GateShape
<1>1. /\ StreamShape' /\ StreamTypeOK' /\ UNCHANGED <<ctl, log, day, fails, forcings>>
      /\ gate.pc = "detect" /\ gate.next = 1
  <2>1. UNCHANGED streamVars /\ UNCHANGED <<ctl, fails, forcings>> /\ gate.pc = "detect"
    BY DEF DetectForced, DetectCob
  <2> QED BY <2>1, StreamIdle DEF LoopProgress
<1>2. /\ gate' \in Run /\ gate'.next = 1 /\ gate'.pc = "open"
      /\ gate'.d \in Days /\ gate'.d < day
      /\ ~gate'.forced => \E t \in Tables : ctl[gate'.d][t].status # "sealed"
  <2>1. CASE DetectForced
    <3>1. gate' = [gate EXCEPT !.pc = "open", !.l_cob = NoLsn] /\ gate.forced
      BY <2>1 DEF DetectForced
    <3>2. gate.d \in Days /\ gate.d < day
      BY <3>1 DEF OnlyClosedDays
    <3> QED BY <1>1, <3>1, <3>2, GateTypes DEF Run, NoLsn
  <2>2. CASE DetectCob
    <3> DEFINE d == log[MarkerRow].day
    <3>1. /\ gate' = [gate EXCEPT !.pc = "open", !.d = d, !.l_cob = log[MarkerRow].lsn]
          /\ CobDone /\ ~AllSealed(ctl, d, Tables)
      BY <2>2 DEF DetectCob
    <3>2. MarkerRow \in 1..Len(log) /\ DOMAIN log = 1..Len(log)
      BY <3>1, Numbers, ConstantsAssumption DEF CobDone, MarkerRow, Topics
    <3>3. log[MarkerRow].lsn \in Nat /\ log[MarkerRow].day \in Nat
      <4>1. log[MarkerRow] \in Event
        BY <3>2 DEF StreamShape, StreamTypeOK
      <4> QED BY <4>1 DEF Event
    <3>4. Closes(MarkerRow, d)
      BY <3>1, <3>2 DEF Closes, CobDone, StreamShape, MarkersCloseDays
    <3>5. d \in Days /\ d < day
      BY <3>2, <3>4, MarkerIsUnique
    <3>6. \E t \in Tables : ctl[d][t].status # "sealed"
      BY <3>1, AllSealedMeansEach
    <3> HIDE DEF d
    <3>7. d \in Nat
      BY <3>5 DEF Days
    <3> QED BY <1>1, <3>1, <3>3, <3>5, <3>6, <3>7, GateTypes DEF Run
  <2> QED BY <2>1, <2>2
<1>3. TypeOK'
  BY <1>1, <1>2 DEF TypeOK
<1>4. OnlyClosedDays'
  BY <1>1, <1>2 DEF OnlyClosedDays
<1>5. LoopProgress'
  BY <1>1, <1>2 DEF LoopProgress
<1> QED BY <1>1, <1>3, <1>4, <1>5

LEMMA CaughtUpShape ==
  ASSUME GateShape, CaughtUp
  PROVE  GateShape'
<1> USE DEF GateShape
<1>1. /\ StreamShape' /\ StreamTypeOK' /\ UNCHANGED <<ctl, log, day, fails, forcings>>
      /\ gate.pc = "wait" /\ gate' = [gate EXCEPT !.pc = "pin"]
  <2>1. /\ UNCHANGED streamVars /\ UNCHANGED <<ctl, fails, forcings>>
        /\ gate.pc = "wait" /\ gate' = [gate EXCEPT !.pc = "pin"]
    BY DEF CaughtUp
  <2> QED BY <2>1, StreamIdle
<1>2. /\ gate' \in Run /\ gate'.pc = "pin" /\ gate'.next = gate.next
      /\ gate'.d = gate.d /\ gate'.forced = gate.forced
  BY <1>1, GateTypes DEF Run
<1>3. TypeOK'
  BY <1>1, <1>2 DEF TypeOK
<1>4. OnlyClosedDays'
  BY <1>1, <1>2 DEF OnlyClosedDays, Committed
<1>5. LoopProgress'
  <2>1. \A k \in gate.next..Len(GateSources) : GateSources[k] \in Tables
    BY GateTypes, SourceIsTable
  <2> QED BY <1>1, <1>2, <2>1 DEF LoopProgress, Committed
<1> QED BY <1>1, <1>3, <1>4, <1>5

LEMMA OpenShape ==
  ASSUME GateShape, OpenNext
  PROVE  GateShape'
<1> USE DEF GateShape
<1> DEFINE d == gate.d
           n == gate.next
           s == GateSources[n]
<1>1. /\ gate.pc = "open" /\ ctl' = OpenPending(ctl, d, s, gate.l_cob)
      /\ Advance([gate EXCEPT !.pc = "wait", !.next = 1])
      /\ UNCHANGED streamVars /\ UNCHANGED <<fails, forcings>>
  BY DEF OpenNext
<1>2. StreamShape' /\ StreamTypeOK' /\ UNCHANGED <<log, day>>
  BY <1>1, StreamIdle
<1>3. /\ gate \in Run /\ n \in 1..Len(GateSources) /\ s \in Tables /\ Len(GateSources) \in Nat
      /\ d \in Days /\ d < day
  BY <1>1, GateTypes DEF OnlyClosedDays, Committed
<1>4. /\ ctl' \in [Days -> [Tables -> Row]] /\ ctl'[d][s].status = "pending"
      /\ \A e \in Days, u \in Tables : (e # d \/ u # s) => ctl'[e][u] = ctl[e][u]
  BY <1>1, <1>3, OpenWritesRow, GateTypes
<1>5. /\ gate' \in Run /\ gate'.d = d /\ gate'.forced = gate.forced
      /\ \/ n < Len(GateSources) /\ gate'.pc = "open" /\ gate'.next = n + 1
         \/ n = Len(GateSources) /\ gate'.pc = "wait" /\ gate'.next = 1
  <2>1. CASE n < Len(GateSources)
    <3>1. gate' = [gate EXCEPT !.next = n + 1]
      BY <1>1, <2>1 DEF Advance
    <3> QED BY <1>1, <1>3, <2>1, <3>1 DEF Run
  <2>2. CASE ~(n < Len(GateSources))
    <3>1. gate' = [gate EXCEPT !.pc = "wait", !.next = 1]
      BY <1>1, <2>2 DEF Advance
    <3>2. n = Len(GateSources) /\ 1 \in 1..Len(GateSources)
      BY <1>3, <2>2
    <3> QED BY <1>1, <1>3, <3>1, <3>2 DEF Run
  <2> QED BY <2>1, <2>2
<1>6. TypeOK'
  BY <1>1, <1>2, <1>4, <1>5 DEF TypeOK
<1>7. OnlyClosedDays'
  <2>1. \A e \in Days, u \in Tables : ctl'[e][u].status # "none" => e < day
    BY <1>3, <1>4 DEF OnlyClosedDays
  <2> QED BY <1>2, <1>3, <1>5, <2>1 DEF OnlyClosedDays
<1>8. \A k \in 1..n : ctl'[d][GateSources[k]].status = "pending"
  <2> TAKE k \in 1..n
  <2>1. k \in 1..Len(GateSources) /\ GateSources[k] \in Tables
    BY <1>3, SourceIsTable
  <2>2. CASE k = n
    BY <1>4, <2>2
  <2>3. CASE k # n
    <3>1. k \in 1..(n - 1) /\ GateSources[k] # s
      BY <1>3, <2>1, <2>3, SourcesDistinct
    <3> QED BY <1>1, <1>3, <1>4, <2>1, <3>1 DEF LoopProgress
  <2> QED BY <2>2, <2>3
<1>9. LoopProgress'
  <2>1. \E t \in Tables : ctl'[d][t].status # "sealed"
    BY <1>3, <1>4
  <2>2. CASE n < Len(GateSources) /\ gate'.pc = "open" /\ gate'.next = n + 1
    <3>1. 1..(gate'.next - 1) = 1..n
      BY <1>3, <2>2
    <3> QED BY <1>5, <1>8, <2>1, <2>2, <3>1 DEF LoopProgress
  <2>3. CASE n = Len(GateSources) /\ gate'.pc = "wait" /\ gate'.next = 1
    <3>1. \A t \in Tables : ctl'[d][t].status = "pending"
      <4> TAKE t \in Tables
      <4>1. PICK k \in 1..Len(GateSources) : GateSources[k] = t
        BY GateAssumption
      <4> QED BY <1>8, <2>3, <4>1
    <3>2. gate'.pc = "wait" /\ gate'.next = 1
      BY <2>3
    <3>3. /\ \A t \in Tables : ctl'[gate'.d][t].status = "pending"
          /\ \E t \in Tables : ctl'[gate'.d][t].status # "sealed"
      BY <1>5, <2>1, <3>1
    <3> HIDE DEF d
    <3> QED BY <3>2, <3>3 DEF LoopProgress
  <2> QED BY <1>5, <2>2, <2>3
<1> QED BY <1>2, <1>6, <1>7, <1>9

LEMMA PinShape ==
  ASSUME GateShape, PinNext
  PROVE  GateShape'
<1> USE DEF GateShape
<1> DEFINE d == gate.d
           n == gate.next
           s == GateSources[n]
<1>1. /\ gate.pc = "pin" /\ ctl' = Seal(ctl, d, s, bronze[s], Null, Null)
      /\ Advance(Idle)
      /\ UNCHANGED streamVars /\ UNCHANGED <<fails, forcings>>
  BY DEF PinNext
<1>2. StreamShape' /\ StreamTypeOK' /\ UNCHANGED <<log, day>>
  BY <1>1, StreamIdle
<1>3. /\ gate \in Run /\ n \in 1..Len(GateSources) /\ s \in Tables /\ Len(GateSources) \in Nat
      /\ d \in Days /\ d < day
  BY <1>1, GateTypes DEF OnlyClosedDays, Committed
<1>4. bronze[s] \in Snapshots
  <2>1. bronze \in [Topics -> [Recs -> 0..Len(log)]] /\ s \in Topics
    BY <1>3 DEF StreamShape, StreamTypeOK, Topics
  <2> QED BY <2>1 DEF Snapshots
<1>5. /\ ctl' \in [Days -> [Tables -> Row]]
      /\ \A e \in Days, u \in Tables : (e # d \/ u # s) => ctl'[e][u] = ctl[e][u]
  BY <1>1, <1>3, <1>4, SealWritesRow
<1>6. /\ gate' \in Run
      /\ \/ /\ n < Len(GateSources) /\ gate'.pc = "pin" /\ gate'.next = n + 1
            /\ gate'.d = d /\ gate'.forced = gate.forced
         \/ gate' = Idle
  <2>1. CASE n < Len(GateSources)
    <3>1. gate' = [gate EXCEPT !.next = n + 1]
      BY <1>1, <2>1 DEF Advance
    <3> QED BY <1>1, <1>3, <2>1, <3>1 DEF Run
  <2>2. CASE ~(n < Len(GateSources))
    BY <1>1, <2>2, IdleType DEF Advance
  <2> QED BY <2>1, <2>2
<1>7. TypeOK'
  BY <1>1, <1>2, <1>5, <1>6 DEF TypeOK
<1>8. OnlyClosedDays'
  <2>1. \A e \in Days, u \in Tables : ctl'[e][u].status # "none" => e < day
    BY <1>3, <1>5 DEF OnlyClosedDays
  <2>2. CASE gate' = Idle
    BY <1>2, <2>1, <2>2 DEF OnlyClosedDays, Committed, Idle
  <2>3. CASE gate'.d = d
    BY <1>2, <1>3, <2>1, <2>3 DEF OnlyClosedDays
  <2> QED BY <1>6, <2>2, <2>3
<1>9. LoopProgress'
  <2>1. CASE gate' = Idle
    BY <2>1 DEF LoopProgress, Committed, Idle
  <2>2. CASE /\ n < Len(GateSources) /\ gate'.pc = "pin" /\ gate'.next = n + 1
             /\ gate'.d = d /\ gate'.forced = gate.forced
    <3>1. \A k \in (n + 1)..Len(GateSources) :
            k \in n..Len(GateSources) /\ GateSources[k] \in Tables /\ GateSources[k] # s
      <4> TAKE k \in (n + 1)..Len(GateSources)
      <4>1. k \in 1..Len(GateSources) /\ k # n /\ k \in n..Len(GateSources)
        BY <1>3
      <4> QED BY <1>3, <4>1, SourceIsTable, SourcesDistinct
    <3>2. \A k \in (n + 1)..Len(GateSources) : ctl'[d][GateSources[k]].status = "pending"
      BY <1>1, <1>3, <1>5, <3>1 DEF LoopProgress
    <3>3. n + 1 \in (n + 1)..Len(GateSources)
      BY <1>3, <2>2
    <3>4. \E t \in Tables : ctl'[d][t].status # "sealed"
      BY <3>1, <3>2, <3>3
    <3> QED BY <2>2, <3>2, <3>4 DEF LoopProgress
  <2> QED BY <1>6, <2>1, <2>2
<1> QED BY <1>2, <1>7, <1>8, <1>9

LEMMA InitShape ==
  ASSUME Init PROVE GateShape
<1>1. StreamShape /\ StreamTypeOK
  BY StreamInitShape DEF Init, StreamShape
<1>2. /\ ctl \in [Days -> [Tables -> Row]] /\ fails \in Nat /\ forcings \in Nat
      /\ \A d \in Days, t \in Tables : ctl[d][t].status = "none"
  <2>1. NoRow \in Row /\ NoRow.status = "none"
    BY DEF NoRow, Row
  <2> QED BY <2>1 DEF Init
<1>3. gate = Idle /\ gate \in Run
  BY IdleType DEF Init
<1>4. TypeOK
  BY <1>1, <1>2, <1>3 DEF TypeOK
<1>5. OnlyClosedDays /\ LoopProgress
  BY <1>2, <1>3 DEF OnlyClosedDays, LoopProgress, Committed, Idle
<1> QED BY <1>1, <1>4, <1>5 DEF GateShape

LEMMA NextShape ==
  ASSUME GateShape, [Next]_vars
  PROVE  GateShape'
<1>1. CASE StreamNext /\ UNCHANGED gateVars
  BY <1>1, StreamGateShape
<1>2. CASE UNCHANGED vars
  BY <1>2, StreamGateShape DEF vars
<1>3. CASE Trigger \/ (\E d \in Days : TriggerForced(d)) \/ FailRun
  BY <1>3, TriggerShape
<1>4. CASE GateStep
  BY <1>4, DetectShape, OpenShape, CaughtUpShape, PinShape DEF GateStep
<1> QED BY <1>1, <1>2, <1>3, <1>4 DEF Next

THEOREM GateShapeInvariant == Spec => []GateShape
BY InitShape, NextShape, PTL DEF Spec

(* Every variable of the stream and of the gate keeps its type.              *)
THEOREM TypeCorrect == Spec => []TypeOK
<1>1. GateShape => TypeOK
  BY DEF GateShape
<1> QED BY <1>1, GateShapeInvariant, PTL

(* A run nobody forced works on a day with a row that is not sealed, so it   *)
(* writes no row of a day that is all sealed: _detect_cob's all_sealed check *)
(* is enough, though the check and the writes are many statements apart.     *)
THEOREM SealedDayStays == Spec => SealedDayIsFinal
<1>1. ASSUME GateShape, [Next]_vars
      PROVE  [ \A d \in Days :
                 (AllSealed(ctl, d, Tables) /\ ~gate.forced) => ctl'[d] = ctl[d] ]_vars
  <2> SUFFICES ASSUME NEW d \in Days, AllSealed(ctl, d, Tables), ~gate.forced
               PROVE  ctl'[d] = ctl[d]
    OBVIOUS
  <2>1. Committed => gate.d # d
    BY <1>1, AllSealedMeansEach DEF GateShape, LoopProgress
  <2>2. gate.l_cob \in Nat /\ GateSources[gate.next] \in Tables /\ TypeOK
    BY <1>1, GateTypes DEF GateShape
  <2>3. CASE OpenNext
    <3>1. gate.d \in Days /\ gate.d # d
      BY <1>1, <2>1, <2>3 DEF OpenNext, Committed, GateShape, OnlyClosedDays
    <3> QED BY <2>2, <2>3, <3>1, OpenWritesRow DEF OpenNext
  <2>4. CASE PinNext
    <3>1. gate.d \in Days /\ gate.d # d
      BY <1>1, <2>1, <2>4 DEF PinNext, Committed, GateShape, OnlyClosedDays
    <3>2. bronze[GateSources[gate.next]] \in Snapshots
      <4>1. bronze \in [Topics -> [Recs -> 0..Len(log)]]
        BY <1>1 DEF GateShape, StreamShape, StreamTypeOK
      <4> QED BY <2>2, <4>1 DEF Snapshots, Topics
    <3> QED BY <2>2, <2>4, <3>1, <3>2, SealWritesRow DEF PinNext
  <2>5. CASE ctl' = ctl
    BY <2>5
  <2> QED BY <1>1, <2>3, <2>4, <2>5 DEF Next, GateStep, Trigger, TriggerForced, DetectForced,
          DetectCob, CaughtUp, FailRun, gateVars, vars
<1> QED BY <1>1, GateShapeInvariant, PTL DEF Spec, SealedDayIsFinal

-----------------------------------------------------------------------------
(* What the gate seals is complete, when the stream is Ordered.              *)

(* A table that landed up to a marker stays landed.                          *)
LEMMA LandedUpToStays ==
  ASSUME StreamShape, NEW t \in Tables, NEW m \in DOMAIN log, LandedUpTo(bronze[t], t, m),
         StreamShape', \A i \in DOMAIN log : log'[i] = log[i],
         \A u \in Topics, r \in Recs : bronze'[u][r] >= bronze[u][r]
  PROVE  LandedUpTo(bronze[t], t, m)'
<1> SUFFICES ASSUME NEW i \in 1..m, log'[i].tab = t
             PROVE  bronze'[t][log'[i].rec] >= i
  BY DEF LandedUpTo
<1>0. log \in Seq(Event) /\ DOMAIN log = 1..Len(log) /\ Len(log) \in Nat
  <2>1. StreamTypeOK
    BY DEF StreamShape
  <2>2. log \in Seq(Event)
    BY <2>1 DEF StreamTypeOK
  <2> QED BY <2>2
<1>1. i \in DOMAIN log /\ i \in Nat /\ log \in Seq(Event)
  BY <1>0
<1>2. log'[i] = log[i] /\ log[i] \in Event
  BY <1>1
<1>3. log[i].rec \in Recs /\ t \in Topics
  BY <1>2 DEF Event, Topics
<1>4. bronze[t][log[i].rec] >= i
  BY <1>2 DEF LandedUpTo
<1>5. bronze[t][log[i].rec] \in Nat /\ bronze'[t][log[i].rec] \in Nat
  <2>1. /\ bronze \in [Topics -> [Recs -> 0..Len(log)]]
        /\ bronze' \in [Topics -> [Recs -> 0..Len(log')]]
    BY DEF StreamShape, StreamTypeOK
  <2> QED BY <1>3, <2>1
<1> QED BY <1>1, <1>2, <1>3, <1>4, <1>5

(* The heart of the gate: branch A or B, for a marker the run knows.         *)
LEMMA CaughtUpCovers ==
  ASSUME GateInv, CaughtUp, NEW m \in DOMAIN log, Closes(m, gate.d), NEW t \in Tables
  PROVE  LandedUpTo(bronze[t], t, m)
<1> USE DEF GateInv
<1>1. t \in Topics /\ StreamShape /\ StreamInv
  BY DEF Topics, GateShape
<1>2. /\ maxLsn[t] \in Nat /\ streamLsn \in Nat /\ gate.l_cob \in Nat
      /\ Len(log) \in Nat /\ DOMAIN log = 1..Len(log)
  BY <1>1, Numbers, GateTypes DEF GateShape
<1>3. gate.l_cob = m \/ m <= streamLsn
  BY DEF KnowsMarker, Committed, CaughtUp
<1>4. maxLsn[t] >= gate.l_cob \/ streamLsn >= gate.l_cob
  BY DEF CaughtUp, BranchA, BranchB, GlobalCaught
<1>5. m <= maxLsn[t] \/ m <= streamLsn
  BY <1>2, <1>3, <1>4
<1>6. ASSUME NEW i \in 1..m, log[i].tab = t
      PROVE  bronze[t][log[i].rec] >= i
  <2>1. i \in DOMAIN log /\ log[i].lsn = i
    BY <1>2 DEF StreamInv, LsnIsPosition
  <2>2. log[i].lsn <= maxLsn[t] \/ log[i].lsn <= streamLsn
    BY <1>2, <1>5, <2>1
  <2>3. ProgressCovered
    BY <1>1, InvImpliesCovered
  <2> QED BY <1>1, <1>6, <2>1, <2>2, <2>3 DEF ProgressCovered
<1> QED BY <1>6 DEF LandedUpTo

LEMMA StreamKeepsInv ==
  ASSUME Ordered, GateInv, [StreamNext]_streamVars, UNCHANGED gateVars
  PROVE  GateInv'
<1> USE DEF GateInv
<1>1. GateShape' /\ StreamInv' /\ StreamShape' /\ StreamShape
  BY StreamGateShape, StreamNextInv DEF GateShape
<1>2. UNCHANGED <<ctl, gate>>
  BY DEF gateVars
<1>3. /\ \A t \in Topics, r \in Recs : bronze'[t][r] >= bronze[t][r]
      /\ streamLsn' >= streamLsn /\ streamLsn' \in Nat /\ streamLsn \in Nat
  BY <1>1, StreamForward DEF StreamInv, StreamShape, StreamTypeOK
<1>4. /\ DOMAIN log \subseteq DOMAIN log' /\ \A i \in DOMAIN log : log'[i] = log[i]
      /\ \A m \in DOMAIN log' : m \in DOMAIN log \/ log'[m].cob # "done" \/ log'[m].day = day
      /\ DOMAIN log = 1..Len(log) /\ Len(log) \in Nat
  BY <1>1, HistoryGrows, Numbers
<1>5. ASSUME NEW m \in DOMAIN log', NEW d \in Nat, d < day, Closes(m, d)'
      PROVE  m \in DOMAIN log /\ Closes(m, d)
  <2>1. m \in DOMAIN log
    <3>1. log'[m].cob = "done" /\ log'[m].day = d /\ d # day
      BY <1>5 DEF Closes
    <3> QED BY <1>4, <3>1
  <2> QED BY <1>4, <1>5, <2>1 DEF Closes
<1>6. Committed \/ gate.forced => gate.d \in Nat /\ gate.d < day
  BY GateTypes DEF GateShape, OnlyClosedDays
<1>7. KnowsMarker'
  <2> SUFFICES ASSUME NEW m \in DOMAIN log', Committed \/ gate.forced, Closes(m, gate.d)'
               PROVE  /\ Committed => gate.l_cob = m \/ m <= streamLsn'
                      /\ gate.forced => m <= streamLsn'
    BY <1>2 DEF KnowsMarker, Committed
  <2>1. m \in DOMAIN log /\ Closes(m, gate.d)
    BY <1>2, <1>5, <1>6 DEF Closes
  <2>2. /\ Committed => gate.l_cob = m \/ m <= streamLsn
        /\ gate.forced => m <= streamLsn
    BY <2>1 DEF KnowsMarker
  <2>3. m \in Nat
    BY <1>4, <2>1
  <2> QED BY <1>3, <2>2, <2>3
<1>8. PinsCovered'
  <2> SUFFICES ASSUME NEW m \in DOMAIN log', NEW t \in Tables, gate.pc = "pin", Closes(m, gate.d)'
               PROVE  LandedUpTo(bronze[t], t, m)'
    BY <1>2 DEF PinsCovered
  <2>1. m \in DOMAIN log /\ Closes(m, gate.d)
    BY <1>2, <1>5, <1>6 DEF Closes, Committed
  <2> QED BY <1>1, <1>3, <1>4, <2>1, LandedUpToStays DEF PinsCovered
<1>9. PinnedComplete'
  <2> SUFFICES ASSUME NEW d \in Days, NEW t \in Tables, NEW m \in DOMAIN log',
                      ctl[d][t].status = "sealed", Closes(m, d)'
               PROVE  ctl[d][t].snapshot # Null /\ LandedUpTo(ctl[d][t].snapshot, t, m)'
    BY <1>2 DEF PinnedComplete, Sealed
  <2>1. d \in Nat /\ d < day
    BY DEF Days, GateShape, OnlyClosedDays
  <2>2. m \in DOMAIN log /\ Closes(m, d)
    BY <1>5, <2>1
  <2>3. ctl[d][t].snapshot # Null /\ LandedUpTo(ctl[d][t].snapshot, t, m)
    BY <2>2 DEF PinnedComplete, Sealed
  <2>4. \A i \in 1..m : log'[i] = log[i]
    BY <1>4, <2>2
  <2> QED BY <1>2, <2>3, <2>4 DEF LandedUpTo
<1> QED BY <1>1, <1>7, <1>8, <1>9

(* A step of the DAG that writes no row keeps the stream and the sealed rows.*)
LEMMA DagKeepsStream ==
  ASSUME StreamInv, UNCHANGED streamVars
  PROVE  /\ StreamInv'
         /\ ctl' = ctl /\ PinnedComplete => PinnedComplete'
<1>1. StreamShape'
  BY StreamIdle DEF StreamInv, SinkInv
<1>2. StreamInv'
  <2>1. SinkInv'
    BY <1>1, StutterSink DEF StreamInv
  <2> QED BY <2>1, CursorInv DEF streamVars
<1>3. ctl' = ctl /\ PinnedComplete => PinnedComplete'
  BY DEF PinnedComplete, Sealed, Closes, LandedUpTo, streamVars
<1> QED BY <1>2, <1>3

LEMMA DetectInv ==
  ASSUME GateInv, DetectForced \/ DetectCob
  PROVE  KnowsMarker' /\ PinsCovered' /\ PinnedComplete'
<1> USE DEF GateInv
<1>1. /\ UNCHANGED streamVars /\ UNCHANGED <<log, streamLsn>> /\ ctl' = ctl /\ gate.pc = "detect"
      /\ gate \in Run /\ StreamShape
  BY GateTypes DEF DetectForced, DetectCob, streamVars, GateShape
<1>2. gate'.pc = "open"
  BY <1>1 DEF DetectForced, DetectCob, Run
<1>3. ASSUME NEW m \in DOMAIN log, Closes(m, gate'.d)
      PROVE  /\ gate'.l_cob = m \/ m <= streamLsn
             /\ gate'.forced => m <= streamLsn
  <2>1. CASE DetectForced
    <3>1. gate'.d = gate.d /\ gate.forced
      BY <1>1, <2>1 DEF DetectForced, Run
    <3> QED BY <1>3, <3>1 DEF KnowsMarker
  <2>2. CASE DetectCob
    <3> DEFINE d == log[MarkerRow].day
    <3>1. /\ gate' = [gate EXCEPT !.pc = "open", !.d = d, !.l_cob = log[MarkerRow].lsn]
          /\ CobDone /\ ~gate.forced
      BY <2>2 DEF DetectCob
    <3>2. MarkerRow \in DOMAIN log
      BY <1>1, <3>1, Numbers, ConstantsAssumption DEF CobDone, MarkerRow, Topics
    <3>3. Closes(MarkerRow, d)
      BY <1>1, <3>1, <3>2 DEF Closes, CobDone, StreamShape, MarkersCloseDays
    <3>4. gate'.d = d /\ gate'.l_cob = log[MarkerRow].lsn /\ ~gate'.forced
      <4> HIDE DEF d
      <4> QED BY <1>1, <3>1 DEF Run
    <3>5. m = MarkerRow
      BY <1>1, <1>3, <3>2, <3>3, <3>4, MarkerIsUnique
    <3> QED BY <3>2, <3>4, <3>5 DEF StreamInv, LsnIsPosition
  <2> QED BY <2>1, <2>2
<1>4. KnowsMarker'
  BY <1>1, <1>3 DEF KnowsMarker, Closes
<1>5. PinsCovered' /\ PinnedComplete'
  BY <1>1, <1>2, DagKeepsStream DEF PinsCovered
<1> QED BY <1>4, <1>5

LEMMA TriggerInv ==
  ASSUME GateInv, Trigger \/ (\E d \in Days : TriggerForced(d)) \/ FailRun
  PROVE  KnowsMarker' /\ PinsCovered' /\ PinnedComplete'
<1> USE DEF GateInv
<1>1. /\ UNCHANGED streamVars /\ UNCHANGED <<log, streamLsn>> /\ ctl' = ctl
      /\ StreamShape /\ streamLsn \in Nat
  BY Numbers DEF Trigger, TriggerForced, FailRun, streamVars, GateShape
<1>2. /\ gate'.pc \in {"idle", "detect"}
      /\ \A m \in DOMAIN log : (gate'.forced /\ Closes(m, gate'.d)) => m <= streamLsn
  <2>1. CASE Trigger \/ FailRun
    BY <2>1 DEF Trigger, FailRun, Idle
  <2>2. ASSUME NEW d \in Days, TriggerForced(d)
        PROVE  /\ gate'.pc = "detect"
               /\ \A m \in DOMAIN log : Closes(m, gate'.d) => m <= streamLsn
    <3>1. gate'.pc = "detect" /\ gate'.d = d
      BY <2>2 DEF TriggerForced, Idle
    <3>2. PICK n \in DOMAIN log : Closes(n, d) /\ log[n].lsn <= streamLsn
      BY <2>2 DEF TriggerForced, Replayable
    <3>3. \A m \in DOMAIN log : Closes(m, d) => m = n
      BY <1>1, <3>2, MarkerIsUnique
    <3> QED BY <3>1, <3>2, <3>3 DEF StreamInv, LsnIsPosition
  <2> QED BY <2>1, <2>2
<1>3. KnowsMarker'
  BY <1>1, <1>2 DEF KnowsMarker, Committed, Closes
<1>4. PinsCovered' /\ PinnedComplete'
  BY <1>1, <1>2, DagKeepsStream DEF PinsCovered
<1> QED BY <1>3, <1>4

LEMMA OpenInv ==
  ASSUME GateInv, OpenNext
  PROVE  KnowsMarker' /\ PinsCovered' /\ PinnedComplete'
<1> USE DEF GateInv
<1>1. /\ UNCHANGED <<log, streamLsn>> /\ gate.pc = "open"
      /\ gate \in Run /\ GateSources[gate.next] \in Tables /\ gate.l_cob \in Nat /\ TypeOK
      /\ gate.d \in Days
  BY GateTypes DEF OpenNext, streamVars, GateShape, OnlyClosedDays, Committed
<1>2. /\ gate'.pc \in {"open", "wait"} /\ gate'.d = gate.d /\ gate'.l_cob = gate.l_cob
      /\ gate'.forced = gate.forced
  BY <1>1 DEF OpenNext, Advance, Run
<1>3. KnowsMarker'
  BY <1>1, <1>2 DEF KnowsMarker, Committed, Closes
<1>4. PinsCovered'
  BY <1>2 DEF PinsCovered
<1>5. \A d \in Days, t \in Tables : ctl'[d][t].status = "sealed" => ctl'[d][t] = ctl[d][t]
  <2>1. ctl' = OpenPending(ctl, gate.d, GateSources[gate.next], gate.l_cob)
    BY DEF OpenNext
  <2>2. /\ ctl'[gate.d][GateSources[gate.next]].status = "pending"
        /\ \A d \in Days, t \in Tables :
             (d # gate.d \/ t # GateSources[gate.next]) => ctl'[d][t] = ctl[d][t]
    BY <1>1, <2>1, OpenWritesRow
  <2> QED BY <2>2
<1>6. PinnedComplete'
  BY <1>1, <1>5 DEF PinnedComplete, Sealed, Closes, LandedUpTo
<1> QED BY <1>3, <1>4, <1>6

LEMMA CaughtUpInv ==
  ASSUME GateInv, CaughtUp
  PROVE  KnowsMarker' /\ PinsCovered' /\ PinnedComplete'
<1> USE DEF GateInv
<1>1. /\ UNCHANGED streamVars /\ UNCHANGED <<log, streamLsn, bronze>> /\ ctl' = ctl
      /\ gate.pc = "wait" /\ gate' = [gate EXCEPT !.pc = "pin"] /\ gate \in Run
  BY GateTypes DEF CaughtUp, streamVars, GateShape
<1>2. /\ gate'.d = gate.d /\ gate'.l_cob = gate.l_cob /\ gate'.forced = gate.forced
  BY <1>1 DEF Run
<1>3. KnowsMarker'
  BY <1>1, <1>2 DEF KnowsMarker, Committed, Closes
<1>4. PinsCovered'
  <2>1. \A m \in DOMAIN log, t \in Tables : Closes(m, gate.d) => LandedUpTo(bronze[t], t, m)
    BY CaughtUpCovers
  <2> QED BY <1>1, <1>2, <2>1 DEF PinsCovered, Closes, LandedUpTo
<1>5. PinnedComplete'
  BY <1>1, DagKeepsStream
<1> QED BY <1>3, <1>4, <1>5

LEMMA PinInv ==
  ASSUME GateInv, PinNext
  PROVE  KnowsMarker' /\ PinsCovered' /\ PinnedComplete'
<1> USE DEF GateInv
<1> DEFINE s == GateSources[gate.next]
<1>1. /\ UNCHANGED <<log, streamLsn, bronze>> /\ gate.pc = "pin"
      /\ gate \in Run /\ s \in Tables /\ TypeOK /\ gate.d \in Days
  BY GateTypes DEF PinNext, streamVars, GateShape, OnlyClosedDays, Committed
<1>2. \/ /\ gate'.pc = "pin" /\ gate'.d = gate.d /\ gate'.l_cob = gate.l_cob
         /\ gate'.forced = gate.forced
      \/ gate'.pc = "idle" /\ ~gate'.forced
  BY <1>1 DEF PinNext, Advance, Run, Idle
<1>3. KnowsMarker'
  BY <1>1, <1>2 DEF KnowsMarker, Committed, Closes
<1>4. PinsCovered'
  BY <1>1, <1>2 DEF PinsCovered, Closes, LandedUpTo
<1>5. bronze[s] \in Snapshots
  <2>1. bronze \in [Topics -> [Recs -> 0..Len(log)]] /\ s \in Topics
    BY <1>1 DEF GateShape, StreamShape, StreamTypeOK, Topics
  <2> QED BY <2>1 DEF Snapshots
<1>6. /\ ctl'[gate.d][s].snapshot = bronze[s] /\ bronze[s] # Null
      /\ \A d \in Days, t \in Tables : (d # gate.d \/ t # s) => ctl'[d][t] = ctl[d][t]
  <2>1. ctl' = Seal(ctl, gate.d, s, bronze[s], Null, Null)
    BY DEF PinNext
  <2> QED BY <1>1, <1>5, <2>1, SealWritesRow
<1>7. PinnedComplete'
  <2> SUFFICES ASSUME NEW d \in Days, NEW t \in Tables, NEW m \in DOMAIN log,
                      ctl'[d][t].status = "sealed", Closes(m, d)
               PROVE  ctl'[d][t].snapshot # Null /\ LandedUpTo(ctl'[d][t].snapshot, t, m)
    BY <1>1 DEF PinnedComplete, Sealed, Closes, LandedUpTo
  <2>1. CASE d = gate.d /\ t = s
    BY <1>1, <1>6, <2>1 DEF PinsCovered
  <2>2. CASE d # gate.d \/ t # s
    BY <1>6, <2>2 DEF PinnedComplete, Sealed
  <2> QED BY <2>1, <2>2
<1> QED BY <1>3, <1>4, <1>7

LEMMA InitInv ==
  ASSUME Init PROVE GateInv
<1>1. GateShape /\ StreamInv
  BY InitShape, StreamInitInv DEF Init
<1>2. gate = Idle /\ log = <<>>
  BY DEF Init, StreamInit
<1>3. KnowsMarker /\ PinsCovered /\ PinnedComplete
  BY <1>2 DEF KnowsMarker, PinsCovered, PinnedComplete, Idle
<1> QED BY <1>1, <1>3 DEF GateInv

LEMMA NextInv ==
  ASSUME Ordered, GateInv, [Next]_vars
  PROVE  GateInv'
<1>1. GateShape'
  BY NextShape DEF GateInv
<1>2. CASE StreamNext /\ UNCHANGED gateVars
  BY <1>2, StreamKeepsInv
<1>3. CASE UNCHANGED vars
  BY <1>3, StreamKeepsInv DEF vars
<1>4. CASE Trigger \/ (\E d \in Days : TriggerForced(d)) \/ FailRun
  <2>1. UNCHANGED streamVars
    BY <1>4 DEF Trigger, TriggerForced, FailRun
  <2>2. StreamInv'
    BY <2>1, DagKeepsStream DEF GateInv
  <2> QED BY <1>1, <1>4, <2>2, TriggerInv DEF GateInv
<1>5. CASE GateStep
  <2>1. UNCHANGED streamVars
    BY <1>5 DEF GateStep, DetectForced, DetectCob, OpenNext, CaughtUp, PinNext
  <2>2. StreamInv'
    BY <2>1, DagKeepsStream DEF GateInv
  <2>3. KnowsMarker' /\ PinsCovered' /\ PinnedComplete'
    BY <1>5, DetectInv, OpenInv, CaughtUpInv, PinInv DEF GateStep
  <2> QED BY <1>1, <2>2, <2>3 DEF GateInv
<1> QED BY <1>2, <1>3, <1>4, <1>5 DEF Next

THEOREM GateInvariant ==
  ASSUME Ordered PROVE Spec => []GateInv
BY InitInv, NextInv, PTL DEF Spec

(* When the stream is Ordered, every snapshot the gate seals holds every     *)
(* change T24 committed before it closed the day, for any tables, days,      *)
(* failed runs, replays and crashes of the driver.                           *)
THEOREM SealedIsComplete ==
  ASSUME Ordered PROVE Spec => []PinnedComplete
<1>1. GateInv => PinnedComplete
  BY DEF GateInv
<1> QED BY <1>1, GateInvariant, PTL

-----------------------------------------------------------------------------
(* The stream behind the gate: the DAG only reads what the Spark driver      *)
(* writes, so what is proved of StreamSpec holds under Spec.                 *)

LEMMA NextIsStreamStep == [Next]_vars => [StreamNext]_streamVars
BY DEF Next, Trigger, TriggerForced, FailRun, GateStep, DetectForced, DetectCob, OpenNext,
       CaughtUp, PinNext, vars

LEMMA GateRunsTheStream == Spec => StreamSpec
<1>1. Init => StreamInit
  BY DEF Init
<1> QED BY <1>1, NextIsStreamStep, PTL DEF Spec, StreamSpec

(* While the gate opens, waits and pins, and whatever runs fail or are       *)
(* forced: a bronze row is between batches exactly the last of its events    *)
(* the checkpoint counts as consumed, when no event is published twice.      *)
THEOREM GateReadsWhatIsCommitted ==
  ASSUME MaxRestart = 0
  PROVE  Spec => []CommittedIsApplied
BY GateRunsTheStream, WhatIsCommittedIsApplied, PTL
-----------------------------------------------------------------------------
(* The gate implements the ledger.                                          *)

(* One row of the control table is written.                                  *)
LEMMA SealedMoves ==
  ASSUME NEW d \in Days, NEW s \in Tables,
         \A e \in Days, u \in Tables : (e # d \/ u # s) => ctl'[e][u] = ctl[e][u]
  PROVE  /\ ctl'[d][s].status # "sealed"
              => SealedByDay' = [SealedByDay EXCEPT ![d] = @ \ {s}]
         /\ ctl'[d][s].status = "sealed"
              => SealedByDay' = [SealedByDay EXCEPT ![d] = @ \cup {s}]
<1>1. \A e \in Days : e # d => SealedByDay'[e] = SealedByDay[e]
  BY DEF SealedByDay, Sealed
<1>2. ctl'[d][s].status # "sealed" => SealedByDay'[d] = SealedByDay[d] \ {s}
  BY DEF SealedByDay, Sealed
<1>3. ctl'[d][s].status = "sealed" => SealedByDay'[d] = SealedByDay[d] \cup {s}
  BY DEF SealedByDay, Sealed
<1>4. /\ SealedByDay' = [e \in Days |-> SealedByDay'[e]]
      /\ SealedByDay = [e \in Days |-> SealedByDay[e]]
  BY DEF SealedByDay
<1> HIDE DEF SealedByDay
<1> QED BY <1>1, <1>2, <1>3, <1>4

(* What the ledger sees of the run.                                          *)
LEMMA InHandByStep ==
  ASSUME GateShape
  PROVE  /\ (~Committed /\ ~gate.forced) => DayInHand = Ledger!NoRun
         /\ (Committed \/ gate.forced) =>
              /\ DayInHand.d = gate.d /\ DayInHand.forced = gate.forced
              /\ DayInHand # Ledger!NoRun
              /\ gate.pc # "pin" => DayInHand.over = {}
              /\ gate.pc = "pin" =>
                   DayInHand.over = {GateSources[k] : k \in 1..(gate.next - 1)}
         /\ Days = 1..MaxDay
<1>1. Committed \/ gate.forced => gate.d # 0
  BY DEF GateShape, OnlyClosedDays, Days
<1> QED BY <1>1 DEF DayInHand, Ledger!NoRun, Days

LEMMA StreamIsLedgerStep ==
  ASSUME GateShape, [StreamNext]_streamVars, UNCHANGED <<ctl, gate>>
  PROVE  [Ledger!LedgerNext]_<<day - 1, SealedByDay, PinnedByDay, DayInHand>>
<1>1. UNCHANGED <<SealedByDay, PinnedByDay, DayInHand>>
  BY DEF SealedByDay, PinnedByDay, DayInHand, Sealed, Committed
<1>2. day \in Nat /\ (day' = day \/ day' = day + 1)
  <2>1. day \in Nat
    BY DEF GateShape, StreamShape, StreamTypeOK
  <2>2. day' = day \/ day' = day + 1
    BY DEF StreamNext, SourceNext, Change, StartCob, FinishCob, SparkStep, Publish,
           RestartConnector, PlanBatch, ResumeBatch, SkipTable, MergeTable, DeleteTable,
           UpsertProgress, CommitBatch, CrashDriver, sourceVars, streamVars
  <2> QED BY <2>1, <2>2
<1>3. CASE day' = day + 1
  <2>1. Ledger!CloseDay
    BY <1>1, <1>2, <1>3 DEF Ledger!CloseDay
  <2> QED BY <2>1 DEF Ledger!LedgerNext
<1> QED BY <1>1, <1>2, <1>3

(* A run that nobody forced takes its day when its sensor fires.             *)
LEMMA TakesClosedDay ==
  ASSUME GateShape, GateShape', UNCHANGED <<day, ctl>>, ~Committed /\ ~gate.forced,
         gate'.d \in Days, gate'.d < day, gate'.pc # "pin",
         (Committed \/ gate.forced)',
         ~gate'.forced => \E t \in Tables : ctl[gate'.d][t].status # "sealed"
  PROVE  Ledger!LedgerNext
<1> DEFINE d == gate'.d
<1>1. UNCHANGED <<day - 1, SealedByDay, PinnedByDay>>
  BY DEF SealedByDay, PinnedByDay, Sealed
<1>2. DayInHand = Ledger!NoRun
  BY InHandByStep
<1>3. DayInHand' = [d |-> d, forced |-> gate'.forced, over |-> {}]
  BY DEF DayInHand
<1>4. d \in 1..(day - 1) /\ d \in 1..MaxDay
  BY DEF Days, GateShape, StreamShape, StreamTypeOK
<1>5. ~gate'.forced => SealedByDay[d] # Tables
  BY DEF SealedByDay, Sealed
<1>6. gate'.forced \in BOOLEAN
  BY DEF GateShape, TypeOK, Run
<1>7. Ledger!Take(d, gate'.forced)
  BY <1>1, <1>2, <1>3, <1>4, <1>5 DEF Ledger!Take
<1> QED BY <1>4, <1>6, <1>7 DEF Ledger!LedgerNext

LEMMA TriggerIsLedgerStep ==
  ASSUME GateShape, Trigger \/ (\E d \in Days : TriggerForced(d)) \/ FailRun
  PROVE  [Ledger!LedgerNext]_<<day - 1, SealedByDay, PinnedByDay, DayInHand>>
<1> USE DEF GateShape
<1>1. UNCHANGED <<day, ctl>>
  BY DEF Trigger, TriggerForced, FailRun, streamVars
<1>2. UNCHANGED <<day - 1, SealedByDay, PinnedByDay>>
  BY <1>1 DEF SealedByDay, PinnedByDay, Sealed
<1>3. CASE Trigger
  <2>1. /\ gate.pc = "idle" /\ ~gate.forced
        /\ gate'.pc = "detect" /\ ~gate'.forced
    BY <1>3 DEF Trigger, Idle, GateShape, LoopProgress
  <2>2. DayInHand = Ledger!NoRun /\ DayInHand' = Ledger!NoRun
    BY <2>1 DEF DayInHand, Committed, Ledger!NoRun
  <2> QED BY <1>2, <2>2
<1>4. ASSUME NEW d \in Days, TriggerForced(d)
      PROVE  Ledger!LedgerNext
  <2>1. /\ gate.pc = "idle" /\ ~gate.forced
        /\ gate'.pc = "detect" /\ gate'.forced /\ gate'.d = d
    <3>1. gate.pc = "idle" /\ gate' = [Idle EXCEPT !.pc = "detect", !.d = d, !.forced = TRUE]
      BY <1>4 DEF TriggerForced
    <3>2. gate'.pc = "detect" /\ gate'.forced /\ gate'.d = d
      BY <3>1, IdleType DEF Run
    <3> QED BY <3>1, <3>2 DEF GateShape, LoopProgress
  <2>2. GateShape'
    BY <1>4, TriggerShape
  <2>3. gate'.d < day
    BY <1>1, <2>1, <2>2 DEF GateShape, OnlyClosedDays
  <2> QED BY <1>1, <2>1, <2>2, <2>3, TakesClosedDay DEF Committed
<1>5. CASE FailRun
  <2>1. DayInHand' = Ledger!NoRun
    BY <1>5 DEF FailRun, Idle, DayInHand, Committed, Ledger!NoRun
  <2>2. Ledger!Leave
    BY <1>2, <2>1 DEF Ledger!Leave
  <2> QED BY <2>2 DEF Ledger!LedgerNext
<1> QED BY <1>3, <1>4, <1>5

LEMMA DetectIsLedgerStep ==
  ASSUME GateShape, GateShape', DetectForced \/ DetectCob \/ CaughtUp
  PROVE  [Ledger!LedgerNext]_<<day - 1, SealedByDay, PinnedByDay, DayInHand>>
<1>1. UNCHANGED <<day, ctl>> /\ gate \in Run
  BY DEF DetectForced, DetectCob, CaughtUp, streamVars, sourceVars, GateShape, TypeOK
<1>2. UNCHANGED <<day - 1, SealedByDay, PinnedByDay>>
  BY <1>1 DEF SealedByDay, PinnedByDay, Sealed
<1>3. CASE DetectForced
  <2>1. /\ gate.pc = "detect" /\ gate.forced /\ gate'.pc = "open" /\ gate'.forced
        /\ gate'.d = gate.d
    BY <1>1, <1>3 DEF DetectForced, Run
  <2>2. UNCHANGED DayInHand
    BY <2>1 DEF DayInHand
  <2> QED BY <1>2, <2>2
<1>4. CASE DetectCob
  <2>1. /\ gate.pc = "detect" /\ ~gate.forced /\ gate'.pc = "open" /\ ~gate'.forced
    BY <1>1, <1>4 DEF DetectCob, Run
  <2>2. ~Committed /\ Committed'
    BY <2>1 DEF Committed
  <2>3. /\ gate'.d \in Days /\ gate'.d < day
        /\ \E t \in Tables : ctl[gate'.d][t].status # "sealed"
    BY <1>1, <2>1, <2>2 DEF GateShape, OnlyClosedDays, LoopProgress
  <2> QED BY <1>1, <2>1, <2>2, <2>3, TakesClosedDay
<1>5. CASE CaughtUp
  <2>1. /\ gate.pc = "wait" /\ gate.next = 1
        /\ gate'.pc = "pin" /\ gate'.next = 1 /\ gate'.d = gate.d /\ gate'.forced = gate.forced
    BY <1>1, <1>5 DEF CaughtUp, Run, GateShape, LoopProgress
  <2>2. {GateSources[k] : k \in 1..(1 - 1)} = {}
    OBVIOUS
  <2>3. UNCHANGED DayInHand
    BY <2>1, <2>2 DEF DayInHand, Committed
  <2> QED BY <1>2, <2>3
<1> QED BY <1>3, <1>4, <1>5

LEMMA OpenIsLedgerStep ==
  ASSUME GateShape, OpenNext
  PROVE  Ledger!LedgerNext
<1> DEFINE d == gate.d
           s == GateSources[gate.next]
<1>1. /\ gate.pc = "open" /\ ctl' = OpenPending(ctl, d, s, gate.l_cob)
      /\ day' = day /\ gate \in Run /\ TypeOK
  BY DEF OpenNext, streamVars, sourceVars, GateShape, TypeOK
<1>2. d \in Days /\ s \in Tables /\ gate.l_cob \in Nat
  BY <1>1, GateTypes DEF GateShape, OnlyClosedDays, Committed
<1>3. /\ ctl'[d][s].status = "pending"
      /\ \A e \in Days, u \in Tables : (e # d \/ u # s) => ctl'[e][u] = ctl[e][u]
      /\ ctl'[d][s].snapshot = ctl[d][s].snapshot
  <2>1. ctl \in [Days -> [Tables -> Row]]
    BY <1>1 DEF TypeOK
  <2>2. ctl'[d][s] = [ctl[d][s] EXCEPT !.status = "pending",
                                       !.l_cob = COALESCE(gate.l_cob, ctl[d][s].l_cob)]
    BY <1>1, <1>2, <2>1 DEF OpenPending
  <2>3. ctl[d][s] \in Row
    BY <1>2, <2>1
  <2>4. ctl'[d][s].snapshot = ctl[d][s].snapshot
    BY <2>2, <2>3 DEF Row
  <2>5. /\ ctl'[d][s].status = "pending"
        /\ \A e \in Days, u \in Tables : (e # d \/ u # s) => ctl'[e][u] = ctl[e][u]
    BY <1>1, <1>2, OpenWritesRow
  <2> QED BY <2>4, <2>5
<1>4. PinnedByDay' = PinnedByDay
  <2>1. \A e \in Days, u \in Tables : ctl'[e][u].snapshot = ctl[e][u].snapshot
    BY <1>3
  <2> QED BY <2>1 DEF PinnedByDay
<1>5. SealedByDay' = [SealedByDay EXCEPT ![d] = @ \ {s}]
  BY <1>2, <1>3, SealedMoves
<1>6. gate'.pc \in {"open", "wait"} /\ gate'.d = d /\ gate'.forced = gate.forced
  BY <1>1 DEF OpenNext, Advance, Run
<1>7. DayInHand' = DayInHand
  BY <1>1, <1>6 DEF DayInHand, Committed
<1>8. DayInHand.d = d /\ DayInHand # Ledger!NoRun /\ DayInHand.over = {}
  BY <1>1, InHandByStep DEF Committed
<1> HIDE DEF d, s
<1>9. Ledger!Reopen(s)
  BY <1>1, <1>2, <1>4, <1>5, <1>7, <1>8 DEF Ledger!Reopen, Ledger!InHand
<1> QED BY <1>2, <1>9 DEF Ledger!LedgerNext

LEMMA PinIsLedgerStep ==
  ASSUME GateShape, PinNext
  PROVE  Ledger!LedgerNext
<1> DEFINE d == gate.d
           n == gate.next
           s == GateSources[n]
           pinned == {GateSources[k] : k \in 1..(n - 1)}
<1>1. /\ gate.pc = "pin" /\ ctl' = Seal(ctl, d, s, bronze[s], Null, Null)
      /\ Advance(Idle) /\ day' = day /\ gate \in Run /\ TypeOK
  BY DEF PinNext, streamVars, sourceVars, GateShape, TypeOK
<1>2. /\ d \in Days /\ s \in Tables /\ n \in 1..Len(GateSources) /\ Len(GateSources) \in Nat
  BY <1>1, GateTypes DEF GateShape, OnlyClosedDays, Committed
<1>3. /\ ctl'[d][s].status = "sealed"
      /\ \A e \in Days, u \in Tables : (e # d \/ u # s) => ctl'[e][u] = ctl[e][u]
  <2>1. bronze[s] \in Snapshots
    <3>1. bronze \in [Topics -> [Recs -> 0..Len(log)]]
      BY DEF GateShape, StreamShape, StreamTypeOK
    <3> QED BY <1>2, <3>1 DEF Snapshots, Topics
  <2> QED BY <1>1, <1>2, <2>1, SealWritesRow
<1>4. SealedByDay' = [SealedByDay EXCEPT ![d] = @ \cup {s}]
  BY <1>2, <1>3, SealedMoves
<1>5. s \notin SealedByDay[d]
  <2>1. n \in n..Len(GateSources)
    BY <1>2
  <2>2. ctl[d][s].status = "pending"
    BY <1>1, <2>1 DEF GateShape, LoopProgress
  <2> QED BY <1>2, <2>2 DEF SealedByDay, Sealed
<1>6. \A e \in 1..MaxDay, u \in Tables : (e # d \/ u # s) => PinnedByDay'[e][u] = PinnedByDay[e][u]
  BY <1>3 DEF PinnedByDay, Days
<1>7. /\ DayInHand = [d |-> d, forced |-> gate.forced, over |-> pinned]
      /\ DayInHand # Ledger!NoRun
  BY <1>1, InHandByStep DEF DayInHand, Committed
<1>8. s \notin pinned
  <2>1. \A k \in 1..(n - 1) : k \in 1..Len(GateSources) /\ k # n
    BY <1>2
  <2> QED BY <1>2, <2>1, SourcesDistinct
<1>9. \/ DayInHand' = [DayInHand EXCEPT !.over = @ \cup {s}]
      \/ DayInHand.over \cup {s} = Tables /\ DayInHand' = Ledger!NoRun
  <2>1. CASE n < Len(GateSources)
    <3>1. gate' = [gate EXCEPT !.next = n + 1]
      BY <1>1, <2>1 DEF Advance
    <3>2. /\ gate'.pc = "pin" /\ gate'.next = n + 1 /\ gate'.d = d
          /\ gate'.forced = gate.forced
      BY <1>1, <3>1 DEF Run
    <3>3. {GateSources[k] : k \in 1..((n + 1) - 1)} = pinned \cup {s}
      <4>1. \A k : k \in 1..((n + 1) - 1) <=> (k \in 1..(n - 1) \/ k = n)
        BY <1>2
      <4> QED BY <4>1
    <3>4. DayInHand' = [d |-> d, forced |-> gate.forced, over |-> pinned \cup {s}]
      BY <3>2, <3>3 DEF DayInHand, Committed
    <3> HIDE DEF pinned, s, d
    <3> QED BY <1>7, <3>4
  <2>2. CASE ~(n < Len(GateSources))
    <3>1. gate' = Idle
      BY <1>1, <2>2 DEF Advance
    <3>2. DayInHand' = Ledger!NoRun
      BY <3>1 DEF DayInHand, Committed, Idle, Ledger!NoRun
    <3>3. pinned \cup {s} = Tables
      <4>1. pinned \cup {s} \subseteq Tables
        <5>1. \A k \in 1..(n - 1) : k \in 1..Len(GateSources)
          BY <1>2
        <5> QED BY <1>2, <5>1, SourceIsTable
      <4>2. ASSUME NEW t \in Tables PROVE t \in pinned \cup {s}
        <5>1. PICK k \in 1..Len(GateSources) : GateSources[k] = t
          BY GateAssumption
        <5>2. k \in 1..(n - 1) \/ k = n
          BY <1>2, <2>2
        <5> QED BY <5>1, <5>2
      <4> QED BY <4>1, <4>2
    <3>4. DayInHand.over = pinned
      BY <1>7
    <3> HIDE DEF pinned, s, d
    <3> QED BY <3>2, <3>3, <3>4
  <2> QED BY <2>1, <2>2
<1>10. DayInHand.d = d /\ DayInHand.over = pinned
  BY <1>7
<1> HIDE DEF d, s, pinned
<1>11. Ledger!OnlyRow(s)
  BY <1>6, <1>10 DEF Ledger!OnlyRow
<1>12. Ledger!SealRow(s)
  BY <1>1, <1>2, <1>4, <1>5, <1>7, <1>8, <1>9, <1>10, <1>11 DEF Ledger!SealRow, Ledger!InHand
<1> QED BY <1>2, <1>12 DEF Ledger!LedgerNext

(* The gate implements the ledger the builds rely on, for any stream below   *)
(* it, any tables and days, and whatever runs fail or are forced: it takes   *)
(* closed days only, and no row of a day is written but by the run that      *)
(* holds the day and is not over with the row.                               *)
THEOREM GateImplementsLedger == Spec => ImplementsLedger
<1> DEFINE seen == <<day - 1, SealedByDay, PinnedByDay, DayInHand>>
<1>1. Init => Ledger!LedgerInit
  <2> SUFFICES ASSUME Init PROVE Ledger!LedgerInit
    OBVIOUS
  <2>1. day = 1 /\ gate = Idle /\ \A d \in Days, t \in Tables : ctl[d][t].status = "none"
    BY DEF Init, StreamInit, NoRow
  <2>2. SealedByDay = [d \in 1..MaxDay |-> {}]
    BY <2>1 DEF SealedByDay, Sealed, Days
  <2>3. DayInHand = Ledger!NoRun
    BY <2>1 DEF DayInHand, Committed, Idle, Ledger!NoRun
  <2> QED BY <2>1, <2>2, <2>3 DEF Ledger!LedgerInit
<1>2. GateShape /\ GateShape' /\ [Next]_vars => [Ledger!LedgerNext]_seen
  <2> SUFFICES ASSUME GateShape, GateShape', [Next]_vars PROVE [Ledger!LedgerNext]_seen
    OBVIOUS
  <2>1. CASE UNCHANGED vars \/ (StreamNext /\ UNCHANGED gateVars)
    BY <2>1, StreamIsLedgerStep DEF vars, gateVars
  <2>2. CASE Trigger \/ (\E d \in Days : TriggerForced(d)) \/ FailRun
    BY <2>2, TriggerIsLedgerStep
  <2>3. CASE GateStep
    BY <2>3, DetectIsLedgerStep, OpenIsLedgerStep, PinIsLedgerStep DEF GateStep
  <2> QED BY <2>1, <2>2, <2>3 DEF Next
<1> QED BY <1>1, <1>2, GateShapeInvariant, PTL
        DEF Spec, ImplementsLedger, Ledger!LedgerSpec, Ledger!ledgerVars

=============================================================================
