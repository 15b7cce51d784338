--------------------------- MODULE CdcStreamProofs ---------------------------
(***************************************************************************)
(* Proofs about CdcStream, for every value of the constants.               *)
(*                                                                         *)
(* StreamShape: the types, and that etl_stream_progress never regresses.   *)
(*                                                                         *)
(* SinkInv, when the connector publishes nothing twice, for any overlap of *)
(* transactions, any skew of the topics' end offsets and any number of     *)
(* crashes of the driver: a bronze row is one of the events its batches    *)
(* held and only moves forward, so what has landed stays landed through a  *)
(* crash and a replay of the batch.  From it: what is committed is applied *)
(* (CommittedIsApplied), and the marker row goes through the states of     *)
(* CobMarker (ImplementsMarker).                                           *)
(*                                                                         *)
(* StreamInv, when the stream is Ordered as well: the planned offsets cut  *)
(* the commit order, so etl_stream_progress never runs ahead of bronze     *)
(* (ProgressCovered).                                                      *)
(***************************************************************************)
EXTENDS CdcStream, TLAPS, WellFoundedInduction

-----------------------------------------------------------------------------
(* Facts about numbers and about the operators of the model.                *)

(* A bounded set of numbers that is not empty has a greatest element.       *)
LEMMA MaxExists ==
  ASSUME NEW n \in Nat, NEW S, S \subseteq 0..n, S # {}
  PROVE  \E m \in S : \A x \in S : x <= m
<1> DEFINE D == {n - x : x \in S}
<1>1. \A x \in S : n - x \in Nat
  OBVIOUS
<1>2. D \subseteq Nat /\ D # {}
  BY <1>1
<1>3. PICK d \in D : \A e \in D : <<e, d>> \notin OpToRel(<, Nat)
  BY <1>2, WFMin, NatLessThanWellFounded
<1>4. \A e \in D : <<e, d>> \in Nat \X Nat
  BY <1>2
<1>5. \A e \in D : ~(e < d)
  BY <1>3, <1>4 DEF OpToRel
<1>6. PICK m \in S : d = n - m
  OBVIOUS
<1>7. ASSUME NEW x \in S PROVE x <= m
  <2>1. ~(n - x < n - m) /\ x \in 0..n /\ m \in 0..n
    BY <1>5, <1>6
  <2> QED BY <2>1
<1> QED BY <1>7

(* Append keeps the sequence and adds one element at its end.                *)
LEMMA AppendAdds ==
  ASSUME NEW S, NEW s \in Seq(S), NEW x \in S
  PROVE  /\ Len(s) \in Nat /\ Len(Append(s, x)) = Len(s) + 1
         /\ \A k \in 1..Len(Append(s, x)) :
              \/ k \in 1..Len(s) /\ Append(s, x)[k] = s[k]
              \/ k = Len(s) + 1 /\ Append(s, x)[k] = x
OBVIOUS

(* Raised is the maximum of the old value and the new LSNs: the effect of    *)
(* "WHEN MATCHED AND s.max_lsn > t.max_lsn".                                 *)
LEMMA RaisedIsMax ==
  ASSUME NEW n \in Nat, NEW old \in Nat, NEW lsns, lsns \subseteq 0..n
  PROVE  /\ Raised(old, lsns) \in Nat
         /\ Raised(old, lsns) >= old
         /\ Raised(old, lsns) = old \/ Raised(old, lsns) \in lsns
         /\ \A l \in lsns : l <= Raised(old, lsns)
<1>1. CASE \E l \in lsns : l > old
  <2> DEFINE top == CHOOSE l \in lsns : \A other \in lsns : other <= l
  <2>1. \E l \in lsns : \A other \in lsns : other <= l
    BY <1>1, MaxExists
  <2>2. top \in lsns /\ \A other \in lsns : other <= top
    BY <2>1
  <2>3. Raised(old, lsns) = top
    BY <1>1 DEF Raised
  <2> HIDE DEF top
  <2> QED BY <1>1, <2>2, <2>3
<1>2. CASE ~(\E l \in lsns : l > old)
  <2>1. Raised(old, lsns) = old
    BY <1>2 DEF Raised
  <2> QED BY <1>2, <2>1
<1> QED BY <1>1, <1>2

(* Apply writes at most the rows of its events and leaves the others.        *)
LEMMA ApplyWrites ==
  ASSUME NEW rows, NEW events, NEW r \in Recs
  PROVE  \/ /\ Apply(rows, events)[r] \in events
            /\ log[Apply(rows, events)[r]].rec = r
         \/ /\ Apply(rows, events)[r] = rows[r]
            /\ \A i \in events : log[i].rec # r
BY DEF Apply

-----------------------------------------------------------------------------
(* Type correctness.                                                        *)

(* The micro-batch in flight holds events of its table.                      *)
LEMMA PartHoldsEvents ==
  ASSUME StreamShape, NEW t \in Topics
  PROVE  /\ Part(t) \subseteq 1..Len(log)
         /\ \A i \in Part(t) : log[i].tab = t /\ log[i] \in Event
         /\ PartLsns(t) \subseteq 0..MaxLog
<1>1. \A k \in (done[t] + 1)..wal[t] : k \in 1..Len(topic[t])
  BY DEF StreamShape, StreamTypeOK, OffsetsOrdered
<1>2. Part(t) \subseteq 1..Len(log) /\ \A i \in Part(t) : log[i].tab = t
  <2>1. DOMAIN log = 1..Len(log)
    BY DEF StreamShape, StreamTypeOK
  <2>2. \A k \in 1..Len(topic[t]) : topic[t][k] \in DOMAIN log /\ log[topic[t][k]].tab = t
    BY DEF StreamShape, TopicsHoldEvents
  <2> QED BY <1>1, <2>1, <2>2 DEF Part
<1>3. \A i \in 1..Len(log) : log[i] \in Event /\ log[i].lsn \in 0..MaxLog
  <2>1. log \in Seq(Event) /\ \A i \in DOMAIN log : log[i].lsn <= MaxLog
    BY DEF StreamShape, StreamTypeOK, LsnsBounded
  <2>2. \A i \in 1..Len(log) : log[i] \in Event /\ log[i].lsn <= MaxLog
    BY <2>1
  <2> QED BY <2>2 DEF Event
<1> QED BY <1>2, <1>3 DEF PartLsns

(* What one more event in the log leaves true.                               *)
LEMMA LoggedExtends ==
  ASSUME StreamShape, NEW t \in Topics, NEW r \in Recs, NEW op \in {"u", "d"},
         NEW cob \in {"none", "running", "done"}, Logged(t, r, op, cob)
  PROVE  /\ log' \in Seq(Event) /\ Len(log') = Len(log) + 1
         /\ Len(log) \in Nat /\ DOMAIN log = 1..Len(log) /\ DOMAIN log' = 1..Len(log')
         /\ \A i \in 1..Len(log) : log'[i] = log[i]
         /\ log'[Len(log) + 1].tab = t /\ log'[Len(log) + 1].rec = r
         /\ log'[Len(log) + 1].op = op /\ log'[Len(log) + 1].cob = cob
         /\ log'[Len(log) + 1].day = day
         /\ log'[Len(log) + 1].lsn <= MaxLog
         /\ ~Overlap => log'[Len(log) + 1].lsn = Len(log) + 1
<1>1. log \in Seq(Event) /\ day \in Nat /\ Len(log) < MaxLog
  BY DEF StreamShape, StreamTypeOK, Logged
<1>2. PICK l \in NextLsns(t, r) :
         log' = Append(log, [tab |-> t, rec |-> r, op |-> op, lsn |-> l,
                             cob |-> cob, day |-> day])
  BY DEF Logged
<1>3. l \in 1..MaxLog /\ (~Overlap => l = Len(log) + 1)
  BY ConstantsAssumption, <1>1, <1>2 DEF NextLsns
<1> DEFINE e == [tab |-> t, rec |-> r, op |-> op, lsn |-> l, cob |-> cob, day |-> day]
<1>4. e \in Event
  BY <1>1, <1>3 DEF Event
<1>5. /\ e.tab = t /\ e.rec = r /\ e.op = op /\ e.cob = cob /\ e.day = day
      /\ e.lsn <= MaxLog /\ (~Overlap => e.lsn = Len(log) + 1)
  BY <1>3
<1> HIDE DEF e
<1>6. /\ log' \in Seq(Event) /\ Len(log') = Len(log) + 1
      /\ Len(log) \in Nat /\ DOMAIN log = 1..Len(log) /\ DOMAIN log' = 1..Len(log')
      /\ \A i \in 1..Len(log) : log'[i] = log[i]
      /\ log'[Len(log) + 1] = e
  BY <1>1, <1>2, <1>4 DEF e
<1> QED BY <1>5, <1>6

LEMMA LoggedShape ==
  ASSUME StreamShape, NEW t \in Topics, NEW r \in Recs, NEW op \in {"u", "d"},
         NEW cob \in {"none", "running", "done"}, Logged(t, r, op, cob),
         UNCHANGED <<kafkaVars, sparkVars, lakeVars>>,
         day' \in Nat, cobRunning' \in BOOLEAN
  PROVE  StreamTypeOK' /\ LsnsBounded' /\ TopicsHoldEvents' /\ OffsetsOrdered' /\ MergedInBatch'
<1>1. /\ log' \in Seq(Event) /\ Len(log') = Len(log) + 1
      /\ Len(log) \in Nat /\ DOMAIN log = 1..Len(log) /\ DOMAIN log' = 1..Len(log')
      /\ \A i \in 1..Len(log) : log'[i] = log[i]
      /\ log'[Len(log) + 1].lsn <= MaxLog
  BY LoggedExtends
<1>2. UNCHANGED <<pos, restarts, topic, wal, done, cursor, merged, crashes, bronze, maxLsn, streamLsn>>
  BY DEF kafkaVars, sparkVars, lakeVars
<1>3. bronze \in [Topics -> [Recs -> 0..Len(log')]] /\ pos \in 0..Len(log')
  <2>1. bronze \in [Topics -> [Recs -> 0..Len(log)]] /\ pos \in 0..Len(log)
    BY DEF StreamShape, StreamTypeOK
  <2>2. 0..Len(log) \subseteq 0..Len(log')
    BY <1>1
  <2> QED BY <2>1, <2>2
<1>4. StreamTypeOK'
  BY <1>1, <1>2, <1>3 DEF StreamShape, StreamTypeOK, CommitStep
<1>5. LsnsBounded'
  BY <1>1 DEF StreamShape, LsnsBounded
<1>6. TopicsHoldEvents'
  BY <1>1, <1>2 DEF StreamShape, TopicsHoldEvents
<1>7. OffsetsOrdered' /\ MergedInBatch'
  BY <1>2 DEF StreamShape, OffsetsOrdered, MergedInBatch
<1> QED BY <1>4, <1>5, <1>6, <1>7

LEMMA ChangeShape ==
  ASSUME StreamShape, NEW t \in Tables, NEW r \in Recs, NEW op \in {"u", "d"},
         Change(t, r, op)
  PROVE  StreamShape'
<1>1. /\ t \in Topics /\ Logged(t, r, op, "none")
      /\ UNCHANGED <<kafkaVars, sparkVars, lakeVars>> /\ UNCHANGED <<day, cobRunning>>
  BY DEF Change, Topics
<1>2. day' \in Nat /\ cobRunning' \in BOOLEAN
  BY <1>1 DEF StreamShape, StreamTypeOK
<1>3. StreamTypeOK' /\ LsnsBounded' /\ TopicsHoldEvents' /\ OffsetsOrdered' /\ MergedInBatch'
  BY <1>1, <1>2, LoggedShape
<1>4. MarkersCloseDays'
  <2>1. /\ DOMAIN log = 1..Len(log) /\ DOMAIN log' = 1..(Len(log) + 1) /\ Len(log) \in Nat
        /\ \A i \in 1..Len(log) : log'[i] = log[i]
        /\ log'[Len(log) + 1].cob = "none"
    BY <1>1, LoggedExtends
  <2> QED BY <1>1, <2>1 DEF StreamShape, MarkersCloseDays
<1> QED BY <1>3, <1>4 DEF StreamShape

LEMMA StartCobShape ==
  ASSUME StreamShape, StartCob
  PROVE  StreamShape'
<1>1. /\ BATCH \in Topics /\ CobRecid \in Recs /\ Logged(BATCH, CobRecid, "u", "running")
      /\ UNCHANGED <<kafkaVars, sparkVars, lakeVars>> /\ UNCHANGED day
      /\ cobRunning' = TRUE /\ day <= MaxDay
  BY ConstantsAssumption DEF StartCob, Topics
<1>2. day' \in Nat /\ cobRunning' \in BOOLEAN
  BY <1>1 DEF StreamShape, StreamTypeOK
<1>3. StreamTypeOK' /\ LsnsBounded' /\ TopicsHoldEvents' /\ OffsetsOrdered' /\ MergedInBatch'
  BY <1>1, <1>2, LoggedShape
<1>4. MarkersCloseDays'
  <2>1. /\ DOMAIN log = 1..Len(log) /\ DOMAIN log' = 1..(Len(log) + 1) /\ Len(log) \in Nat
        /\ \A i \in 1..Len(log) : log'[i] = log[i]
        /\ log'[Len(log) + 1].cob = "running"
    BY <1>1, LoggedExtends
  <2> QED BY <1>1, <2>1 DEF StreamShape, MarkersCloseDays
<1> QED BY <1>3, <1>4 DEF StreamShape

LEMMA FinishCobShape ==
  ASSUME StreamShape, FinishCob
  PROVE  StreamShape'
<1>1. /\ BATCH \in Topics /\ CobRecid \in Recs /\ Logged(BATCH, CobRecid, "u", "done")
      /\ UNCHANGED <<kafkaVars, sparkVars, lakeVars>>
      /\ cobRunning /\ cobRunning' = FALSE /\ day' = day + 1
  BY ConstantsAssumption DEF FinishCob, Topics
<1>2. day \in Nat /\ day' \in Nat /\ cobRunning' \in BOOLEAN
  <2>1. day \in Nat
    BY DEF StreamShape, StreamTypeOK
  <2>2. day' = day + 1 /\ cobRunning' = FALSE
    BY <1>1
  <2>3. cobRunning' \in BOOLEAN
    BY <2>2
  <2> QED BY <2>1, <2>2, <2>3
<1>3. StreamTypeOK' /\ LsnsBounded' /\ TopicsHoldEvents' /\ OffsetsOrdered' /\ MergedInBatch'
  BY <1>1, <1>2, LoggedShape
<1>4. MarkersCloseDays'
  <2>1. /\ DOMAIN log = 1..Len(log) /\ DOMAIN log' = 1..(Len(log) + 1) /\ Len(log) \in Nat
        /\ \A i \in 1..Len(log) : log'[i] = log[i]
        /\ log'[Len(log) + 1].cob = "done" /\ log'[Len(log) + 1].tab = BATCH
        /\ log'[Len(log) + 1].day = day
    BY <1>1, LoggedExtends
  <2>2. /\ day >= 1 /\ day <= MaxDay
        /\ \A m \in 1..Len(log) : log[m].cob = "done" =>
             log[m].tab = BATCH /\ log[m].day \in Nat /\ log[m].day >= 1 /\ log[m].day < day
        /\ \A m, n \in 1..Len(log) :
             (log[m].cob = "done" /\ log[n].cob = "done" /\ log[m].day = log[n].day) => m = n
    <3>1. \A m \in 1..Len(log) : log[m] \in Event
      BY DEF StreamShape, StreamTypeOK
    <3>2. \A m \in 1..Len(log) : log[m].day \in Nat
      BY <3>1 DEF Event
    <3> QED BY <1>1, <2>1, <3>2 DEF StreamShape, MarkersCloseDays
  <2>3. /\ day' >= 1 /\ day' <= MaxDay + 1
        /\ cobRunning' => day' <= MaxDay
    BY <1>1, <1>2, <2>2, ConstantsAssumption
  <2>4. \A m \in DOMAIN log' : log'[m].cob = "done" =>
           log'[m].tab = BATCH /\ log'[m].day >= 1 /\ log'[m].day < day'
    BY <1>1, <1>2, <2>1, <2>2
  <2>5. \A m, n \in DOMAIN log' :
          (log'[m].cob = "done" /\ log'[n].cob = "done" /\ log'[m].day = log'[n].day) => m = n
    BY <1>2, <2>1, <2>2
  <2> QED BY <2>3, <2>4, <2>5 DEF MarkersCloseDays
<1> QED BY <1>3, <1>4 DEF StreamShape

(* Nothing but T24 changes the log and the calendar.                         *)
LEMMA SourceUnchanged ==
  ASSUME StreamShape, UNCHANGED sourceVars
  PROVE  LsnsBounded' /\ MarkersCloseDays'
BY DEF StreamShape, LsnsBounded, MarkersCloseDays, sourceVars

LEMMA PublishShape ==
  ASSUME StreamShape, Publish
  PROVE  StreamShape'
<1>1. /\ pos < Len(log) /\ pos' = pos + 1
      /\ topic' = [topic EXCEPT ![log[pos'].tab] = Append(@, pos')]
      /\ UNCHANGED <<log, day, cobRunning, restarts, wal, done, cursor, merged, crashes,
                     bronze, maxLsn, streamLsn>>
  BY DEF Publish, sourceVars, sparkVars, lakeVars
<1>2. log \in Seq(Event) /\ pos \in Nat /\ topic \in [Topics -> Seq(Nat \ {0})]
  BY DEF StreamShape, StreamTypeOK
<1>3. pos' \in 1..Len(log) /\ pos' \in Nat \ {0}
  BY <1>1, <1>2
<1>4. log[pos'].tab \in Topics
  <2>1. log[pos'] \in Event
    BY <1>2, <1>3
  <2> QED BY <2>1 DEF Event
<1>5. topic' \in [Topics -> Seq(Nat \ {0})]
  BY <1>1, <1>2, <1>3, <1>4
<1>6. \A t \in Topics :
        /\ Len(topic[t]) \in Nat /\ Len(topic[t]) <= Len(topic'[t])
        /\ \A k \in 1..Len(topic'[t]) :
             \/ k \in 1..Len(topic[t]) /\ topic'[t][k] = topic[t][k]
             \/ topic'[t][k] = pos' /\ t = log[pos'].tab
  <2> TAKE t \in Topics
  <2>1. CASE t = log[pos'].tab
    <3>1. topic[t] \in Seq(Nat \ {0}) /\ topic'[t] = Append(topic[t], pos')
      BY <1>1, <1>2, <1>4, <2>1
    <3> QED BY <1>3, <2>1, <3>1, AppendAdds
  <2>2. CASE t # log[pos'].tab
    <3>1. topic[t] \in Seq(Nat \ {0}) /\ topic'[t] = topic[t]
      BY <1>1, <1>2, <1>4, <2>2
    <3> QED BY <3>1
  <2> QED BY <2>1, <2>2
<1>7. StreamTypeOK'
  <2>1. pos' \in 0..Len(log')
    BY <1>1, <1>2, <1>3
  <2> QED BY <1>1, <1>5, <2>1 DEF StreamShape, StreamTypeOK, CommitStep
<1>8. TopicsHoldEvents'
  <2>1. \A t \in Topics : \A k \in 1..Len(topic'[t]) :
          topic'[t][k] \in DOMAIN log /\ log[topic'[t][k]].tab = t
    <3> TAKE t \in Topics
    <3> TAKE k \in 1..Len(topic'[t])
    <3>1. CASE k \in 1..Len(topic[t]) /\ topic'[t][k] = topic[t][k]
      BY <3>1 DEF StreamShape, TopicsHoldEvents
    <3>2. CASE topic'[t][k] = pos' /\ t = log[pos'].tab
      BY <1>2, <1>3, <3>2
    <3> QED BY <1>6, <3>1, <3>2
  <2> QED BY <1>1, <2>1 DEF TopicsHoldEvents
<1>9. OffsetsOrdered'
  <2>1. wal \in [Topics -> Nat]
    BY DEF StreamShape, StreamTypeOK
  <2>2. \A t \in Topics : wal[t] <= Len(topic'[t])
    <3> TAKE t \in Topics
    <3>1. Len(topic'[t]) \in Nat /\ wal[t] \in Nat
      BY <1>5, <2>1
    <3> QED BY <1>6, <3>1 DEF StreamShape, OffsetsOrdered
  <2> QED BY <1>1, <2>2 DEF StreamShape, OffsetsOrdered
<1>10. LsnsBounded' /\ MarkersCloseDays' /\ MergedInBatch'
  BY <1>1, SourceUnchanged DEF StreamShape, MergedInBatch, sourceVars
<1> QED BY <1>7, <1>8, <1>9, <1>10 DEF StreamShape

LEMMA RestartShape ==
  ASSUME StreamShape, RestartConnector
  PROVE  StreamShape'
<1>1. /\ restarts' = restarts + 1 /\ pos' \in 0..pos
      /\ UNCHANGED <<log, day, cobRunning, topic, wal, done, cursor, merged, crashes,
                     bronze, maxLsn, streamLsn>>
  BY DEF RestartConnector, sourceVars, sparkVars, lakeVars
<1>2. pos' \in 0..Len(log) /\ restarts' \in Nat
  BY <1>1 DEF StreamShape, StreamTypeOK
<1>3. StreamTypeOK'
  BY <1>1, <1>2 DEF StreamShape, StreamTypeOK, CommitStep
<1>4. LsnsBounded' /\ MarkersCloseDays'
  BY <1>1, SourceUnchanged DEF sourceVars
<1>5. TopicsHoldEvents' /\ OffsetsOrdered' /\ MergedInBatch'
  BY <1>1 DEF StreamShape, TopicsHoldEvents, OffsetsOrdered, MergedInBatch
<1> QED BY <1>3, <1>4, <1>5 DEF StreamShape

(* The end offsets a batch plans are records that are there.                 *)
LEMMA EndOffsetsPlanned ==
  ASSUME StreamShape, NEW ends \in EndOffsets
  PROVE  /\ ends \in [Topics -> Nat]
         /\ \A t \in Topics : wal[t] <= ends[t] /\ ends[t] <= Len(topic[t])
<1>1. topic \in [Topics -> Seq(Nat \ {0})] /\ log \in Seq(Event)
  BY DEF StreamShape, StreamTypeOK
<1>2. \A t \in Topics : Len(topic[t]) \in Nat /\ wal[t] <= Len(topic[t])
  BY <1>1 DEF StreamShape, OffsetsOrdered
<1>3. CASE Skewed
  <2>1. /\ ends \in [Topics -> 0..Len(log) * (1 + MaxRestart)]
        /\ \A t \in Topics : wal[t] <= ends[t] /\ ends[t] <= Len(topic[t])
    BY <1>3 DEF EndOffsets
  <2>2. Len(log) * (1 + MaxRestart) \in Nat
    BY <1>1, ConstantsAssumption
  <2>3. 0..Len(log) * (1 + MaxRestart) \subseteq Nat
    BY <2>2
  <2> QED BY <2>1, <2>3
<1>4. CASE ~Skewed
  <2>1. ends = [t \in Topics |-> Len(topic[t])]
    BY <1>4 DEF EndOffsets
  <2> QED BY <1>2, <2>1
<1> QED BY <1>3, <1>4

LEMMA PlanShape ==
  ASSUME StreamShape, PlanBatch
  PROVE  StreamShape'
<1>1. PICK ends \in EndOffsets : wal' = ends
  BY DEF PlanBatch
<1>2. /\ cursor = 0 /\ wal = done /\ cursor' = 1
      /\ UNCHANGED <<log, day, cobRunning, pos, restarts, topic, done, merged, crashes,
                     bronze, maxLsn, streamLsn>>
  BY DEF PlanBatch, sourceVars, kafkaVars, lakeVars
<1>3. wal' \in [Topics -> Nat] /\ OffsetsOrdered'
  BY <1>1, <1>2, EndOffsetsPlanned DEF OffsetsOrdered
<1>4. cursor' \in 0..CommitStep /\ MergedInBatch'
  <2>1. Len(Routes) \in Nat /\ ~merged
    BY <1>2, RoutesAssumption DEF StreamShape, MergedInBatch
  <2> QED BY <1>2, <2>1 DEF CommitStep, MergedInBatch
<1>5. StreamTypeOK'
  BY <1>2, <1>3, <1>4 DEF StreamShape, StreamTypeOK
<1>6. LsnsBounded' /\ MarkersCloseDays'
  BY <1>2, SourceUnchanged DEF sourceVars
<1>7. TopicsHoldEvents'
  BY <1>2 DEF StreamShape, TopicsHoldEvents
<1> QED BY <1>3, <1>4, <1>5, <1>6, <1>7 DEF StreamShape

LEMMA ResumeShape ==
  ASSUME StreamShape, ResumeBatch
  PROVE  StreamShape'
<1>1. /\ cursor = 0 /\ cursor' = 1
      /\ UNCHANGED <<log, day, cobRunning, pos, restarts, topic, wal, done, merged, crashes,
                     bronze, maxLsn, streamLsn>>
  BY DEF ResumeBatch, sourceVars, kafkaVars, lakeVars
<1>2. cursor' \in 0..CommitStep /\ MergedInBatch'
  <2>1. Len(Routes) \in Nat /\ ~merged
    BY <1>1, RoutesAssumption DEF StreamShape, MergedInBatch
  <2> QED BY <1>1, <2>1 DEF CommitStep, MergedInBatch
<1>3. StreamTypeOK'
  BY <1>1, <1>2 DEF StreamShape, StreamTypeOK
<1>4. LsnsBounded' /\ MarkersCloseDays'
  BY <1>1, SourceUnchanged DEF sourceVars
<1>5. TopicsHoldEvents' /\ OffsetsOrdered'
  BY <1>1 DEF StreamShape, TopicsHoldEvents, OffsetsOrdered
<1> QED BY <1>2, <1>3, <1>4, <1>5 DEF StreamShape

LEMMA SkipShape ==
  ASSUME StreamShape, SkipTable
  PROVE  StreamShape'
<1>1. /\ cursor \in 1..Len(Routes) /\ cursor' = cursor + 1 /\ ~merged
      /\ Part(Routes[cursor]) = {}
      /\ UNCHANGED <<log, day, cobRunning, pos, restarts, topic, wal, done, merged, crashes,
                     bronze, maxLsn, streamLsn>>
  BY DEF SkipTable, sourceVars, kafkaVars, lakeVars
<1>2. cursor' \in 0..CommitStep
  <2>1. Len(Routes) \in Nat
    BY RoutesAssumption
  <2> QED BY <1>1, <2>1 DEF CommitStep
<1>3. StreamTypeOK'
  BY <1>1, <1>2 DEF StreamShape, StreamTypeOK
<1>4. LsnsBounded' /\ MarkersCloseDays'
  BY <1>1, SourceUnchanged DEF sourceVars
<1>5. TopicsHoldEvents' /\ OffsetsOrdered' /\ MergedInBatch'
  BY <1>1 DEF StreamShape, TopicsHoldEvents, OffsetsOrdered, MergedInBatch
<1> QED BY <1>3, <1>4, <1>5 DEF StreamShape

(* A bronze table stays a function of its rows when events are applied.      *)
LEMMA ApplyType ==
  ASSUME StreamShape, NEW t \in Topics, NEW events, events \subseteq Part(t)
  PROVE  Apply(bronze[t], events) \in [Recs -> 0..Len(log)]
<1>1. Part(t) \subseteq 1..Len(log)
  BY PartHoldsEvents
<1>2. bronze[t] \in [Recs -> 0..Len(log)] /\ Len(log) \in Nat
  BY DEF StreamShape, StreamTypeOK
<1>3. Apply(bronze[t], events) = [r \in Recs |-> Apply(bronze[t], events)[r]]
  BY DEF Apply
<1>4. \A r \in Recs : Apply(bronze[t], events)[r] \in 0..Len(log)
  BY <1>1, <1>2, ApplyWrites
<1> HIDE DEF Apply
<1> QED BY <1>3, <1>4

LEMMA RouteIsTopic ==
  ASSUME NEW n \in 1..Len(Routes)
  PROVE  Routes[n] \in Topics /\ Len(Routes) \in Nat
BY RoutesAssumption

LEMMA MergeShape ==
  ASSUME StreamShape, MergeTable
  PROVE  StreamShape'
<1> DEFINE t == Routes[cursor]
<1>1. /\ cursor \in 1..Len(Routes) /\ merged' = TRUE
      /\ bronze' = [bronze EXCEPT ![t] = Apply(@, Upserts(t))]
      /\ UNCHANGED <<log, day, cobRunning, pos, restarts, topic, wal, done, cursor, crashes,
                     maxLsn, streamLsn>>
  BY DEF MergeTable, sourceVars, kafkaVars
<1>2. t \in Topics /\ Upserts(t) \subseteq Part(t)
  BY <1>1, RouteIsTopic DEF Upserts, LatestPerRecid
<1>3. bronze' \in [Topics -> [Recs -> 0..Len(log)]]
  <2>1. Apply(bronze[t], Upserts(t)) \in [Recs -> 0..Len(log)]
    BY <1>2, ApplyType
  <2>2. bronze \in [Topics -> [Recs -> 0..Len(log)]]
    BY DEF StreamShape, StreamTypeOK
  <2> HIDE DEF t
  <2> QED BY <1>1, <1>2, <2>1, <2>2
<1>4. merged' \in BOOLEAN
  BY <1>1
<1>5. StreamTypeOK'
  BY <1>1, <1>3, <1>4 DEF StreamShape, StreamTypeOK, CommitStep
<1>6. LsnsBounded' /\ MarkersCloseDays'
  BY <1>1, SourceUnchanged DEF sourceVars
<1>7. TopicsHoldEvents' /\ OffsetsOrdered' /\ MergedInBatch'
  BY <1>1 DEF StreamShape, TopicsHoldEvents, OffsetsOrdered, MergedInBatch
<1> QED BY <1>5, <1>6, <1>7 DEF StreamShape

LEMMA DeleteShape ==
  ASSUME StreamShape, DeleteTable
  PROVE  StreamShape'
<1> DEFINE t == Routes[cursor]
<1>1. /\ cursor \in 1..Len(Routes) /\ merged' = FALSE /\ cursor' = cursor + 1
      /\ bronze' = [bronze EXCEPT ![t] = Apply(@, Deletes(t))]
      /\ UNCHANGED <<log, day, cobRunning, pos, restarts, topic, wal, done, crashes,
                     maxLsn, streamLsn>>
  BY DEF DeleteTable, sourceVars, kafkaVars
<1>2. t \in Topics /\ Deletes(t) \subseteq Part(t)
  BY <1>1, RouteIsTopic DEF Deletes, LatestPerRecid
<1>3. bronze' \in [Topics -> [Recs -> 0..Len(log)]]
  <2>1. Apply(bronze[t], Deletes(t)) \in [Recs -> 0..Len(log)]
    BY <1>2, ApplyType
  <2>2. bronze \in [Topics -> [Recs -> 0..Len(log)]]
    BY DEF StreamShape, StreamTypeOK
  <2> HIDE DEF t
  <2> QED BY <1>1, <1>2, <2>1, <2>2
<1>4. merged' \in BOOLEAN
  BY <1>1
<1>5. cursor' \in 0..CommitStep
  BY <1>1, RouteIsTopic DEF CommitStep
<1>6. StreamTypeOK'
  BY <1>1, <1>3, <1>4, <1>5 DEF StreamShape, StreamTypeOK
<1>7. LsnsBounded' /\ MarkersCloseDays'
  BY <1>1, SourceUnchanged DEF sourceVars
<1>8. TopicsHoldEvents' /\ OffsetsOrdered' /\ MergedInBatch'
  BY <1>1 DEF StreamShape, TopicsHoldEvents, OffsetsOrdered, MergedInBatch
<1> QED BY <1>6, <1>7, <1>8 DEF StreamShape

(* What the MERGE into etl_stream_progress does to its rows.                 *)
LEMMA ProgressRises ==
  ASSUME StreamShape, UpsertProgress
  PROVE  /\ maxLsn' \in [Topics -> Nat] /\ streamLsn' \in Nat
         /\ streamLsn' >= streamLsn
         /\ streamLsn' = streamLsn \/ streamLsn' \in BatchLsns
         /\ \A t \in Topics :
              /\ maxLsn'[t] >= maxLsn[t]
              /\ maxLsn'[t] = maxLsn[t] \/ maxLsn'[t] \in PartLsns(t)
<1>1. /\ maxLsn' = [t \in Topics |-> Raised(maxLsn[t], PartLsns(t))]
      /\ streamLsn' = Raised(streamLsn, BatchLsns)
  BY DEF UpsertProgress
<1>2. maxLsn \in [Topics -> Nat] /\ streamLsn \in Nat /\ MaxLog \in Nat
  BY ConstantsAssumption DEF StreamShape, StreamTypeOK
<1>3. \A t \in Topics : PartLsns(t) \subseteq 0..MaxLog
  BY PartHoldsEvents
<1>4. BatchLsns \subseteq 0..MaxLog
  BY <1>3 DEF BatchLsns
<1>5. /\ streamLsn' \in Nat /\ streamLsn' >= streamLsn
      /\ streamLsn' = streamLsn \/ streamLsn' \in BatchLsns
  BY <1>1, <1>2, <1>4, RaisedIsMax
<1>6. \A t \in Topics :
        /\ Raised(maxLsn[t], PartLsns(t)) \in Nat
        /\ Raised(maxLsn[t], PartLsns(t)) >= maxLsn[t]
        /\ \/ Raised(maxLsn[t], PartLsns(t)) = maxLsn[t]
           \/ Raised(maxLsn[t], PartLsns(t)) \in PartLsns(t)
  <2> TAKE t \in Topics
  <2>1. maxLsn[t] \in Nat
    BY <1>2
  <2> QED BY <1>2, <1>3, <2>1, RaisedIsMax
<1> QED BY <1>1, <1>5, <1>6

LEMMA ProgressShape ==
  ASSUME StreamShape, UpsertProgress
  PROVE  StreamShape'
<1>1. /\ cursor = UpsertProgressStep /\ cursor' = CommitStep
      /\ UNCHANGED <<log, day, cobRunning, pos, restarts, topic, wal, done, merged, crashes,
                     bronze>>
  BY DEF UpsertProgress, sourceVars, kafkaVars
<1>2. maxLsn' \in [Topics -> Nat] /\ streamLsn' \in Nat
  BY ProgressRises
<1>3. cursor' \in 0..CommitStep /\ MergedInBatch'
  <2>1. Len(Routes) \in Nat
    BY RoutesAssumption
  <2> QED BY <1>1, <2>1 DEF CommitStep, UpsertProgressStep, StreamShape, MergedInBatch
<1>4. StreamTypeOK'
  BY <1>1, <1>2, <1>3 DEF StreamShape, StreamTypeOK
<1>5. LsnsBounded' /\ MarkersCloseDays'
  BY <1>1, SourceUnchanged DEF sourceVars
<1>6. TopicsHoldEvents' /\ OffsetsOrdered'
  BY <1>1 DEF StreamShape, TopicsHoldEvents, OffsetsOrdered
<1> QED BY <1>3, <1>4, <1>5, <1>6 DEF StreamShape

LEMMA CommitShape ==
  ASSUME StreamShape, CommitBatch
  PROVE  StreamShape'
<1>1. /\ cursor = CommitStep /\ cursor' = 0 /\ done' = wal
      /\ UNCHANGED <<log, day, cobRunning, pos, restarts, topic, wal, merged, crashes,
                     bronze, maxLsn, streamLsn>>
  BY DEF CommitBatch, sourceVars, kafkaVars, lakeVars
<1>2. cursor' \in 0..CommitStep /\ MergedInBatch'
  <2>1. Len(Routes) \in Nat
    BY RoutesAssumption
  <2> QED BY <1>1, <2>1 DEF CommitStep, StreamShape, MergedInBatch
<1>3. StreamTypeOK'
  BY <1>1, <1>2 DEF StreamShape, StreamTypeOK
<1>4. OffsetsOrdered'
  BY <1>1 DEF StreamShape, StreamTypeOK, OffsetsOrdered
<1>5. LsnsBounded' /\ MarkersCloseDays'
  BY <1>1, SourceUnchanged DEF sourceVars
<1>6. TopicsHoldEvents'
  BY <1>1 DEF StreamShape, TopicsHoldEvents
<1> QED BY <1>2, <1>3, <1>4, <1>5, <1>6 DEF StreamShape

LEMMA CrashShape ==
  ASSUME StreamShape, CrashDriver
  PROVE  StreamShape'
<1>1. /\ cursor' = 0 /\ merged' = FALSE /\ crashes' = crashes + 1
      /\ UNCHANGED <<log, day, cobRunning, pos, restarts, topic, wal, done,
                     bronze, maxLsn, streamLsn>>
  BY DEF CrashDriver, sourceVars, kafkaVars, lakeVars
<1>2. cursor' \in 0..CommitStep
  <2>1. Len(Routes) \in Nat
    BY RoutesAssumption
  <2> QED BY <1>1, <2>1 DEF CommitStep
<1>3. merged' \in BOOLEAN /\ MergedInBatch'
  BY <1>1 DEF MergedInBatch
<1>4. StreamTypeOK'
  BY <1>1, <1>2, <1>3 DEF StreamShape, StreamTypeOK
<1>5. LsnsBounded' /\ MarkersCloseDays'
  BY <1>1, SourceUnchanged DEF sourceVars
<1>6. TopicsHoldEvents' /\ OffsetsOrdered'
  BY <1>1 DEF StreamShape, TopicsHoldEvents, OffsetsOrdered
<1> QED BY <1>3, <1>4, <1>5, <1>6 DEF StreamShape

LEMMA StreamInitShape ==
  ASSUME StreamInit PROVE StreamShape
<1>1. StreamTypeOK
  <2>1. Len(Routes) \in Nat
    BY RoutesAssumption
  <2>2. cursor \in 0..CommitStep
    BY <2>1 DEF StreamInit, CommitStep
  <2>3. /\ log \in Seq(Event) /\ Len(log) = 0 /\ day \in Nat /\ pos \in 0..0
        /\ restarts \in Nat /\ crashes \in Nat /\ streamLsn \in Nat
        /\ topic \in [Topics -> Seq(Nat \ {0})]
        /\ wal \in [Topics -> Nat] /\ done \in [Topics -> Nat] /\ maxLsn \in [Topics -> Nat]
    BY DEF StreamInit
  <2>4. cobRunning \in BOOLEAN
    BY DEF StreamInit
  <2>5. merged \in BOOLEAN
    BY DEF StreamInit
  <2>6. bronze \in [Topics -> [Recs -> 0..0]]
    BY DEF StreamInit
  <2> QED BY <2>2, <2>3, <2>4, <2>5, <2>6 DEF StreamTypeOK
<1>2. LsnsBounded /\ TopicsHoldEvents /\ OffsetsOrdered /\ MergedInBatch
  BY DEF StreamInit, LsnsBounded, TopicsHoldEvents, OffsetsOrdered, MergedInBatch
<1>3. MarkersCloseDays
  BY ConstantsAssumption DEF StreamInit, MarkersCloseDays
<1> QED BY <1>1, <1>2, <1>3 DEF StreamShape

LEMMA StreamNextShape ==
  ASSUME StreamShape, [StreamNext]_streamVars
  PROVE  StreamShape'
<1>1. CASE SourceNext
  BY <1>1, ChangeShape, StartCobShape, FinishCobShape DEF SourceNext
<1>2. CASE SparkStep
  BY <1>2, PlanShape, SkipShape, MergeShape, DeleteShape, ProgressShape, CommitShape
     DEF SparkStep
<1>3. CASE UNCHANGED streamVars
  BY <1>3 DEF streamVars, StreamShape, StreamTypeOK, LsnsBounded, TopicsHoldEvents,
     OffsetsOrdered, MergedInBatch, MarkersCloseDays, CommitStep
<1> QED BY <1>1, <1>2, <1>3, PublishShape, RestartShape, ResumeShape, CrashShape
        DEF StreamNext

(* What a step of the stream keeps: T24's history only grows, and a new      *)
(* marker closes the day T24 is in.                                          *)
LEMMA HistoryGrows ==
  ASSUME StreamShape, [StreamNext]_streamVars
  PROVE  /\ DOMAIN log \subseteq DOMAIN log' /\ \A i \in DOMAIN log : log'[i] = log[i]
         /\ \A m \in DOMAIN log' : m \in DOMAIN log \/ log'[m].cob # "done" \/ log'[m].day = day
         /\ day \in Nat /\ day' \in Nat /\ day' >= day
<1>1. day \in Nat /\ day' \in Nat
  BY StreamNextShape DEF StreamShape, StreamTypeOK
<1>2. ASSUME NEW t \in Topics, NEW r \in Recs, NEW op \in {"u", "d"},
             NEW cob \in {"none", "running", "done"}, Logged(t, r, op, cob)
      PROVE  /\ DOMAIN log \subseteq DOMAIN log' /\ \A i \in DOMAIN log : log'[i] = log[i]
             /\ \A m \in DOMAIN log' : m \in DOMAIN log \/ log'[m].day = day
  BY <1>2, LoggedExtends
<1>3. ASSUME NEW t \in Tables, NEW r \in Recs, NEW op \in {"u", "d"}, Change(t, r, op)
      PROVE  /\ t \in Topics /\ Logged(t, r, op, "none") /\ day' = day
  BY <1>3 DEF Change, Topics
<1>4. BATCH \in Topics /\ CobRecid \in Recs
  BY ConstantsAssumption DEF Topics
<1>5. CASE SourceNext
  <2>1. CASE StartCob
    BY <1>1, <1>2, <1>4, <2>1 DEF StartCob
  <2>2. CASE FinishCob
    BY <1>1, <1>2, <1>4, <2>2 DEF FinishCob
  <2> QED BY <1>1, <1>2, <1>3, <1>5, <2>1, <2>2 DEF SourceNext
<1>6. CASE UNCHANGED sourceVars
  BY <1>1, <1>6 DEF sourceVars
<1>7. SourceNext \/ UNCHANGED sourceVars
  BY DEF StreamNext, SparkStep, Publish, RestartConnector, PlanBatch, ResumeBatch, SkipTable,
     MergeTable, DeleteTable, UpsertProgress, CommitBatch, CrashDriver, streamVars, sourceVars
<1> QED BY <1>5, <1>6, <1>7

(* A step of the DAG leaves the stream alone.                                *)
LEMMA StreamIdle ==
  ASSUME StreamShape, UNCHANGED streamVars
  PROVE  /\ StreamShape' /\ StreamTypeOK'
         /\ UNCHANGED <<log, day, bronze, maxLsn, streamLsn, topic, wal>>
BY DEF streamVars, StreamShape, StreamTypeOK, LsnsBounded, TopicsHoldEvents,
     OffsetsOrdered, MergedInBatch, MarkersCloseDays, CommitStep

(* Every variable of the stream keeps its type and the pipeline its shape,   *)
(* whatever overlaps, crashes or is delivered twice.                         *)
THEOREM StreamShapeInvariant == StreamSpec => []StreamShape
BY StreamInitShape, StreamNextShape, PTL DEF StreamSpec

THEOREM StreamTypeCorrect == StreamSpec => []StreamTypeOK
<1>1. StreamShape => StreamTypeOK
  BY DEF StreamShape
<1> QED BY <1>1, StreamShapeInvariant, PTL

(* A step of the stream raises the recorded progress or leaves it alone.     *)
THEOREM ProgressMonotone == StreamSpec => ProgressNeverRegresses
<1>1. ASSUME StreamShape, [StreamNext]_streamVars
      PROVE  [ /\ \A t \in Topics : maxLsn'[t] >= maxLsn[t]
               /\ streamLsn' >= streamLsn ]_streamVars
  <2>1. maxLsn \in [Topics -> Nat] /\ streamLsn \in Nat
    BY <1>1 DEF StreamShape, StreamTypeOK
  <2>2. CASE UpsertProgress
    BY <1>1, <2>2, ProgressRises
  <2>3. CASE UNCHANGED <<maxLsn, streamLsn>>
    BY <2>1, <2>3
  <2> QED BY <1>1, <2>2, <2>3 DEF StreamNext, SourceNext, SparkStep, Change, StartCob,
          FinishCob, Publish, RestartConnector, PlanBatch, ResumeBatch, SkipTable, MergeTable,
          DeleteTable, CommitBatch, CrashDriver, lakeVars, streamVars
<1> QED BY <1>1, StreamShapeInvariant, PTL DEF StreamSpec, ProgressNeverRegresses

-----------------------------------------------------------------------------
(* Frames: what a step that keeps old events and records leaves true.        *)

(* The types of what a topic's records lead to.                              *)
LEMMA RecordTypes ==
  ASSUME StreamShape, NEW t \in Topics, NEW k \in 1..Len(topic[t])
  PROVE  /\ topic[t][k] \in 1..Len(log) /\ log[topic[t][k]].rec \in Recs
         /\ log[topic[t][k]].tab = t
<1>1. topic[t][k] \in 1..Len(log) /\ log[topic[t][k]].tab = t
  BY DEF StreamShape, StreamTypeOK, TopicsHoldEvents
<1>2. log[topic[t][k]] \in Event
  BY <1>1 DEF StreamShape, StreamTypeOK
<1> QED BY <1>1, <1>2 DEF Event

LEMMA Numbers ==
  ASSUME StreamShape
  PROVE  /\ Len(log) \in Nat /\ DOMAIN log = 1..Len(log) /\ pos \in 0..Len(log)
         /\ streamLsn \in Nat
         /\ \A t \in Topics : /\ Len(topic[t]) \in Nat /\ maxLsn[t] \in Nat
                              /\ wal[t] \in Nat /\ done[t] \in Nat
                              /\ done[t] <= wal[t] /\ wal[t] <= Len(topic[t])
         /\ \A t \in Topics, r \in Recs : bronze[t][r] \in 0..Len(log)
<1>1. log \in Seq(Event) /\ topic \in [Topics -> Seq(Nat \ {0})]
  BY DEF StreamShape, StreamTypeOK
<1>2. pos \in 0..Len(log) /\ streamLsn \in Nat /\ maxLsn \in [Topics -> Nat]
  BY DEF StreamShape, StreamTypeOK
<1>3. wal \in [Topics -> Nat] /\ done \in [Topics -> Nat]
  BY DEF StreamShape, StreamTypeOK
<1>4. bronze \in [Topics -> [Recs -> 0..Len(log)]]
  BY DEF StreamShape, StreamTypeOK
<1> QED BY <1>1, <1>2, <1>3, <1>4 DEF StreamShape, OffsetsOrdered

LEMMA LandedStays ==
  ASSUME StreamShape, StreamShape', NEW t \in Topics, NEW k \in 1..Len(topic[t]),
         topic'[t][k] = topic[t][k], log'[topic[t][k]] = log[topic[t][k]],
         \A r \in Recs : bronze'[t][r] >= bronze[t][r], Landed(t, k)
  PROVE  Landed(t, k)'
<1> DEFINE r == log[topic[t][k]].rec
<1>1. r \in Recs /\ topic[t][k] \in Nat
  BY RecordTypes
<1>2. bronze[t][r] \in Nat /\ bronze'[t][r] \in Nat
  <2>1. /\ bronze \in [Topics -> [Recs -> 0..Len(log)]] /\ log \in Seq(Event)
        /\ bronze' \in [Topics -> [Recs -> 0..Len(log')]] /\ log' \in Seq(Event)
    BY DEF StreamShape, StreamTypeOK
  <2> QED BY <1>1, <2>1
<1>3. bronze[t][r] >= topic[t][k] /\ bronze'[t][r] >= bronze[t][r]
  BY <1>1 DEF Landed
<1>4. bronze'[t][r] >= topic[t][k]
  BY <1>1, <1>2, <1>3
<1> QED BY <1>4 DEF Landed

(* The batch in flight is fixed by offsets/<N>: new events do not change it. *)
LEMMA BatchIsFixed ==
  ASSUME StreamShape, NEW t \in Topics, UNCHANGED <<wal, done>>,
         \A k \in 1..Len(topic[t]) : topic'[t][k] = topic[t][k],
         \A i \in 1..Len(log) : log'[i] = log[i]
  PROVE  Part(t)' = Part(t) /\ Upserts(t)' = Upserts(t)
<1>1. \A k \in (done[t] + 1)..wal[t] : k \in 1..Len(topic[t])
  BY Numbers
<1>2. Part(t)' = Part(t)
  BY <1>1 DEF Part
<1>3. Part(t) \subseteq 1..Len(log)
  BY PartHoldsEvents
<1>4. LatestPerRecid(Part(t))' = LatestPerRecid(Part(t))
  BY <1>2, <1>3 DEF LatestPerRecid
<1>5. LatestPerRecid(Part(t)) \subseteq 1..Len(log)
  BY <1>3 DEF LatestPerRecid
<1> QED BY <1>2, <1>4, <1>5 DEF Upserts

(* Every step that neither plans nor sinks nor commits leaves these true.    *)
LEMMA QuietStep ==
  ASSUME SinkInv, StreamShape',
         UNCHANGED <<wal, done, cursor, merged, bronze>>,
         \A t \in Topics : \A k \in 1..Len(topic[t]) : topic'[t][k] = topic[t][k],
         \A i \in 1..Len(log) : log'[i] = log[i]
  PROVE  /\ BronzeFromTopic' /\ DoneLanded' /\ SunkLanded' /\ MergeLanded'
         /\ \A t \in Topics : \A k \in 1..Len(topic[t]) : Landed(t, k) => Landed(t, k)'
<1> USE DEF SinkInv
<1>1. \A t \in Topics : \A k \in 1..Len(topic[t]) :
        topic[t][k] \in 1..Len(log) /\ log'[topic[t][k]] = log[topic[t][k]]
  BY RecordTypes
<1>2. \A t \in Topics, r \in Recs : bronze'[t][r] >= bronze[t][r]
  BY Numbers
<1>3. \A t \in Topics : \A k \in 1..Len(topic[t]) : Landed(t, k) => Landed(t, k)'
  BY <1>1, <1>2, LandedStays
<1>4. \A t \in Topics : \A k \in 1..wal[t] : k \in 1..Len(topic[t])
  BY Numbers
<1>5. BronzeFromTopic'
  <2> SUFFICES ASSUME NEW t \in Topics, NEW r \in Recs, bronze[t][r] # 0
               PROVE  \E k \in 1..wal[t] : topic'[t][k] = bronze[t][r] /\ log'[topic'[t][k]].rec = r
    BY DEF BronzeFromTopic
  <2>1. PICK k \in 1..wal[t] : topic[t][k] = bronze[t][r] /\ log[topic[t][k]].rec = r
    BY DEF BronzeFromTopic
  <2> QED BY <1>1, <1>4, <2>1
<1>6. DoneLanded'
  <2>1. \A t \in Topics : \A k \in 1..done[t] : k \in 1..Len(topic[t])
    BY Numbers
  <2> QED BY <1>3, <2>1 DEF DoneLanded
<1>7. SunkLanded'
  BY <1>3, <1>4, RouteIsTopic DEF SunkLanded
<1>8. MergeLanded'
  <2> SUFFICES ASSUME merged PROVE MergeLanded'
    BY DEF MergeLanded
  <2> DEFINE t == Routes[cursor]
  <2>1. t \in Topics
    BY RouteIsTopic DEF StreamShape, MergedInBatch
  <2>2. Upserts(t)' = Upserts(t)
    BY <2>1, BatchIsFixed
  <2>3. Upserts(t) \subseteq 1..Len(log)
    BY <2>1, PartHoldsEvents DEF Upserts, LatestPerRecid
  <2>4. \A i \in Upserts(t) : bronze[t][log[i].rec] >= i
    BY DEF MergeLanded
  <2>5. \A i \in Upserts(t)' : bronze'[t][log'[i].rec] >= i
    BY <2>2, <2>3, <2>4
  <2>6. t' = t
    OBVIOUS
  <2> QED BY <2>5, <2>6 DEF MergeLanded
<1> QED BY <1>3, <1>5, <1>6, <1>7, <1>8

-----------------------------------------------------------------------------
(* T24 and Debezium.                                                        *)

LEMMA MarkerIsTopic == BATCH \in Topics /\ CobRecid \in Recs
BY ConstantsAssumption DEF Topics

(* The row lock: the next change of a row has a greater lsn than the others. *)
LEMMA RowLock ==
  ASSUME SinkInv, NEW t \in Topics, NEW r \in Recs, NEW op \in {"u", "d"},
         NEW cob \in {"none", "running", "done"}, Logged(t, r, op, cob)
  PROVE  \A i \in 1..Len(log) : IsRow(log[i], t, r) => log[i].lsn < log'[Len(log) + 1].lsn
<1>1. log \in Seq(Event) /\ DOMAIN log = 1..Len(log) /\ Len(log) \in Nat
  BY DEF SinkInv, StreamShape, StreamTypeOK
<1>2. CASE ~Overlap
  <2>1. log'[Len(log) + 1].lsn = Len(log) + 1
    BY <1>2, LoggedExtends DEF SinkInv
  <2>2. \A i \in 1..Len(log) : log[i].lsn = i
    BY <1>1, <1>2 DEF SinkInv, LsnIsPosition
  <2> QED BY <1>1, <2>1, <2>2
<1>3. CASE Overlap
  <2>1. PICK l \in NextLsns(t, r) :
          log' = Append(log, [tab |-> t, rec |-> r, op |-> op, lsn |-> l,
                              cob |-> cob, day |-> day])
    BY DEF Logged
  <2>2. \A i \in 1..Len(log) : IsRow(log[i], t, r) => log[i].lsn < l
    BY <1>1, <1>3, <2>1 DEF NextLsns
  <2> DEFINE e == [tab |-> t, rec |-> r, op |-> op, lsn |-> l, cob |-> cob, day |-> day]
  <2>3. e.lsn = l
    OBVIOUS
  <2>4. log'[Len(log) + 1] = e
    <3> HIDE DEF e
    <3>1. Append(log, e)[Len(log) + 1] = e
      BY <1>1
    <3> QED BY <2>1, <3>1 DEF e
  <2> QED BY <2>2, <2>3, <2>4
<1> QED BY <1>2, <1>3, ConstantsAssumption

LEMMA LoggedSink ==
  ASSUME SinkInv, StreamShape', NEW t \in Topics, NEW r \in Recs,
         NEW op \in {"u", "d"}, NEW cob \in {"none", "running", "done"},
         Logged(t, r, op, cob), UNCHANGED <<kafkaVars, sparkVars, lakeVars>>
  PROVE  SinkInv'
<1> USE DEF SinkInv
<1>1. UNCHANGED <<pos, restarts, topic, wal, done, cursor, merged, bronze>>
  BY DEF kafkaVars, sparkVars, lakeVars
<1>2. /\ Len(log') = Len(log) + 1 /\ DOMAIN log' = 1..Len(log')
      /\ DOMAIN log = 1..Len(log) /\ Len(log) \in Nat
      /\ \A i \in 1..Len(log) : log'[i] = log[i]
      /\ log'[Len(log) + 1].tab = t /\ log'[Len(log) + 1].rec = r
      /\ ~Overlap => log'[Len(log) + 1].lsn = Len(log) + 1
  BY LoggedExtends
<1>3. ~Overlap => LsnIsPosition'
  BY <1>2 DEF LsnIsPosition
<1>4. RowsInOrder'
  <2> SUFFICES ASSUME NEW i \in DOMAIN log', NEW j \in DOMAIN log', i < j,
                      IsRow(log'[i], log'[j].tab, log'[j].rec)
               PROVE  log'[i].lsn < log'[j].lsn
    BY DEF RowsInOrder
  <2>1. i \in 1..Len(log) /\ (j \in 1..Len(log) \/ j = Len(log) + 1)
    BY <1>2
  <2>2. CASE j \in 1..Len(log)
    BY <1>2, <2>1, <2>2 DEF RowsInOrder
  <2>3. CASE j = Len(log) + 1
    BY <1>2, <2>1, <2>3, RowLock
  <2> QED BY <2>1, <2>2, <2>3
<1>5. TopicsIncrease' /\ PublishedOnly'
  BY <1>1 DEF TopicsIncrease, PublishedOnly
<1>6. BronzeFromTopic' /\ DoneLanded' /\ SunkLanded' /\ MergeLanded'
  BY <1>1, <1>2, QuietStep
<1>7. AllPublished'
  <2>1. \A i \in 1..pos : i \in 1..Len(log)
    BY Numbers
  <2>2. ASSUME NEW i \in 1..pos
        PROVE  \E k \in 1..Len(topic[log'[i].tab]) : topic[log'[i].tab][k] = i
    <3>1. log'[i] = log[i]
      BY <1>2, <2>1
    <3> QED BY <3>1 DEF AllPublished
  <2> QED BY <1>1, <2>2 DEF AllPublished
<1> QED BY <1>1, <1>3, <1>4, <1>5, <1>6, <1>7

(* Each step of T24 logs one event.                                          *)
LEMMA SourceLogs ==
  ASSUME SourceNext
  PROVE  /\ \E t \in Topics, r \in Recs, op \in {"u", "d"}, cob \in {"none", "running", "done"} :
              Logged(t, r, op, cob)
         /\ UNCHANGED <<kafkaVars, sparkVars, lakeVars>>
<1>1. CASE \E t \in Tables, r \in Recs, op \in {"u", "d"} : Change(t, r, op)
  BY <1>1 DEF Change, Topics
<1>2. CASE StartCob
  BY <1>2, MarkerIsTopic DEF StartCob
<1>3. CASE FinishCob
  BY <1>3, MarkerIsTopic DEF FinishCob
<1> QED BY <1>1, <1>2, <1>3 DEF SourceNext

LEMMA SourceSink ==
  ASSUME SinkInv, StreamShape', SourceNext
  PROVE  SinkInv'
BY SourceLogs, LoggedSink

(* Publishing adds one record at the end of one topic.                       *)
LEMMA PublishAdds ==
  ASSUME StreamShape, Publish
  PROVE  /\ pos' = pos + 1 /\ pos' \in 1..Len(log) /\ log[pos'].tab \in Topics
         /\ \A t \in Topics :
              /\ Len(topic[t]) \in Nat /\ Len(topic'[t]) \in Nat
              /\ Len(topic[t]) <= Len(topic'[t])
              /\ \A k \in 1..Len(topic[t]) : topic'[t][k] = topic[t][k]
              /\ \A k \in 1..Len(topic'[t]) :
                   \/ k \in 1..Len(topic[t]) /\ topic'[t][k] = topic[t][k]
                   \/ k = Len(topic[t]) + 1 /\ topic'[t][k] = pos'
         /\ LET t == log[pos'].tab IN
              /\ Len(topic[t]) + 1 \in 1..Len(topic'[t])
              /\ topic'[t][Len(topic[t]) + 1] = pos'
<1>1. log \in Seq(Event) /\ pos \in Nat /\ topic \in [Topics -> Seq(Nat \ {0})]
  BY DEF StreamShape, StreamTypeOK
<1>2. pos' = pos + 1 /\ pos' \in 1..Len(log) /\ pos' \in Nat \ {0}
  BY <1>1 DEF Publish
<1>3. log[pos'].tab \in Topics
  <2>1. log[pos'] \in Event
    BY <1>1, <1>2
  <2> QED BY <2>1 DEF Event
<1>4. topic' = [topic EXCEPT ![log[pos'].tab] = Append(@, pos')]
  BY DEF Publish
<1>5. ASSUME NEW t \in Topics, t = log[pos'].tab
      PROVE  topic[t] \in Seq(Nat \ {0}) /\ topic'[t] = Append(topic[t], pos')
  BY <1>1, <1>3, <1>4, <1>5
<1>6. ASSUME NEW t \in Topics, t # log[pos'].tab
      PROVE  topic[t] \in Seq(Nat \ {0}) /\ topic'[t] = topic[t]
  BY <1>1, <1>3, <1>4, <1>6
<1>7. ASSUME NEW t \in Topics
      PROVE  /\ Len(topic[t]) \in Nat /\ Len(topic'[t]) \in Nat
             /\ Len(topic[t]) <= Len(topic'[t])
             /\ \A k \in 1..Len(topic[t]) : topic'[t][k] = topic[t][k]
             /\ \A k \in 1..Len(topic'[t]) :
                   \/ k \in 1..Len(topic[t]) /\ topic'[t][k] = topic[t][k]
                   \/ k = Len(topic[t]) + 1 /\ topic'[t][k] = pos'
  <2>1. CASE t = log[pos'].tab
    <3>1. topic[t] \in Seq(Nat \ {0}) /\ topic'[t] = Append(topic[t], pos')
      BY <1>5, <2>1
    <3>2. \A k \in 1..Len(topic[t]) : Append(topic[t], pos')[k] = topic[t][k]
      BY <1>2, <3>1
    <3> QED BY <1>2, <3>1, <3>2, AppendAdds
  <2>2. CASE t # log[pos'].tab
    <3>1. topic[t] \in Seq(Nat \ {0}) /\ topic'[t] = topic[t]
      BY <1>6, <2>2
    <3> QED BY <3>1
  <2> QED BY <2>1, <2>2
<1>8. LET t == log[pos'].tab IN
        /\ Len(topic[t]) + 1 \in 1..Len(topic'[t])
        /\ topic'[t][Len(topic[t]) + 1] = pos'
  <2>1. PICK t \in Topics : t = log[pos'].tab
    BY <1>3
  <2>2. topic[t] \in Seq(Nat \ {0}) /\ topic'[t] = Append(topic[t], pos')
    BY <1>5, <2>1
  <2>3. Len(topic[t]) \in Nat /\ Len(topic'[t]) = Len(topic[t]) + 1
    BY <1>2, <2>2
  <2>4. topic'[t][Len(topic[t]) + 1] = pos'
    BY <1>2, <2>2
  <2> QED BY <2>1, <2>3, <2>4
<1> QED BY <1>2, <1>3, <1>7, <1>8

LEMMA PublishSink ==
  ASSUME SinkInv, StreamShape', Publish
  PROVE  SinkInv'
<1> USE DEF SinkInv
<1>1. UNCHANGED <<log, restarts, wal, done, cursor, merged, bronze>>
  BY DEF Publish, sourceVars, sparkVars, lakeVars
<1> DEFINE old(t) == 1..Len(topic[t])
<1>2. /\ pos' = pos + 1 /\ pos \in Nat
      /\ \A t \in Topics :
           /\ Len(topic[t]) \in Nat /\ Len(topic[t]) <= Len(topic'[t]) /\ Len(topic'[t]) \in Nat
           /\ \A k \in old(t) : topic'[t][k] = topic[t][k] /\ topic[t][k] \in Nat /\ topic[t][k] <= pos
           /\ \A k \in 1..Len(topic'[t]) :
                \/ k \in old(t)
                \/ k = Len(topic[t]) + 1 /\ topic'[t][k] = pos'
  <2>1. pos \in Nat
    BY Numbers
  <2>2. \A t \in Topics : \A k \in 1..Len(topic[t]) : topic[t][k] \in Nat /\ topic[t][k] <= pos
    BY RecordTypes DEF PublishedOnly
  <2> QED BY <2>1, <2>2, PublishAdds
<1>3. (~Overlap => LsnIsPosition') /\ RowsInOrder'
  BY <1>1 DEF LsnIsPosition, RowsInOrder
<1>4. TopicsIncrease'
  <2> SUFFICES ASSUME NEW t \in Topics, NEW j \in 1..Len(topic'[t]), NEW k \in 1..Len(topic'[t]),
                      j < k
               PROVE  topic'[t][j] < topic'[t][k]
    BY DEF TopicsIncrease
  <2>1. j \in old(t)
    BY <1>2
  <2>2. CASE k \in old(t)
    BY <1>2, <2>1, <2>2 DEF TopicsIncrease
  <2>3. CASE topic'[t][k] = pos'
    BY <1>2, <2>1, <2>3
  <2> QED BY <1>2, <2>2, <2>3
<1>5. PublishedOnly'
  BY <1>2 DEF PublishedOnly
<1>6. BronzeFromTopic' /\ DoneLanded' /\ SunkLanded' /\ MergeLanded'
  BY <1>1, <1>2, QuietStep
<1>7. AllPublished'
  <2> SUFFICES ASSUME NEW i \in 1..pos'
               PROVE  \E k \in 1..Len(topic'[log[i].tab]) : topic'[log[i].tab][k] = i
    BY <1>1 DEF AllPublished
  <2>1. CASE i = pos'
    <3> DEFINE t == log[pos'].tab
    <3>1. Len(topic[t]) + 1 \in 1..Len(topic'[t]) /\ topic'[t][Len(topic[t]) + 1] = pos'
      BY PublishAdds
    <3> QED BY <2>1, <3>1
  <2>2. CASE i # pos'
    <3>1. i \in 1..pos
      BY <1>2, <2>2
    <3>2. PICK k \in 1..Len(topic[log[i].tab]) : topic[log[i].tab][k] = i
      BY <3>1 DEF AllPublished
    <3>3. log[i].tab \in Topics
      <4>1. i \in 1..Len(log) /\ log \in Seq(Event)
        BY <3>1, Numbers DEF StreamShape, StreamTypeOK
      <4>2. log[i] \in Event
        BY <4>1
      <4> QED BY <4>2 DEF Event
    <3> DEFINE t == log[i].tab
    <3>4. /\ Len(topic[t]) \in Nat /\ Len(topic[t]) <= Len(topic'[t]) /\ Len(topic'[t]) \in Nat
          /\ topic'[t][k] = topic[t][k]
      BY <1>2, <3>2, <3>3
    <3> QED BY <3>2, <3>4
  <2> QED BY <2>1, <2>2
<1> QED BY <1>1, <1>3, <1>4, <1>5, <1>6, <1>7

-----------------------------------------------------------------------------
(* What the sink of one table does to its rows.                              *)

(* Of two events of a batch with one recid the later has the greater lsn.    *)
LEMMA PartInOrder ==
  ASSUME SinkInv, NEW t \in Topics, NEW i \in Part(t), NEW j \in Part(t), log[i].rec = log[j].rec
  PROVE  i \in Nat /\ j \in Nat /\ (log[j].lsn <= log[i].lsn <=> j <= i)
<1>1. /\ i \in 1..Len(log) /\ j \in 1..Len(log) /\ DOMAIN log = 1..Len(log) /\ Len(log) \in Nat
      /\ log[i].tab = t /\ log[j].tab = t /\ log[i] \in Event /\ log[j] \in Event
  BY PartHoldsEvents, Numbers DEF SinkInv
<1>2. log[i].lsn \in Nat /\ log[j].lsn \in Nat
  BY <1>1 DEF Event
<1>3. (i < j => log[i].lsn < log[j].lsn) /\ (j < i => log[j].lsn < log[i].lsn)
  BY <1>1 DEF SinkInv, RowsInOrder, IsRow
<1> QED BY <1>1, <1>2, <1>3

(* Every event of the batch is its row's last one or gives way to it.        *)
LEMMA LatestExists ==
  ASSUME SinkInv, NEW t \in Topics, NEW i \in Part(t)
  PROVE  \E m \in LatestPerRecid(Part(t)) : log[m].rec = log[i].rec /\ m >= i
<1> DEFINE S == {j \in Part(t) : log[j].rec = log[i].rec}
<1>1. Part(t) \subseteq 1..Len(log) /\ Len(log) \in Nat
  BY PartHoldsEvents, Numbers DEF SinkInv
<1>2. S \subseteq 0..Len(log) /\ S # {}
  BY <1>1
<1>3. PICK m \in S : \A x \in S : x <= m
  BY <1>1, <1>2, MaxExists
<1>4. \A j \in Part(t) : log[j].rec = log[m].rec => log[j].lsn <= log[m].lsn
  BY <1>3, PartInOrder
<1>5. m \in LatestPerRecid(Part(t))
  BY <1>3, <1>4 DEF LatestPerRecid
<1> QED BY <1>3, <1>5

(* Applying the last events of the batch brings each row to them...          *)
LEMMA ApplyCovers ==
  ASSUME SinkInv, NEW t \in Topics, NEW events, events \subseteq LatestPerRecid(Part(t)),
         NEW i \in events
  PROVE  Apply(bronze[t], events)[log[i].rec] >= i
<1> DEFINE r == log[i].rec
<1>1. i \in Part(t) /\ r \in Recs
  <2>1. i \in Part(t)
    BY DEF LatestPerRecid
  <2>2. log[i] \in Event
    BY <2>1, PartHoldsEvents DEF SinkInv
  <2> QED BY <2>1, <2>2 DEF Event
<1>2. PICK e \in events : e = Apply(bronze[t], events)[r] /\ log[e].rec = r
  BY <1>1, ApplyWrites
<1>3. e \in Part(t) /\ log[i].lsn <= log[e].lsn
  BY <1>1, <1>2 DEF LatestPerRecid
<1>4. i <= e /\ i \in Nat /\ e \in Nat
  BY <1>1, <1>2, <1>3, PartInOrder
<1> QED BY <1>2, <1>4

(* ... and never back: a replayed batch reduces to the same last event as    *)
(* the first time, and that one is later than all that earlier batches held. *)
LEMMA ApplyForward ==
  ASSUME SinkInv, NEW t \in Topics, NEW events, events \subseteq LatestPerRecid(Part(t)),
         NEW r \in Recs
  PROVE  /\ Apply(bronze[t], events)[r] >= bronze[t][r]
         /\ Apply(bronze[t], events)[r] # 0 =>
              \E k \in 1..wal[t] : topic[t][k] = Apply(bronze[t], events)[r]
                                  /\ log[topic[t][k]].rec = r
<1> DEFINE e == Apply(bronze[t], events)[r]
<1>1. /\ Part(t) \subseteq 1..Len(log) /\ Len(log) \in Nat
      /\ bronze[t][r] \in 0..Len(log) /\ done[t] \in Nat /\ wal[t] \in Nat /\ done[t] <= wal[t]
      /\ Len(topic[t]) \in Nat /\ wal[t] <= Len(topic[t])
  BY PartHoldsEvents, Numbers DEF SinkInv
<1>2. CASE e = bronze[t][r]
  BY <1>1, <1>2 DEF SinkInv, BronzeFromTopic
<1>3. CASE e \in events /\ log[e].rec = r
  <2>1. e \in Part(t) /\ e \in Nat
    BY <1>1, <1>3 DEF LatestPerRecid
  <2>2. PICK k \in (done[t] + 1)..wal[t] : topic[t][k] = e
    BY <2>1 DEF Part
  <2>3. k \in 1..wal[t]
    BY <1>1
  <2>4. e >= bronze[t][r]
    <3>1. CASE bronze[t][r] = 0
      BY <2>1, <3>1
    <3>2. CASE bronze[t][r] # 0
      <4>1. PICK j \in 1..wal[t] : topic[t][j] = bronze[t][r] /\ log[topic[t][j]].rec = r
        BY <3>2 DEF SinkInv, BronzeFromTopic
      <4>2. CASE j <= done[t]
        <5>1. j < k /\ j \in 1..Len(topic[t]) /\ k \in 1..Len(topic[t])
          BY <1>1, <4>2
        <5>2. topic[t][j] < topic[t][k]
          BY <5>1 DEF SinkInv, TopicsIncrease
        <5> QED BY <1>1, <2>1, <2>2, <4>1, <5>2
      <4>3. CASE j > done[t]
        <5>1. j \in (done[t] + 1)..wal[t]
          BY <1>1, <4>3
        <5>2. bronze[t][r] \in Part(t) /\ log[bronze[t][r]].rec = r
          BY <4>1, <5>1 DEF Part
        <5>3. log[bronze[t][r]].lsn <= log[e].lsn
          BY <1>3, <5>2 DEF LatestPerRecid
        <5>4. bronze[t][r] <= e
          <6> HIDE DEF e
          <6> QED BY <1>3, <2>1, <5>2, <5>3, PartInOrder
        <5> QED BY <1>1, <2>1, <5>4
      <4> QED BY <1>1, <4>2, <4>3
    <3> QED BY <3>1, <3>2
  <2> QED BY <1>3, <2>2, <2>3, <2>4
<1> QED BY <1>2, <1>3, ApplyWrites

(* One commit of the sink of table t, MERGE or DELETE.                       *)
LEMMA SinkStep ==
  ASSUME SinkInv, StreamShape', NEW t \in Topics,
         NEW events, events \subseteq LatestPerRecid(Part(t)),
         bronze' = [bronze EXCEPT ![t] = Apply(@, events)],
         UNCHANGED <<log, pos, restarts, topic, wal, done>>
  PROVE  /\ (~Overlap => LsnIsPosition') /\ RowsInOrder' /\ TopicsIncrease' /\ PublishedOnly' /\ AllPublished'
         /\ BronzeFromTopic' /\ DoneLanded' /\ restarts' = 0
         /\ \A u \in Topics, r \in Recs : bronze'[u][r] >= bronze[u][r]
         /\ \A u \in Topics : \A k \in 1..Len(topic[u]) : Landed(u, k) => Landed(u, k)'
         /\ bronze'[t] = Apply(bronze[t], events)
<1> USE DEF SinkInv
<1>1. /\ bronze'[t] = Apply(bronze[t], events)
      /\ \A u \in Topics : u # t => bronze'[u] = bronze[u]
  <2>1. bronze \in [Topics -> [Recs -> 0..Len(log)]]
    BY DEF StreamShape, StreamTypeOK
  <2> QED BY <2>1
<1>2. \A u \in Topics, r \in Recs :
        /\ bronze'[u][r] >= bronze[u][r]
        /\ bronze'[u][r] # 0 =>
             \E k \in 1..wal[u] : topic[u][k] = bronze'[u][r] /\ log[topic[u][k]].rec = r
  <2> TAKE u \in Topics, r \in Recs
  <2>1. CASE u = t
    <3>1. /\ Apply(bronze[t], events)[r] >= bronze[t][r]
          /\ Apply(bronze[t], events)[r] # 0 =>
               \E k \in 1..wal[t] : topic[t][k] = Apply(bronze[t], events)[r]
                                   /\ log[topic[t][k]].rec = r
      BY ApplyForward
    <3> QED BY <1>1, <2>1, <3>1
  <2>2. CASE u # t
    <3>1. bronze'[u][r] = bronze[u][r] /\ bronze[u][r] \in Nat
      BY <1>1, <2>2, Numbers
    <3> QED BY <3>1 DEF BronzeFromTopic
  <2> QED BY <2>1, <2>2
<1>3. BronzeFromTopic'
  BY <1>2 DEF BronzeFromTopic
<1>4. /\ (~Overlap => LsnIsPosition') /\ RowsInOrder' /\ TopicsIncrease' /\ PublishedOnly'
      /\ AllPublished' /\ restarts' = 0
  BY DEF LsnIsPosition, RowsInOrder, TopicsIncrease, PublishedOnly, AllPublished
<1>5. \A u \in Topics : \A k \in 1..Len(topic[u]) : Landed(u, k) => Landed(u, k)'
  BY <1>2, LandedStays
<1>6. DoneLanded'
  <2>1. \A u \in Topics : \A k \in 1..done[u] : k \in 1..Len(topic[u])
    BY Numbers
  <2> QED BY <1>5, <2>1 DEF DoneLanded
<1> QED BY <1>1, <1>2, <1>3, <1>4, <1>5, <1>6

LEMMA SinkTableStep ==
  ASSUME SinkInv, StreamShape', MergeTable \/ DeleteTable
  PROVE  /\ \A u \in Topics, r \in Recs : bronze'[u][r] >= bronze[u][r]
         /\ \A u \in Topics : \A k \in 1..Len(topic[u]) : Landed(u, k) => Landed(u, k)'
<1> DEFINE t == Routes[cursor]
<1>1. PICK events \in SUBSET LatestPerRecid(Part(t)) :
        /\ bronze' = [bronze EXCEPT ![t] = Apply(@, events)]
        /\ UNCHANGED <<log, pos, restarts, topic, wal, done>>
  <2>1. Upserts(t) \subseteq LatestPerRecid(Part(t)) /\ Deletes(t) \subseteq LatestPerRecid(Part(t))
    BY DEF Upserts, Deletes
  <2> QED BY <2>1 DEF MergeTable, DeleteTable, sourceVars, kafkaVars
<1>2. t \in Topics
  BY RouteIsTopic DEF MergeTable, DeleteTable
<1> HIDE DEF t
<1> QED BY <1>1, <1>2, SinkStep

-----------------------------------------------------------------------------
(* The Spark driver.                                                        *)

(* A step that leaves the events and the tables alone and plans no less.     *)
LEMMA CursorStep ==
  ASSUME SinkInv, StreamShape',
         UNCHANGED <<log, pos, restarts, topic, bronze>>,
         \A t \in Topics : wal[t] <= wal'[t]
  PROVE  /\ (~Overlap => LsnIsPosition') /\ RowsInOrder' /\ TopicsIncrease' /\ PublishedOnly' /\ AllPublished'
         /\ BronzeFromTopic' /\ restarts' = 0
<1>1. \A t \in Topics : 1..wal[t] \subseteq 1..wal'[t]
  <2>1. \A t \in Topics : wal[t] \in Nat /\ wal'[t] \in Nat
    BY DEF SinkInv, StreamShape, StreamTypeOK
  <2> QED BY <2>1
<1>2. BronzeFromTopic'
  BY <1>1 DEF SinkInv, BronzeFromTopic
<1> QED BY <1>2 DEF SinkInv, LsnIsPosition, RowsInOrder, TopicsIncrease, PublishedOnly, AllPublished

LEMMA OffsetsStay ==
  ASSUME SinkInv, UNCHANGED wal
  PROVE  \A t \in Topics : wal[t] <= wal'[t]
BY Numbers DEF SinkInv

LEMMA StartBatch ==
  ASSUME SinkInv, cursor' = 1, UNCHANGED <<done, merged, log, topic, bronze>>, cursor = 0
  PROVE  DoneLanded' /\ SunkLanded' /\ MergeLanded'
<1>1. ~merged
  BY RoutesAssumption DEF SinkInv, StreamShape, MergedInBatch
<1>2. SunkLanded' /\ MergeLanded'
  BY <1>1 DEF SunkLanded, MergeLanded
<1>3. DoneLanded'
  BY DEF SinkInv, DoneLanded, Landed
<1> QED BY <1>2, <1>3

LEMMA PlanSink ==
  ASSUME SinkInv, StreamShape', PlanBatch
  PROVE  SinkInv'
<1>1. /\ cursor = 0 /\ cursor' = 1
      /\ UNCHANGED <<log, pos, restarts, topic, done, merged, bronze>>
  BY DEF PlanBatch, sourceVars, kafkaVars, lakeVars
<1>2. \A t \in Topics : wal[t] <= wal'[t]
  BY EndOffsetsPlanned DEF PlanBatch, SinkInv
<1> QED BY <1>1, <1>2, CursorStep, StartBatch DEF SinkInv

LEMMA ResumeSink ==
  ASSUME SinkInv, StreamShape', ResumeBatch
  PROVE  SinkInv'
<1>1. /\ cursor = 0 /\ cursor' = 1
      /\ UNCHANGED <<log, pos, restarts, topic, wal, done, merged, bronze>>
  BY DEF ResumeBatch, sourceVars, kafkaVars, lakeVars
<1> QED BY <1>1, OffsetsStay, CursorStep, StartBatch DEF SinkInv

LEMMA SkipSink ==
  ASSUME SinkInv, StreamShape', SkipTable
  PROVE  SinkInv'
<1> USE DEF SinkInv
<1> DEFINE t == Routes[cursor]
<1>1. /\ cursor \in 1..Len(Routes) /\ cursor' = cursor + 1 /\ ~merged /\ Part(t) = {}
      /\ UNCHANGED <<log, pos, restarts, topic, wal, done, merged, bronze>>
  BY DEF SkipTable, sourceVars, kafkaVars, lakeVars
<1>2. t \in Topics
  BY <1>1, RouteIsTopic
<1>3. \A k \in 1..wal[t] : Landed(t, k)
  <2>1. \A k \in 1..wal[t] : k \notin (done[t] + 1)..wal[t]
    BY <1>1 DEF Part
  <2>2. \A k \in 1..wal[t] : k \in 1..done[t]
    BY <1>2, <2>1, Numbers
  <2> QED BY <1>2, <2>2 DEF DoneLanded
<1>4. \A n \in 1..Len(Routes) : n < cursor' =>
        \A k \in 1..wal[Routes[n]] : Landed(Routes[n], k)
  <2> TAKE n \in 1..Len(Routes)
  <2> HAVE n < cursor'
  <2>1. n < cursor \/ n = cursor
    BY <1>1
  <2> QED BY <1>3, <2>1 DEF SunkLanded
<1>5. SunkLanded'
  BY <1>1, <1>4 DEF SunkLanded, Landed
<1>6. DoneLanded' /\ MergeLanded'
  BY <1>1 DEF DoneLanded, MergeLanded, Landed
<1> QED BY <1>1, <1>5, <1>6, OffsetsStay, CursorStep

LEMMA MergeSink ==
  ASSUME SinkInv, StreamShape', MergeTable
  PROVE  SinkInv'
<1> USE DEF SinkInv
<1> DEFINE t == Routes[cursor]
<1>1. /\ cursor \in 1..Len(Routes) /\ bronze' = [bronze EXCEPT ![t] = Apply(@, Upserts(t))]
      /\ UNCHANGED <<log, pos, restarts, topic, wal, done, cursor>>
  BY DEF MergeTable, sourceVars, kafkaVars
<1>2. t \in Topics /\ Upserts(t) \subseteq LatestPerRecid(Part(t))
  BY <1>1, RouteIsTopic DEF Upserts
<1>3. /\ (~Overlap => LsnIsPosition') /\ RowsInOrder' /\ TopicsIncrease' /\ PublishedOnly' /\ AllPublished'
      /\ BronzeFromTopic' /\ DoneLanded' /\ restarts' = 0
      /\ \A u \in Topics : \A k \in 1..Len(topic[u]) : Landed(u, k) => Landed(u, k)'
      /\ bronze'[t] = Apply(bronze[t], Upserts(t))
  <2> HIDE DEF t
  <2> QED BY <1>1, <1>2, SinkStep
<1>4. SunkLanded'
  <2>1. \A u \in Topics : \A k \in 1..wal[u] : k \in 1..Len(topic[u])
    BY Numbers
  <2> QED BY <1>1, <1>3, <2>1, RouteIsTopic DEF SunkLanded
<1>5. MergeLanded'
  <2>1. \A i \in Upserts(t) : bronze'[t][log[i].rec] >= i
    BY <1>2, <1>3, ApplyCovers
  <2>2. Upserts(t)' = Upserts(t)
    BY <1>1 DEF Upserts, LatestPerRecid, Part
  <2> QED BY <1>1, <2>1, <2>2 DEF MergeLanded
<1> QED BY <1>3, <1>4, <1>5

LEMMA DeleteSink ==
  ASSUME SinkInv, StreamShape', DeleteTable
  PROVE  SinkInv'
<1> USE DEF SinkInv
<1> SUFFICES ASSUME NEW c \in 1..Len(Routes), cursor = c PROVE SinkInv'
  BY DEF DeleteTable
<1> DEFINE t == Routes[c]
<1>1. /\ cursor' = c + 1 /\ merged /\ merged' = FALSE
      /\ bronze' = [bronze EXCEPT ![t] = Apply(@, Deletes(t))]
      /\ UNCHANGED <<log, pos, restarts, topic, wal, done>>
  BY DEF DeleteTable, sourceVars, kafkaVars
<1>2. t \in Topics /\ Deletes(t) \subseteq LatestPerRecid(Part(t))
  BY <1>1, RouteIsTopic DEF Deletes
<1>3. /\ (~Overlap => LsnIsPosition') /\ RowsInOrder' /\ TopicsIncrease' /\ PublishedOnly' /\ AllPublished'
      /\ BronzeFromTopic' /\ DoneLanded' /\ restarts' = 0
      /\ \A u \in Topics, r \in Recs : bronze'[u][r] >= bronze[u][r]
      /\ \A u \in Topics : \A k \in 1..Len(topic[u]) : Landed(u, k) => Landed(u, k)'
      /\ bronze'[t] = Apply(bronze[t], Deletes(t))
  <2> HIDE DEF t
  <2> QED BY <1>1, <1>2, SinkStep
<1>4. \A m \in LatestPerRecid(Part(t)) : bronze'[t][log[m].rec] >= m
  <2> TAKE m \in LatestPerRecid(Part(t))
  <2>1. m \in Upserts(t) \/ m \in Deletes(t)
    BY DEF Upserts, Deletes
  <2>2. CASE m \in Deletes(t)
    BY <1>2, <1>3, <2>2, ApplyCovers
  <2>3. CASE m \in Upserts(t)
    <3>1. m \in Part(t)
      BY DEF LatestPerRecid
    <3>2. m \in Nat /\ log[m].rec \in Recs
      <4>1. log[m] \in Event /\ m \in 1..Len(log)
        BY <1>2, <3>1, PartHoldsEvents
      <4> QED BY <4>1 DEF Event
    <3>3. bronze[t][log[m].rec] >= m
      BY <1>1, <2>3 DEF MergeLanded
    <3>4. bronze[t][log[m].rec] \in Nat /\ bronze'[t][log[m].rec] \in Nat
      <4>1. /\ bronze \in [Topics -> [Recs -> 0..Len(log)]]
            /\ bronze' \in [Topics -> [Recs -> 0..Len(log')]]
        BY DEF StreamShape, StreamTypeOK
      <4> QED BY <1>2, <3>2, <4>1
    <3>5. bronze'[t][log[m].rec] >= bronze[t][log[m].rec]
      BY <1>2, <1>3, <3>2
    <3> QED BY <3>2, <3>3, <3>4, <3>5
  <2> QED BY <2>1, <2>2, <2>3
<1>5. \A k \in 1..wal[t] : Landed(t, k)'
  <2> TAKE k \in 1..wal[t]
  <2>1. k \in 1..Len(topic[t])
    BY <1>2, Numbers
  <2>2. CASE k \in 1..done[t]
    BY <1>2, <1>3, <2>1, <2>2 DEF DoneLanded
  <2>3. CASE k \in (done[t] + 1)..wal[t]
    <3> DEFINE i == topic[t][k]
    <3>1. i \in Part(t)
      BY <2>3 DEF Part
    <3>2. PICK m \in LatestPerRecid(Part(t)) : log[m].rec = log[i].rec /\ m >= i
      BY <1>2, <3>1, LatestExists
    <3>3. i \in Nat /\ m \in Nat /\ log[i].rec \in Recs
      <4>1. m \in Part(t)
        BY DEF LatestPerRecid
      <4> QED BY <1>2, <2>1, <4>1, RecordTypes, PartHoldsEvents
    <3>4. bronze'[t][log[i].rec] \in Nat
      <4>1. bronze' \in [Topics -> [Recs -> 0..Len(log')]]
        BY DEF StreamShape, StreamTypeOK
      <4> QED BY <1>2, <3>3, <4>1
    <3>5. bronze'[t][log[i].rec] >= m
      BY <1>4, <3>2
    <3>6. bronze'[t][log[i].rec] >= i
      BY <3>2, <3>3, <3>4, <3>5
    <3> QED BY <1>1, <3>6 DEF Landed
  <2> QED BY <1>2, <2>2, <2>3, Numbers
<1>6. \A n \in 1..Len(Routes) : n < c + 1 =>
        \A k \in 1..wal[Routes[n]] : Landed(Routes[n], k)'
  <2> TAKE n \in 1..Len(Routes)
  <2> HAVE n < c + 1
  <2>1. CASE n = c
    BY <1>5, <2>1
  <2>2. CASE n < c
    <3>1. \A k \in 1..wal[Routes[n]] : k \in 1..Len(topic[Routes[n]])
      BY RouteIsTopic, Numbers
    <3> QED BY <1>3, <2>2, <3>1, RouteIsTopic DEF SunkLanded
  <2> QED BY <1>1, <2>1, <2>2
<1>7. SunkLanded'
  BY <1>1, <1>6 DEF SunkLanded
<1>8. MergeLanded'
  BY <1>1 DEF MergeLanded
<1> QED BY <1>3, <1>7, <1>8

(* After the last table everything the batch planned is in bronze.           *)
LEMMA AllSunk ==
  ASSUME SinkInv, cursor > Len(Routes)
  PROVE  \A t \in Topics : \A k \in 1..wal[t] : Landed(t, k)
<1> TAKE t \in Topics
<1>1. PICK n \in 1..Len(Routes) : Routes[n] = t
  BY RoutesAssumption
<1>2. n < cursor
  <2>1. Len(Routes) \in Nat /\ cursor \in Nat
    BY RoutesAssumption DEF SinkInv, StreamShape, StreamTypeOK, CommitStep
  <2> QED BY <2>1
<1> QED BY <1>1, <1>2 DEF SinkInv, SunkLanded

LEMMA UpsertProgressSink ==
  ASSUME SinkInv, StreamShape', UpsertProgress
  PROVE  SinkInv'
<1>1. /\ cursor = Len(Routes) + 1 /\ cursor' = Len(Routes) + 2 /\ Len(Routes) \in Nat
      /\ UNCHANGED <<log, pos, restarts, topic, wal, done, merged, bronze>>
  BY RoutesAssumption DEF UpsertProgress, UpsertProgressStep, CommitStep, sourceVars, kafkaVars
<1>2. SunkLanded'
  <2>1. \A n \in 1..Len(Routes) : \A k \in 1..wal[Routes[n]] : Landed(Routes[n], k)
    BY <1>1, AllSunk, RouteIsTopic
  <2> QED BY <1>1, <2>1 DEF SunkLanded, Landed
<1>3. DoneLanded' /\ MergeLanded'
  <2>1. ~merged
    BY <1>1 DEF SinkInv, StreamShape, MergedInBatch
  <2> QED BY <1>1, <2>1 DEF SinkInv, DoneLanded, MergeLanded, Landed
<1> QED BY <1>1, <1>2, <1>3, OffsetsStay, CursorStep DEF SinkInv

LEMMA CommitSink ==
  ASSUME SinkInv, StreamShape', CommitBatch
  PROVE  SinkInv'
<1>1. /\ cursor = Len(Routes) + 2 /\ cursor' = 0 /\ Len(Routes) \in Nat /\ done' = wal
      /\ UNCHANGED <<log, pos, restarts, topic, wal, merged, bronze>>
  BY RoutesAssumption DEF CommitBatch, CommitStep, sourceVars, kafkaVars, lakeVars
<1>2. DoneLanded'
  <2>1. \A t \in Topics : \A k \in 1..wal[t] : Landed(t, k)
    BY <1>1, AllSunk
  <2> QED BY <1>1, <2>1 DEF DoneLanded, Landed
<1>3. SunkLanded'
  BY <1>1 DEF SunkLanded
<1>4. MergeLanded'
  <2>1. ~merged
    BY <1>1 DEF SinkInv, StreamShape, MergedInBatch
  <2> QED BY <1>1, <2>1 DEF MergeLanded
<1> QED BY <1>1, <1>2, <1>3, <1>4, OffsetsStay, CursorStep DEF SinkInv

LEMMA CrashSink ==
  ASSUME SinkInv, StreamShape', CrashDriver
  PROVE  SinkInv'
<1>1. /\ cursor' = 0 /\ merged' = FALSE
      /\ UNCHANGED <<log, pos, restarts, topic, wal, done, bronze>>
  BY DEF CrashDriver, sourceVars, kafkaVars, lakeVars
<1>2. SunkLanded' /\ MergeLanded'
  BY <1>1 DEF SunkLanded, MergeLanded
<1>3. DoneLanded'
  BY <1>1 DEF SinkInv, DoneLanded, Landed
<1> QED BY <1>1, <1>2, <1>3, OffsetsStay, CursorStep DEF SinkInv

-----------------------------------------------------------------------------
(* What is committed is applied.                                            *)

LEMMA InitSink ==
  ASSUME StreamInit PROVE SinkInv
<1>1. StreamShape
  BY StreamInitShape
<1>2. LsnIsPosition /\ RowsInOrder /\ TopicsIncrease /\ PublishedOnly /\ AllPublished
  BY DEF StreamInit, LsnIsPosition, RowsInOrder, TopicsIncrease, PublishedOnly, AllPublished
<1>3. BronzeFromTopic /\ DoneLanded /\ SunkLanded /\ MergeLanded
  BY DEF StreamInit, BronzeFromTopic, DoneLanded, SunkLanded, MergeLanded
<1> QED BY <1>1, <1>2, <1>3 DEF SinkInv, StreamInit

(* A stutter of the stream, whatever else moves.                             *)
LEMMA StutterSink ==
  ASSUME SinkInv, StreamShape', UNCHANGED streamVars
  PROVE  SinkInv'
<1>1. UNCHANGED <<log, pos, restarts, topic, wal, done, cursor, merged, bronze>>
  BY DEF streamVars
<1>2. /\ (~Overlap => LsnIsPosition') /\ RowsInOrder' /\ TopicsIncrease' /\ PublishedOnly'
      /\ AllPublished'
  BY <1>1 DEF SinkInv, LsnIsPosition, RowsInOrder, TopicsIncrease, PublishedOnly, AllPublished
<1>3. BronzeFromTopic' /\ DoneLanded' /\ SunkLanded' /\ MergeLanded'
  BY <1>1, QuietStep
<1> QED BY <1>1, <1>2, <1>3 DEF SinkInv

(* A step of the stream moves no bronze row back, and no recorded LSN.       *)
LEMMA StreamForward ==
  ASSUME SinkInv, StreamShape', [StreamNext]_streamVars
  PROVE  /\ \A t \in Topics, r \in Recs : bronze'[t][r] >= bronze[t][r]
         /\ streamLsn' >= streamLsn
<1>1. (\A t \in Topics, r \in Recs : bronze[t][r] \in Nat) /\ streamLsn \in Nat
  BY Numbers DEF SinkInv
<1>2. CASE MergeTable \/ DeleteTable
  <2>1. streamLsn' = streamLsn
    BY <1>2 DEF MergeTable, DeleteTable
  <2> QED BY <1>1, <1>2, <2>1, SinkTableStep
<1>3. CASE UpsertProgress
  <2>1. bronze' = bronze
    BY <1>3 DEF UpsertProgress
  <2> QED BY <1>1, <1>3, <2>1, ProgressRises DEF SinkInv
<1>4. CASE UNCHANGED <<bronze, streamLsn>>
  BY <1>1, <1>4
<1> QED BY <1>2, <1>3, <1>4 DEF StreamNext, SourceNext, SparkStep, Change, StartCob,
        FinishCob, Publish, RestartConnector, PlanBatch, ResumeBatch, SkipTable, CommitBatch,
        CrashDriver, lakeVars, streamVars

LEMMA NextSink ==
  ASSUME MaxRestart = 0, SinkInv, StreamShape', [StreamNext]_streamVars
  PROVE  SinkInv'
<1>1. CASE SparkStep
  BY <1>1, PlanSink, SkipSink, MergeSink, DeleteSink, UpsertProgressSink, CommitSink
     DEF SparkStep
<1>2. ~RestartConnector
  BY DEF SinkInv, RestartConnector
<1>3. CASE UNCHANGED streamVars
  BY <1>3, StutterSink
<1> QED BY <1>1, <1>2, <1>3, SourceSink, PublishSink, ResumeSink, CrashSink DEF StreamNext

(* Between batches a row is one of its consumed events and no earlier than   *)
(* any of them.                                                              *)
LEMMA InvImpliesApplied ==
  ASSUME SinkInv PROVE CommittedIsApplied
<1> SUFFICES ASSUME wal = done, NEW t \in Topics, NEW r \in Recs
             PROVE  LET seen == {topic[t][k] : k \in {k \in 1..done[t] : log[topic[t][k]].rec = r}}
                    IN  IF seen = {} THEN bronze[t][r] = 0
                                     ELSE /\ bronze[t][r] \in seen
                                          /\ \A i \in seen : i <= bronze[t][r]
  BY DEF CommittedIsApplied
<1> DEFINE seen == {topic[t][k] : k \in {k \in 1..done[t] : log[topic[t][k]].rec = r}}
<1>1. bronze[t][r] # 0 => bronze[t][r] \in seen
  BY DEF SinkInv, BronzeFromTopic
<1>2. ASSUME NEW k \in 1..done[t], log[topic[t][k]].rec = r
      PROVE  topic[t][k] \in Nat \ {0} /\ bronze[t][r] >= topic[t][k] /\ bronze[t][r] \in Nat
  <2>1. k \in 1..Len(topic[t]) /\ bronze[t][r] \in Nat
    BY Numbers DEF SinkInv
  <2>2. topic[t][k] \in 1..Len(log) /\ Len(log) \in Nat
    BY <2>1, RecordTypes, Numbers DEF SinkInv
  <2>3. bronze[t][r] >= topic[t][k]
    BY <1>2 DEF SinkInv, DoneLanded, Landed
  <2> QED BY <2>1, <2>2, <2>3
<1>3. \A i \in seen : i \in Nat \ {0} /\ i <= bronze[t][r] /\ bronze[t][r] \in Nat
  BY <1>2
<1>4. seen # {} => bronze[t][r] # 0
  BY <1>3
<1> HIDE DEF seen
<1>5. IF seen = {} THEN bronze[t][r] = 0
                   ELSE bronze[t][r] \in seen /\ \A i \in seen : i <= bronze[t][r]
  BY <1>1, <1>3, <1>4
<1> QED BY <1>5 DEF seen

(* A stream whose connector publishes nothing twice applies each committed   *)
(* event once and in order, with any overlap of transactions, any skew of    *)
(* the topics' end offsets, any number of crashes of the driver and replays  *)
(* of its batches: between batches a bronze row is exactly the last of its   *)
(* events the checkpoint counts as consumed (write_bronze, Spark's           *)
(* checkpoint).                                                              *)
THEOREM WhatIsCommittedIsApplied ==
  ASSUME MaxRestart = 0
  PROVE  StreamSpec => []CommittedIsApplied
<1>1. SinkInv /\ StreamShape' /\ [StreamNext]_streamVars => SinkInv'
  BY NextSink
<1> QED BY <1>1, InitSink, InvImpliesApplied, StreamShapeInvariant, PTL DEF StreamSpec

-----------------------------------------------------------------------------
(* An Ordered stream: what etl_stream_progress records is in bronze.         *)

LEMMA LoggedInv ==
  ASSUME Ordered, StreamInv, SinkInv', StreamShape', NEW t \in Topics, NEW r \in Recs,
         NEW op \in {"u", "d"}, NEW cob \in {"none", "running", "done"},
         Logged(t, r, op, cob), UNCHANGED <<kafkaVars, sparkVars, lakeVars>>
  PROVE  StreamInv'
<1> USE DEF StreamInv
<1>1. UNCHANGED <<pos, topic, wal, done, cursor, merged, bronze, maxLsn, streamLsn>>
  BY DEF kafkaVars, sparkVars, lakeVars
<1>2. /\ Len(log') = Len(log) + 1 /\ DOMAIN log' = 1..Len(log')
      /\ DOMAIN log = 1..Len(log) /\ Len(log) \in Nat
      /\ \A i \in 1..Len(log) : log'[i] = log[i]
      /\ log'[Len(log) + 1].lsn = Len(log) + 1
  BY LoggedExtends DEF Ordered, SinkInv
<1>3. LsnIsPosition'
  BY <1>2 DEF LsnIsPosition
<1>4. PlannedIsPrefix'
  BY <1>1 DEF PlannedIsPrefix
<1>6. \A u \in Topics : \A k \in 1..Len(topic[u]) : Landed(u, k) => Landed(u, k)'
  BY <1>1, <1>2, QuietStep
<1>7. ProgressLanded'
  BY <1>1, <1>6 DEF ProgressLanded
<1> QED BY <1>3, <1>4, <1>7

LEMMA PublishInv ==
  ASSUME StreamInv, SinkInv', StreamShape', Publish
  PROVE  StreamInv'
<1> USE DEF StreamInv
<1>1. UNCHANGED <<log, wal, done, cursor, merged, bronze, maxLsn, streamLsn>>
  BY DEF Publish, sourceVars, sparkVars, lakeVars
<1> DEFINE old(t) == 1..Len(topic[t])
<1>2. /\ pos' = pos + 1 /\ pos \in Nat
      /\ \A t \in Topics :
           /\ Len(topic[t]) \in Nat /\ Len(topic[t]) <= Len(topic'[t]) /\ Len(topic'[t]) \in Nat
           /\ \A k \in old(t) : topic'[t][k] = topic[t][k] /\ topic[t][k] \in Nat /\ topic[t][k] <= pos
           /\ \A k \in 1..Len(topic'[t]) :
                \/ k \in old(t)
                \/ k = Len(topic[t]) + 1 /\ topic'[t][k] = pos'
  <2>1. pos \in Nat
    BY Numbers DEF SinkInv
  <2>2. \A t \in Topics : \A k \in 1..Len(topic[t]) : topic[t][k] \in Nat /\ topic[t][k] <= pos
    BY RecordTypes DEF SinkInv, PublishedOnly
  <2> QED BY <2>1, <2>2, PublishAdds DEF SinkInv
<1>3. LsnIsPosition'
  BY <1>1 DEF LsnIsPosition
<1>5. PlannedIsPrefix'
  <2> SUFFICES ASSUME NEW t \in Topics, NEW u \in Topics, NEW j \in 1..wal[t],
                      NEW k \in (wal[u] + 1)..Len(topic'[u])
               PROVE  topic'[t][j] < topic'[u][k]
    BY <1>1 DEF PlannedIsPrefix
  <2>1. j \in old(t) /\ k \in 1..Len(topic'[u])
    BY <1>2, Numbers DEF SinkInv
  <2>2. CASE k \in old(u)
    <3>1. k \in (wal[u] + 1)..Len(topic[u])
      BY <1>2, <2>2, Numbers DEF SinkInv
    <3> QED BY <1>2, <2>1, <2>2, <3>1 DEF PlannedIsPrefix
  <2>3. CASE topic'[u][k] = pos'
    <3>1. topic'[t][j] = topic[t][j] /\ topic[t][j] \in Nat /\ topic[t][j] <= pos
      BY <1>2, <2>1
    <3> QED BY <1>2, <2>3, <3>1
  <2> QED BY <1>2, <2>1, <2>2, <2>3
<1>6. \A u \in Topics : \A k \in old(u) : Landed(u, k) => Landed(u, k)'
  <2>1. \A t \in Topics : \A k \in 1..Len(topic[t]) : topic'[t][k] = topic[t][k]
    BY <1>2
  <2> QED BY <1>1, <2>1, QuietStep
<1>7. \A u \in Topics : maxLsn[u] \in Nat /\ streamLsn \in Nat /\ maxLsn[u] <= pos /\ streamLsn <= pos
  BY Numbers DEF SinkInv, ProgressLanded
<1>8. ProgressLanded'
  <2>1. ASSUME NEW u \in Topics, NEW k \in 1..Len(topic'[u]),
               topic'[u][k] <= maxLsn[u] \/ topic'[u][k] <= streamLsn
        PROVE  Landed(u, k)'
    <3>1. k \in old(u)
      BY <1>2, <1>7, <2>1
    <3> QED BY <1>2, <1>6, <2>1, <3>1 DEF ProgressLanded
  <2>2. (\A t \in Topics : maxLsn[t] <= pos') /\ streamLsn <= pos'
    BY <1>2, <1>7, MarkerIsTopic
  <2> QED BY <1>1, <2>1, <2>2 DEF ProgressLanded
<1> QED BY <1>3, <1>5, <1>8

LEMMA PlanInv ==
  ASSUME Ordered, StreamInv, SinkInv', StreamShape', PlanBatch
  PROVE  StreamInv'
<1> USE DEF StreamInv
<1>1. PICK ends \in EndOffsets : wal' = ends
  BY DEF PlanBatch
<1>2. UNCHANGED <<log, pos, topic, bronze, maxLsn, streamLsn>>
  BY DEF PlanBatch, sourceVars, kafkaVars, lakeVars
<1>3. \A u \in Topics : (wal'[u] + 1)..Len(topic[u]) = {}
  BY <1>1, Numbers DEF SinkInv, EndOffsets, Ordered
<1>4. PlannedIsPrefix'
  BY <1>2, <1>3 DEF PlannedIsPrefix
<1>5. LsnIsPosition' /\ ProgressLanded'
  BY <1>2 DEF LsnIsPosition, ProgressLanded, Landed
<1> QED BY <1>4, <1>5

(* A step that leaves the topics and their offsets alone.                    *)
LEMMA TopicsStay ==
  ASSUME StreamInv, UNCHANGED <<log, pos, topic, wal>>
  PROVE  LsnIsPosition' /\ PlannedIsPrefix'
BY DEF StreamInv, LsnIsPosition, PlannedIsPrefix

LEMMA CursorInv ==
  ASSUME StreamInv, SinkInv', UNCHANGED <<log, pos, topic, wal, bronze, maxLsn, streamLsn>>
  PROVE  StreamInv'
BY TopicsStay DEF StreamInv, ProgressLanded, Landed

LEMMA SinkTableInv ==
  ASSUME StreamInv, SinkInv', StreamShape', MergeTable \/ DeleteTable
  PROVE  StreamInv'
<1>1. ProgressLanded'
  <2>1. UNCHANGED <<topic, pos, maxLsn, streamLsn>>
    BY DEF MergeTable, DeleteTable, kafkaVars
  <2> QED BY <2>1, SinkTableStep DEF StreamInv, ProgressLanded
<1>2. UNCHANGED <<log, pos, topic, wal>>
  BY DEF MergeTable, DeleteTable, sourceVars, kafkaVars
<1> QED BY <1>1, <1>2, TopicsStay DEF StreamInv

LEMMA UpsertProgressInv ==
  ASSUME StreamInv, SinkInv', UpsertProgress
  PROVE  StreamInv'
<1> USE DEF StreamInv
<1>1. /\ cursor > Len(Routes)
      /\ UNCHANGED <<log, pos, topic, wal, bronze>>
  BY RoutesAssumption DEF UpsertProgress, UpsertProgressStep, sourceVars, kafkaVars
<1>2. \A t \in Topics : \A k \in 1..wal[t] : Landed(t, k)
  BY <1>1, AllSunk
(* A recorded LSN of the batch is a planned record.                          *)
<1>3. ASSUME NEW t \in Topics, NEW l \in PartLsns(t)
      PROVE  \E j \in 1..wal[t] : topic[t][j] = l /\ l \in Nat /\ l <= pos
  <2>1. PICK i \in Part(t) : l = log[i].lsn
    BY <1>3 DEF PartLsns
  <2>2. i \in 1..Len(log) /\ l = i
    BY <2>1, PartHoldsEvents, Numbers DEF SinkInv, LsnIsPosition
  <2>3. PICK j \in (done[t] + 1)..wal[t] : topic[t][j] = i
    BY <2>1 DEF Part
  <2>4. j \in 1..wal[t] /\ j \in 1..Len(topic[t])
    BY <2>3, Numbers DEF SinkInv
  <2> QED BY <2>2, <2>3, <2>4 DEF SinkInv, PublishedOnly
(* ... and everything that is not planned is later.                          *)
<1>4. ASSUME NEW u \in Topics, NEW l \in PartLsns(u), NEW t \in Topics,
             NEW k \in 1..Len(topic[t]), topic[t][k] <= l
      PROVE  Landed(t, k)
  <2>1. PICK j \in 1..wal[u] : topic[u][j] = l /\ l \in Nat
    BY <1>3
  <2>2. topic[t][k] \in Nat
    BY RecordTypes DEF SinkInv
  <2>3. k \in 1..wal[t] \/ k \in (wal[t] + 1)..Len(topic[t])
    BY Numbers DEF SinkInv
  <2>4. k \notin (wal[t] + 1)..Len(topic[t])
    BY <1>4, <2>1, <2>2 DEF PlannedIsPrefix
  <2> QED BY <1>2, <2>3, <2>4
<1>5. /\ streamLsn' = streamLsn \/ \E u \in Topics : streamLsn' \in PartLsns(u)
      /\ \A t \in Topics : maxLsn'[t] = maxLsn[t] \/ maxLsn'[t] \in PartLsns(t)
  BY ProgressRises DEF SinkInv, BatchLsns
<1>6. streamLsn' <= pos /\ \A t \in Topics : maxLsn'[t] <= pos
  BY <1>3, <1>5 DEF ProgressLanded
<1>7. ASSUME NEW t \in Topics, NEW k \in 1..Len(topic[t]),
             topic[t][k] <= maxLsn'[t] \/ topic[t][k] <= streamLsn'
      PROVE  Landed(t, k)
  <2>1. CASE topic[t][k] <= maxLsn'[t]
    BY <1>4, <1>5, <2>1 DEF ProgressLanded
  <2>2. CASE topic[t][k] <= streamLsn'
    BY <1>4, <1>5, <2>2 DEF ProgressLanded
  <2> QED BY <1>7, <2>1, <2>2
<1>8. ProgressLanded'
  BY <1>1, <1>6, <1>7 DEF ProgressLanded, Landed
<1> QED BY <1>1, <1>8, TopicsStay

LEMMA StreamInitInv ==
  ASSUME StreamInit PROVE StreamInv
<1>1. LsnIsPosition /\ PlannedIsPrefix /\ ProgressLanded
  BY DEF StreamInit, LsnIsPosition, PlannedIsPrefix, ProgressLanded
<1> QED BY <1>1, InitSink DEF StreamInv

LEMMA StreamNextInv ==
  ASSUME Ordered, StreamInv, [StreamNext]_streamVars
  PROVE  StreamInv'
<1>1. StreamShape' /\ SinkInv'
  <2>1. StreamShape'
    BY StreamNextShape DEF StreamInv, SinkInv
  <2> QED BY <2>1, NextSink DEF StreamInv, Ordered
<1>2. CASE SourceNext
  BY <1>1, <1>2, SourceLogs, LoggedInv
<1>3. CASE SkipTable \/ CommitBatch \/ CrashDriver \/ ResumeBatch
  <2>1. UNCHANGED <<log, pos, topic, wal, bronze, maxLsn, streamLsn>>
    BY <1>3 DEF SkipTable, CommitBatch, CrashDriver, ResumeBatch, sourceVars, kafkaVars, lakeVars
  <2> QED BY <1>1, <2>1, CursorInv
<1>4. ~RestartConnector
  BY DEF Ordered, StreamInv, SinkInv, RestartConnector
<1>5. CASE UNCHANGED streamVars
  BY <1>1, <1>5, CursorInv DEF streamVars
<1> QED BY <1>1, <1>2, <1>3, <1>4, <1>5, PublishInv, PlanInv, SinkTableInv, UpsertProgressInv
        DEF StreamNext, SparkStep

(* The rows of etl_stream_progress only cover events that are published.     *)
LEMMA InvImpliesCovered ==
  ASSUME StreamInv PROVE ProgressCovered
<1> USE DEF StreamInv
<1> SUFFICES ASSUME NEW t \in Topics, NEW i \in DOMAIN log, log[i].tab = t,
                    log[i].lsn <= maxLsn[t] \/ log[i].lsn <= streamLsn
             PROVE  bronze[t][log[i].rec] >= i
  BY DEF ProgressCovered
<1>1. i \in 1..Len(log) /\ Len(log) \in Nat /\ log[i].lsn = i
  BY Numbers DEF SinkInv, LsnIsPosition
<1>2. i \in 1..pos
  BY <1>1, Numbers DEF SinkInv, ProgressLanded
<1>3. PICK k \in 1..Len(topic[t]) : topic[t][k] = i
  BY <1>2 DEF SinkInv, AllPublished
<1>4. Landed(t, k)
  BY <1>1, <1>3 DEF ProgressLanded
<1> QED BY <1>3, <1>4 DEF Landed

(* When the stream is Ordered, what etl_stream_progress records is in        *)
(* bronze: branches A and B of _caught_up are sound.                         *)
THEOREM ProgressIsCovered ==
  ASSUME Ordered PROVE StreamSpec => []ProgressCovered
BY StreamInitInv, StreamNextInv, InvImpliesCovered, PTL DEF StreamSpec

-----------------------------------------------------------------------------
(* CobMarker: T24 writes the marker.                                        *)

LEMMA MarkerTypes ==
  ASSUME StreamShape
  PROVE  /\ day \in Nat /\ day >= 1 /\ cobRunning \in BOOLEAN /\ MarkerWrites \in Nat
         /\ \A i \in DOMAIN log : /\ log[i].day \in Nat /\ log[i].lsn \in Nat
                                  /\ MarkerWrite(i) \in Int
<1>1. day \in Nat /\ day >= 1 /\ cobRunning \in BOOLEAN
  BY DEF StreamShape, StreamTypeOK, MarkersCloseDays
<1>2. MarkerWrites \in Nat
  BY <1>1 DEF MarkerWrites
<1>3. \A i \in DOMAIN log : log[i] \in Event
  BY DEF StreamShape, StreamTypeOK
<1>4. \A i \in DOMAIN log : log[i].day \in Nat /\ log[i].lsn \in Nat
  BY <1>3 DEF Event
<1>5. \A i \in DOMAIN log : MarkerWrite(i) \in Int
  BY <1>4 DEF MarkerWrite
<1> QED BY <1>1, <1>2, <1>4, <1>5

LEMMA OldWritesKept ==
  ASSUME StreamShape, NEW t \in Topics, NEW r \in Recs, NEW op \in {"u", "d"},
         NEW cob \in {"none", "running", "done"}, Logged(t, r, op, cob)
  PROVE  \A i \in 1..Len(log) : MarkerWrite(i)' = MarkerWrite(i)
BY LoggedExtends DEF MarkerWrite

LEMMA ChangeMarker ==
  ASSUME MarkerInv, NEW t \in Tables, NEW r \in Recs, NEW op \in {"u", "d"}, Change(t, r, op)
  PROVE  BatchHoldsWrites' /\ MarkerWrites' = MarkerWrites
<1>1. /\ t \in Topics /\ t # BATCH /\ Logged(t, r, op, "none")
      /\ UNCHANGED <<day, cobRunning>>
  BY ConstantsAssumption DEF Change, Topics
<1>2. /\ DOMAIN log = 1..Len(log) /\ DOMAIN log' = 1..(Len(log) + 1) /\ Len(log) \in Nat
      /\ \A i \in 1..Len(log) : log'[i] = log[i]
      /\ log'[Len(log) + 1].tab = t
  BY <1>1, LoggedExtends DEF MarkerInv, SinkInv
<1>3. MarkerWrites' = MarkerWrites
  BY <1>1 DEF MarkerWrites
<1>4. \A i \in 1..Len(log) : MarkerWrite(i)' = MarkerWrite(i)
  BY <1>1, OldWritesKept DEF MarkerInv, SinkInv
<1>5. \A i \in DOMAIN log' : log'[i].tab = BATCH => i \in 1..Len(log)
  BY <1>1, <1>2
<1>6. BatchHoldsWrites'
  BY <1>2, <1>3, <1>4, <1>5 DEF MarkerInv, BatchHoldsWrites
<1> QED BY <1>3, <1>6

(* The next write of the marker carries the next number.                     *)
LEMMA WriteMarker ==
  ASSUME MarkerInv, NEW cob \in {"running", "done"}, Logged(BATCH, CobRecid, "u", cob),
         MarkerWrites' = MarkerWrites + 1,
         IF cob = "done" THEN MarkerWrites' = 2 * day ELSE MarkerWrites' = 2 * day - 1
  PROVE  BatchHoldsWrites'
<1>0. Len(log) \in Nat
  BY DEF MarkerInv, SinkInv, StreamShape, StreamTypeOK
<1> SUFFICES ASSUME NEW n \in Nat, n = Len(log) + 1 PROVE BatchHoldsWrites'
  BY <1>0
<1>1. /\ DOMAIN log = 1..Len(log) /\ DOMAIN log' = 1..n /\ Len(log) \in Nat
      /\ \A i \in 1..Len(log) : log'[i] = log[i]
      /\ log'[n].cob = cob /\ log'[n].day = day
  BY MarkerIsTopic, LoggedExtends DEF MarkerInv, SinkInv
<1>2. MarkerWrites \in Nat
  BY MarkerTypes DEF MarkerInv, SinkInv
<1>3. \A i \in 1..Len(log) : MarkerWrite(i)' = MarkerWrite(i) /\ MarkerWrite(i) \in Int
  BY <1>1, MarkerIsTopic, OldWritesKept, MarkerTypes DEF MarkerInv, SinkInv
<1>4. MarkerWrite(n)' = MarkerWrites'
  BY <1>1 DEF MarkerWrite
<1>5. \A i \in 1..Len(log) : log[i].tab = BATCH =>
        1 <= MarkerWrite(i) /\ MarkerWrite(i) <= MarkerWrites
  BY <1>1 DEF MarkerInv, BatchHoldsWrites
<1>6. \A i \in DOMAIN log' : log'[i].tab = BATCH =>
        1 <= MarkerWrite(i)' /\ MarkerWrite(i)' <= MarkerWrites'
  <2> TAKE i \in DOMAIN log'
  <2>1. CASE i = n
    BY <1>1, <1>2, <1>4, <2>1
  <2>2. CASE i \in 1..Len(log)
    BY <1>1, <1>2, <1>3, <1>5, <2>2
  <2> QED BY <1>1, <2>1, <2>2
<1>7. \A i, j \in DOMAIN log' : (log'[i].tab = BATCH /\ log'[j].tab = BATCH /\ i < j) =>
        MarkerWrite(i)' < MarkerWrite(j)'
  <2> TAKE i, j \in DOMAIN log'
  <2> HAVE log'[i].tab = BATCH /\ log'[j].tab = BATCH /\ i < j
  <2>1. i \in 1..Len(log)
    BY <1>1
  <2>2. CASE j = n
    BY <1>1, <1>2, <1>3, <1>4, <1>5, <2>1, <2>2
  <2>3. CASE j \in 1..Len(log)
    BY <1>1, <1>3, <2>1, <2>3 DEF MarkerInv, BatchHoldsWrites
  <2> QED BY <1>1, <2>2, <2>3
<1> QED BY <1>6, <1>7 DEF BatchHoldsWrites

LEMMA StartCobMarker ==
  ASSUME MarkerInv, StartCob
  PROVE  BatchHoldsWrites' /\ MarkerWrites < 2 * MaxDay /\ MarkerWrites' = MarkerWrites + 1
<1>1. /\ ~cobRunning /\ cobRunning' = TRUE /\ day <= MaxDay /\ day' = day
      /\ Logged(BATCH, CobRecid, "u", "running")
  BY DEF StartCob
<1>2. day \in Nat /\ day >= 1 /\ MaxDay \in Nat
  BY MarkerTypes, ConstantsAssumption DEF MarkerInv, SinkInv
<1>3. /\ MarkerWrites < 2 * MaxDay /\ MarkerWrites' = MarkerWrites + 1
      /\ MarkerWrites' = 2 * day - 1
  BY <1>1, <1>2 DEF MarkerWrites
<1> QED BY <1>1, <1>3, WriteMarker

LEMMA FinishCobMarker ==
  ASSUME MarkerInv, FinishCob
  PROVE  BatchHoldsWrites' /\ MarkerWrites < 2 * MaxDay /\ MarkerWrites' = MarkerWrites + 1
<1>1. /\ cobRunning /\ cobRunning' = FALSE /\ day' = day + 1
      /\ Logged(BATCH, CobRecid, "u", "done")
  BY DEF FinishCob
<1>2. day \in Nat /\ day >= 1 /\ MaxDay \in Nat /\ day <= MaxDay
  BY <1>1, MarkerTypes, ConstantsAssumption DEF MarkerInv, SinkInv, StreamShape, MarkersCloseDays
<1>3. /\ MarkerWrites < 2 * MaxDay /\ MarkerWrites' = MarkerWrites + 1
      /\ MarkerWrites' = 2 * day
  BY <1>1, <1>2 DEF MarkerWrites
<1> QED BY <1>1, <1>3, WriteMarker

-----------------------------------------------------------------------------
(* Every step is a step of CobMarker or a stutter.                           *)

RowShown == /\ MarkerShown \in 0..MarkerWrites
            /\ bronze[BATCH][CobRecid] \in Nat
            /\ bronze[BATCH][CobRecid] # 0 =>
                 /\ bronze[BATCH][CobRecid] \in DOMAIN log
                 /\ log[bronze[BATCH][CobRecid]].tab = BATCH

LEMMA RowIsShown == MarkerInv => RowShown
<1> SUFFICES ASSUME MarkerInv PROVE RowShown
  OBVIOUS
<1> DEFINE b == bronze[BATCH][CobRecid]
<1>1. MarkerWrites \in Nat /\ \A i \in DOMAIN log : MarkerWrite(i) \in Int
  BY MarkerTypes DEF MarkerInv, SinkInv
<1>2. b # 0 => b \in DOMAIN log /\ log[b].tab = BATCH
  <2> HAVE b # 0
  <2>1. PICK k \in 1..wal[BATCH] : topic[BATCH][k] = b
    BY MarkerIsTopic DEF MarkerInv, SinkInv, BronzeFromTopic
  <2>2. k \in 1..Len(topic[BATCH])
    BY MarkerIsTopic, Numbers DEF MarkerInv, SinkInv
  <2> QED BY <2>1, <2>2, MarkerIsTopic DEF MarkerInv, SinkInv, StreamShape, TopicsHoldEvents
<1>3. MarkerShown \in 0..MarkerWrites
  BY <1>1, <1>2 DEF MarkerShown, MarkerInv, BatchHoldsWrites
<1>4. b \in Nat
  BY MarkerIsTopic, Numbers DEF MarkerInv, SinkInv
<1> QED BY <1>2, <1>3, <1>4 DEF RowShown

LEMMA RowIsShownNext == MarkerInv' => RowShown'
BY RowIsShown, PTL

(* The row stays or moves forward: CobMarker stutters or shows.              *)
LEMMA RowForward ==
  ASSUME MarkerInv, MarkerInv', UNCHANGED <<log, day, cobRunning>>,
         bronze'[BATCH][CobRecid] >= bronze[BATCH][CobRecid]
  PROVE  [Marker!MarkerNext]_<<MarkerWrites, MarkerShown>>
<1> SUFFICES ASSUME NEW b, NEW c, b = bronze[BATCH][CobRecid], c = bronze'[BATCH][CobRecid]
             PROVE  [Marker!MarkerNext]_<<MarkerWrites, MarkerShown>>
  OBVIOUS
<1>1. MarkerWrites' = MarkerWrites /\ MarkerWrites \in Nat
  BY MarkerTypes DEF MarkerInv, SinkInv, MarkerWrites
<1>2. MarkerShown \in 0..MarkerWrites /\ MarkerShown' \in 0..MarkerWrites
  BY <1>1, RowIsShown, RowIsShownNext DEF RowShown
<1>3. CASE c = b
  BY <1>1, <1>3 DEF MarkerShown, MarkerWrite
<1>4. CASE c # b
  <2>1. b \in Nat /\ c \in Nat /\ b < c
    <3>1. b \in Nat /\ c \in Nat
      BY RowIsShown, RowIsShownNext DEF RowShown
    <3> QED BY <1>4, <3>1
  <2>2. c \in DOMAIN log /\ log[c].tab = BATCH
    BY <2>1, RowIsShownNext DEF RowShown
  <2>3. MarkerShown' = MarkerWrite(c)
    BY <2>1 DEF MarkerShown, MarkerWrite
  <2>4. MarkerShown < MarkerShown'
    <3>1. CASE b = 0
      <4>1. MarkerShown = 0 /\ 1 <= MarkerWrite(c)
        BY <2>2, <3>1 DEF MarkerShown, MarkerInv, BatchHoldsWrites
      <4> QED BY <1>1, <1>2, <2>3, <4>1
    <3>2. CASE b # 0
      <4>1. b \in DOMAIN log /\ log[b].tab = BATCH /\ MarkerShown = MarkerWrite(b)
        BY <3>2, RowIsShown DEF RowShown, MarkerShown
      <4> QED BY <2>1, <2>2, <2>3, <4>1 DEF MarkerInv, BatchHoldsWrites
    <3> QED BY <3>1, <3>2
  <2>5. Marker!Show
    BY <1>1, <1>2, <2>4 DEF Marker!Show
  <2> QED BY <2>5 DEF Marker!MarkerNext
<1> QED BY <1>3, <1>4

LEMMA WriteIsStep ==
  ASSUME MarkerInv, UNCHANGED bronze,
         MarkerWrites < 2 * MaxDay, MarkerWrites' = MarkerWrites + 1,
         NEW cob \in {"running", "done"}, Logged(BATCH, CobRecid, "u", cob)
  PROVE  [Marker!MarkerNext]_<<MarkerWrites, MarkerShown>>
<1>1. \A i \in 1..Len(log) : MarkerWrite(i)' = MarkerWrite(i)
  BY MarkerIsTopic, OldWritesKept DEF MarkerInv, SinkInv
<1>2. bronze[BATCH][CobRecid] # 0 => bronze[BATCH][CobRecid] \in 1..Len(log)
  BY MarkerIsTopic, Numbers DEF MarkerInv, SinkInv
<1>3. MarkerShown' = MarkerShown
  BY <1>1, <1>2 DEF MarkerShown
<1>4. Marker!Write
  BY <1>3 DEF Marker!Write
<1> QED BY <1>4 DEF Marker!MarkerNext

(* A step that writes no event keeps the writes and moves the row forward.   *)
LEMMA QuietMarker ==
  ASSUME MarkerInv, SinkInv', UNCHANGED <<log, day, cobRunning>>,
         \A t \in Topics, r \in Recs : bronze'[t][r] >= bronze[t][r]
  PROVE  BatchHoldsWrites' /\ [Marker!MarkerNext]_<<MarkerWrites, MarkerShown>>
<1>1. BatchHoldsWrites'
  BY DEF MarkerInv, BatchHoldsWrites, MarkerWrite, MarkerWrites
<1> QED BY <1>1, MarkerIsTopic, RowForward DEF MarkerInv

LEMMA NextMarker ==
  ASSUME MaxRestart = 0, MarkerInv, StreamShape', [StreamNext]_streamVars
  PROVE  MarkerInv' /\ [Marker!MarkerNext]_<<MarkerWrites, MarkerShown>>
<1>1. SinkInv'
  BY NextSink DEF MarkerInv
<1>2. \A t \in Topics, r \in Recs : bronze'[t][r] >= bronze[t][r]
  BY StreamForward DEF MarkerInv
<1>3. ASSUME NEW t \in Tables, NEW r \in Recs, NEW op \in {"u", "d"}, Change(t, r, op)
      PROVE  BatchHoldsWrites' /\ [Marker!MarkerNext]_<<MarkerWrites, MarkerShown>>
  <2>1. BatchHoldsWrites' /\ MarkerWrites' = MarkerWrites /\ UNCHANGED bronze
    BY <1>3, ChangeMarker DEF Change, lakeVars
  <2>2. t \in Topics /\ Logged(t, r, op, "none")
    BY <1>3 DEF Change, Topics
  <2>3. \A i \in 1..Len(log) : MarkerWrite(i)' = MarkerWrite(i)
    BY <2>2, OldWritesKept DEF MarkerInv, SinkInv
  <2>4. bronze[BATCH][CobRecid] # 0 => bronze[BATCH][CobRecid] \in 1..Len(log)
    BY MarkerIsTopic, Numbers DEF MarkerInv, SinkInv
  <2>5. MarkerShown' = MarkerShown
    BY <2>1, <2>3, <2>4 DEF MarkerShown
  <2> QED BY <2>1, <2>5
<1>4. CASE StartCob
  <2>1. Logged(BATCH, CobRecid, "u", "running") /\ UNCHANGED bronze
    BY <1>4 DEF StartCob, lakeVars
  <2> QED BY <1>1, <1>4, <2>1, StartCobMarker, WriteIsStep DEF MarkerInv
<1>5. CASE FinishCob
  <2>1. Logged(BATCH, CobRecid, "u", "done") /\ UNCHANGED bronze
    BY <1>5 DEF FinishCob, lakeVars
  <2> QED BY <1>1, <1>5, <2>1, FinishCobMarker, WriteIsStep DEF MarkerInv
<1>6. CASE UNCHANGED <<log, day, cobRunning>>
  BY <1>1, <1>2, <1>6, QuietMarker DEF MarkerInv
<1>7. ASSUME BatchHoldsWrites', [Marker!MarkerNext]_<<MarkerWrites, MarkerShown>>
      PROVE  MarkerInv' /\ [Marker!MarkerNext]_<<MarkerWrites, MarkerShown>>
  BY <1>1, <1>7 DEF MarkerInv
<1>8. \/ \E t \in Tables, r \in Recs, op \in {"u", "d"} : Change(t, r, op)
      \/ StartCob \/ FinishCob \/ UNCHANGED <<log, day, cobRunning>>
  BY DEF StreamNext, SourceNext, SparkStep, Publish, RestartConnector,
     PlanBatch, ResumeBatch, SkipTable, MergeTable, DeleteTable, UpsertProgress, CommitBatch,
     CrashDriver, sourceVars, streamVars
<1> QED BY <1>3, <1>4, <1>5, <1>6, <1>7, <1>8

LEMMA InitMarker ==
  ASSUME StreamInit
  PROVE  MarkerInv /\ Marker!MarkerInit
<1>1. log = <<>> /\ bronze[BATCH][CobRecid] = 0
  BY MarkerIsTopic DEF StreamInit
<1>2. MarkerInv
  BY <1>1, InitSink DEF MarkerInv, BatchHoldsWrites
<1>3. MarkerWrites = 0 /\ MarkerShown = 0
  BY <1>1 DEF StreamInit, MarkerWrites, MarkerShown
<1> QED BY <1>2, <1>3 DEF Marker!MarkerInit

(* The stream implements CobMarker, with any overlap of transactions, any    *)
(* skew of the topics' end offsets and any number of crashes of the driver.  *)
THEOREM MarkerIsImplemented ==
  ASSUME MaxRestart = 0
  PROVE  StreamSpec => ImplementsMarker
<1>1. MarkerInv /\ StreamShape' /\ [StreamNext]_streamVars
        => MarkerInv' /\ [Marker!MarkerNext]_<<MarkerWrites, MarkerShown>>
  BY NextMarker
<1>2. StreamInit => MarkerInv /\ Marker!MarkerInit
  BY InitMarker
<1> QED BY <1>1, <1>2, StreamShapeInvariant, PTL
        DEF StreamSpec, ImplementsMarker, Marker!MarkerSpec, Marker!markerVars
=============================================================================
