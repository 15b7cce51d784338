--------------------------- MODULE SftpHoldProofs ---------------------------
(***************************************************************************)
(* Proofs about SftpHold.  For every value of the constants: a sealed      *)
(* report has the files of its manifest, its partition changes only under  *)
(* a pending row, a run nobody forced repeats no sealed day, and the DAG   *)
(* implements SealLedger.  When the connector publishes nothing twice: the *)
(* two sensors leave no announced file behind but those of the micro-batch *)
(* in flight.                                                              *)
(***************************************************************************)
EXTENDS SftpHold, CdcStreamProofs, FiniteSetTheorems

-----------------------------------------------------------------------------
(* Types.                                                                   *)

FileSet   == {S \in SUBSET Nat : IsFiniteSet(S)}
HoldSteps == {"over", "manifest", "open", "fetch", "parse", "seal"}
HoldRun   == [pc : {"idle", "detect", "lag", "reports"}, d : Nat, forced : BOOLEAN,
              step : [Reports -> HoldSteps]]
HoldRow   == [status : {"none", "pending", "sealed"}, l_cob : {Null}, snapshot : {Null},
              expected : Nat \cup {Null}, actual : Nat \cup {Null}]

HoldTypeOK ==
  /\ ctl \in [Days -> [Reports -> HoldRow]]
  /\ hold \in HoldRun
  /\ manifest \in [Days -> [Reports -> FileSet]]
  /\ raw \in [Days -> [Reports -> FileSet]]
  /\ partition \in [Days -> [Reports -> FileSet]]

(* A run past its sensor works on a day that T24 closed.                     *)
OnClosedDay == hold.pc \in {"lag", "reports"} => hold.d \in Days

(* Between its manifest and its seal, a report's row is pending.             *)
RowIsOpen ==
  hold.pc = "reports" => \A p \in Reports :
    hold.step[p] \in {"fetch", "parse", "seal"} => ctl[hold.d][p].status = "pending"

(* What the manifest lists is fetched, then parsed.                          *)
ManifestIsFetched ==
  hold.pc = "reports" => \A p \in Reports :
    /\ hold.step[p] = "parse" => manifest[hold.d][p] \subseteq raw[hold.d][p]
    /\ hold.step[p] = "seal"  => manifest[hold.d][p] \subseteq partition[hold.d][p]

(* A run nobody forced waits for the lag of a day with an unsealed report.   *)
WaitsUnsealed ==
  (hold.pc = "lag" /\ ~hold.forced) => ~AllSealed(ctl, hold.d, Reports)

HoldInv == /\ StreamShape /\ HoldTypeOK /\ OnClosedDay
           /\ RowIsOpen /\ ManifestIsFetched /\ WaitsUnsealed

-----------------------------------------------------------------------------
(* Facts about the operators.                                               *)

LEMMA HoldOpenRow ==
  ASSUME HoldTypeOK, NEW d \in Days, NEW p \in Reports, ctl' = OpenPending(ctl, d, p, Null)
  PROVE  /\ ctl' \in [Days -> [Reports -> HoldRow]]
         /\ ctl'[d][p].status = "pending"
         /\ \A e \in Days, q \in Reports : <<e, q>> # <<d, p>> => ctl'[e][q] = ctl[e][q]
<1> DEFINE row == [ctl[d][p] EXCEPT !.status = "pending",
                                    !.l_cob = COALESCE(Null, ctl[d][p].l_cob)]
<1>1. row \in HoldRow /\ row.status = "pending"
  <2>1. ctl[d][p] \in HoldRow
    BY DEF HoldTypeOK
  <2>2. COALESCE(Null, ctl[d][p].l_cob) = ctl[d][p].l_cob
    BY DEF COALESCE
  <2> QED BY <2>1, <2>2 DEF HoldRow
<1>2. ctl' = [ctl EXCEPT ![d][p] = row]
  BY DEF OpenPending
<1> HIDE DEF row
<1> QED BY <1>1, <1>2 DEF HoldTypeOK

LEMMA HoldSealRow ==
  ASSUME HoldTypeOK, NEW d \in Days, NEW p \in Reports, NEW m \in Nat, NEW n \in Nat,
         ctl' = Seal(ctl, d, p, Null, m, n)
  PROVE  /\ ctl' \in [Days -> [Reports -> HoldRow]]
         /\ ctl'[d][p].status = "sealed"
         /\ \A e \in Days, q \in Reports : <<e, q>> # <<d, p>> => ctl'[e][q] = ctl[e][q]
<1> DEFINE row == [ctl[d][p] EXCEPT !.status = "sealed",
                                    !.snapshot = COALESCE(Null, ctl[d][p].snapshot),
                                    !.expected = COALESCE(m, ctl[d][p].expected),
                                    !.actual = COALESCE(n, ctl[d][p].actual)]
<1>1. row \in HoldRow /\ row.status = "sealed"
  <2>1. ctl[d][p] \in HoldRow
    BY DEF HoldTypeOK
  <2>2. COALESCE(Null, ctl[d][p].snapshot) = ctl[d][p].snapshot
    BY DEF COALESCE
  <2>3. ctl[d][p].expected \in Nat \cup {Null} /\ ctl[d][p].actual \in Nat \cup {Null}
    BY <2>1 DEF HoldRow
  <2>4. /\ COALESCE(m, ctl[d][p].expected) \in Nat \cup {Null}
        /\ COALESCE(n, ctl[d][p].actual) \in Nat \cup {Null}
    BY <2>3 DEF COALESCE
  <2> QED BY <2>1, <2>2, <2>4 DEF HoldRow
<1>2. ctl' = [ctl EXCEPT ![d][p] = row]
  BY DEF Seal
<1> HIDE DEF row
<1> QED BY <1>1, <1>2 DEF HoldTypeOK

(* One report goes to step s, the others stay where they are.                *)
ReportMoves(p, s) ==
  /\ hold' \in HoldRun
  /\ hold'.pc = hold.pc /\ hold'.d = hold.d /\ hold'.forced = hold.forced
  /\ hold'.step[p] = s
  /\ \A q \in Reports \ {p} : hold'.step[q] = hold.step[q]

LEMMA ToMoves ==
  ASSUME HoldTypeOK, NEW p \in Reports, NEW s \in HoldSteps, To(p, s)
  PROVE  ReportMoves(p, s)
<1>1. hold' = [hold EXCEPT !.step[p] = s] /\ hold \in HoldRun
  BY DEF To, HoldTypeOK
<1> QED BY <1>1 DEF HoldRun, ReportMoves

(* One cell of a table of file sets is written.                              *)
LEMMA FilesWritten ==
  ASSUME NEW f \in [Days -> [Reports -> FileSet]], NEW d \in Days, NEW p \in Reports,
         NEW S \in FileSet, NEW g, g = [f EXCEPT ![d][p] = S]
  PROVE  /\ g \in [Days -> [Reports -> FileSet]] /\ g[d][p] = S
         /\ \A e \in Days, q \in Reports : <<e, q>> # <<d, p>> => g[e][q] = f[e][q]
OBVIOUS

(* The manifest lists events that are in bronze.                             *)
LEMMA ListedFinite ==
  ASSUME StreamShape, NEW d, NEW p
  PROVE  Listed(d, p) \in FileSet
<1>1. HOLD \in Topics /\ Len(log) \in Nat
  BY HoldAssumption, Numbers DEF Topics
<1>2. Listed(d, p) \subseteq 0..Len(log)
  BY <1>1, Numbers DEF Listed
<1>3. IsFiniteSet(0..Len(log))
  BY <1>1, FS_Interval
<1>4. IsFiniteSet(Listed(d, p))
  BY <1>2, <1>3, FS_Subset
<1> QED BY <1>1, <1>2, <1>4 DEF FileSet

(* An event that closes a day names one of Days.                             *)
LEMMA MarkerNamesDay ==
  ASSUME StreamShape, NEW m \in DOMAIN log, log[m].cob = "done"
  PROVE  log[m].day \in Days /\ log[m].day < day
<1>1. log[m] \in Event
  BY DEF StreamShape, StreamTypeOK
<1>2. log[m].day \in Nat /\ day \in Nat /\ MaxDay \in Nat
  BY <1>1, ConstantsAssumption DEF Event, StreamShape, StreamTypeOK
<1>3. log[m].day >= 1 /\ log[m].day < day /\ day <= MaxDay + 1
  BY DEF StreamShape, MarkersCloseDays
<1> QED BY <1>2, <1>3 DEF Days

LEMMA MarkerRowIsEvent ==
  ASSUME StreamShape, MarkerRow # 0
  PROVE  MarkerRow \in DOMAIN log /\ MarkerRow \in 1..Len(log)
<1>1. BATCH \in Topics /\ CobRecid \in Recs
  BY ConstantsAssumption DEF Topics
<1> QED BY <1>1, Numbers DEF MarkerRow

LEMMA IdleRun == Idle \in HoldRun
BY DEF Idle, HoldRun, HoldSteps

-----------------------------------------------------------------------------
(* Every step keeps HoldInv.                                                *)

LEMMA HoldInitInv ==
  ASSUME Init PROVE HoldInv
<1>1. StreamShape
  BY StreamInitShape DEF Init
<1>2. NoRow \in HoldRow /\ {} \in FileSet
  BY FS_EmptySet DEF NoRow, HoldRow, FileSet
<1>3. HoldTypeOK
  BY <1>2, IdleRun DEF Init, HoldTypeOK, NoFiles
<1>4. hold.pc = "idle"
  BY DEF Init, Idle
<1> QED BY <1>1, <1>3, <1>4
        DEF HoldInv, OnClosedDay, RowIsOpen, ManifestIsFetched, WaitsUnsealed

LEMMA HoldFrame ==
  ASSUME HoldInv, [StreamNext]_streamVars, UNCHANGED <<ctl, hold, files>>
  PROVE  HoldInv'
<1>1. StreamShape'
  BY StreamNextShape DEF HoldInv
<1>2. UNCHANGED <<ctl, hold, manifest, raw, partition>>
  BY DEF files
<1> QED BY <1>1, <1>2 DEF HoldInv, HoldTypeOK, OnClosedDay, RowIsOpen, ManifestIsFetched,
                          WaitsUnsealed, AllSealed, SealedRows

(* A step of the run itself: only hold changes, and no report is under way.  *)
LEMMA RunStepInv ==
  ASSUME HoldInv, UNCHANGED <<streamVars, ctl, files>>, hold' \in HoldRun,
         hold'.pc \in {"lag", "reports"} => hold'.d \in Days,
         hold'.pc = "reports" => \A p \in Reports : hold'.step[p] \in {"over", "manifest"},
         (hold'.pc = "lag" /\ ~hold'.forced) => ~AllSealed(ctl, hold'.d, Reports)
  PROVE  HoldInv'
<1>1. StreamShape'
  BY StreamIdle DEF HoldInv
<1>2. UNCHANGED <<ctl, manifest, raw, partition>>
  BY DEF files
<1>3. HoldTypeOK'
  BY <1>2 DEF HoldInv, HoldTypeOK
<1>4. OnClosedDay' /\ RowIsOpen' /\ ManifestIsFetched'
  BY DEF OnClosedDay, RowIsOpen, ManifestIsFetched
<1>5. WaitsUnsealed'
  BY <1>2 DEF WaitsUnsealed, AllSealed, SealedRows
<1> QED BY <1>1, <1>3, <1>4, <1>5 DEF HoldInv

LEMMA TriggerInv ==
  ASSUME HoldInv, Trigger \/ FailSensor \/ EndRun
  PROVE  HoldInv'
<1>1. UNCHANGED <<streamVars, ctl, files>>
  BY DEF Trigger, FailSensor, EndRun
<1>2. hold' = [Idle EXCEPT !.pc = "detect"] \/ hold' = Idle
  BY DEF Trigger, FailSensor, EndRun
<1>3. hold' \in HoldRun /\ hold'.pc \in {"idle", "detect"}
  BY <1>2, IdleRun DEF HoldRun, Idle
<1> QED BY <1>1, <1>3, RunStepInv

LEMMA TriggerForcedInv ==
  ASSUME HoldInv, NEW d \in Days, TriggerForced(d)
  PROVE  HoldInv'
<1>1. UNCHANGED <<streamVars, ctl, files>>
  BY DEF TriggerForced
<1>2. hold' = [Idle EXCEPT !.pc = "lag", !.d = d, !.forced = TRUE] /\ d \in Nat
  BY DEF TriggerForced, Days
<1>3. hold' \in HoldRun /\ hold'.pc = "lag" /\ hold'.d = d /\ hold'.forced
  BY <1>2, IdleRun DEF HoldRun, Idle
<1> QED BY <1>1, <1>3, RunStepInv

LEMMA DetectInv ==
  ASSUME HoldInv, Detect
  PROVE  HoldInv'
<1>1. /\ UNCHANGED <<streamVars, ctl, files>> /\ CobDone
      /\ hold' = [hold EXCEPT !.pc = "lag", !.d = log[MarkerRow].day]
      /\ ~AllSealed(ctl, log[MarkerRow].day, Reports)
  BY DEF Detect
<1>2. MarkerRow \in DOMAIN log /\ log[MarkerRow].cob = "done"
  BY <1>1, MarkerRowIsEvent DEF CobDone, HoldInv
<1>3. log[MarkerRow].day \in Days /\ log[MarkerRow].day \in Nat
  BY <1>2, MarkerNamesDay DEF HoldInv, Days
<1>4. /\ hold' \in HoldRun /\ hold'.pc = "lag" /\ hold'.d = log[MarkerRow].day
  BY <1>1, <1>3 DEF HoldInv, HoldTypeOK, HoldRun
<1> QED BY <1>1, <1>3, <1>4, RunStepInv

LEMMA CaughtUpInv ==
  ASSUME HoldInv, CaughtUp
  PROVE  HoldInv'
<1>1. /\ UNCHANGED <<streamVars, ctl, files>> /\ hold.pc = "lag"
      /\ hold' = [hold EXCEPT !.pc = "reports", !.step = [p \in Reports |-> "manifest"]]
  BY DEF CaughtUp
<1>2. /\ hold' \in HoldRun /\ hold'.pc = "reports" /\ hold'.d = hold.d
      /\ \A p \in Reports : hold'.step[p] = "manifest"
  BY <1>1 DEF HoldInv, HoldTypeOK, HoldRun, HoldSteps
<1> QED BY <1>1, <1>2, RunStepInv DEF HoldInv, OnClosedDay

(* A step of one report: what it writes is in the row of its own day, and    *)
(* what it promises the next step holds.                                     *)
LEMMA ReportStepInv ==
  ASSUME HoldInv, NEW p \in Reports, NEW s \in HoldSteps, hold.pc = "reports",
         ReportMoves(p, s), UNCHANGED streamVars, HoldTypeOK',
         \A q \in Reports \ {p} :
           /\ ctl'[hold.d][q] = ctl[hold.d][q] /\ manifest'[hold.d][q] = manifest[hold.d][q]
           /\ raw'[hold.d][q] = raw[hold.d][q] /\ partition'[hold.d][q] = partition[hold.d][q],
         s \in {"fetch", "parse", "seal"} => ctl'[hold.d][p].status = "pending",
         s = "parse" => manifest'[hold.d][p] \subseteq raw'[hold.d][p],
         s = "seal"  => manifest'[hold.d][p] \subseteq partition'[hold.d][p]
  PROVE  HoldInv'
<1>1. StreamShape'
  BY StreamIdle DEF HoldInv
<1>2. hold'.pc = "reports" /\ hold'.d = hold.d /\ hold'.step[p] = s
  BY DEF ReportMoves
<1>3. \A q \in Reports \ {p} : hold'.step[q] = hold.step[q]
  BY DEF ReportMoves
<1>4. OnClosedDay' /\ WaitsUnsealed'
  BY <1>2 DEF HoldInv, OnClosedDay, WaitsUnsealed
<1>5. RowIsOpen'
  <2> SUFFICES ASSUME NEW q \in Reports, hold'.step[q] \in {"fetch", "parse", "seal"}
               PROVE  ctl'[hold.d][q].status = "pending"
    BY <1>2 DEF RowIsOpen
  <2>1. CASE q = p
    BY <1>2, <2>1
  <2>2. CASE q # p
    BY <1>3, <2>2 DEF HoldInv, RowIsOpen
  <2> QED BY <2>1, <2>2
<1>6. ManifestIsFetched'
  <2> SUFFICES ASSUME NEW q \in Reports
               PROVE  /\ hold'.step[q] = "parse" => manifest'[hold.d][q] \subseteq raw'[hold.d][q]
                      /\ hold'.step[q] = "seal"
                           => manifest'[hold.d][q] \subseteq partition'[hold.d][q]
    BY <1>2 DEF ManifestIsFetched
  <2>1. CASE q = p
    BY <1>2, <2>1
  <2>2. CASE q # p
    BY <1>3, <2>2 DEF HoldInv, ManifestIsFetched
  <2> QED BY <2>1, <2>2
<1> QED BY <1>1, <1>4, <1>5, <1>6 DEF HoldInv

LEMMA HoldTypes ==
  ASSUME HoldInv, NEW p \in Reports, hold.pc = "reports"
  PROVE  /\ hold.d \in Days
         /\ manifest[hold.d][p] \in FileSet /\ raw[hold.d][p] \in FileSet
         /\ partition[hold.d][p] \in FileSet
BY DEF HoldInv, OnClosedDay, HoldTypeOK

LEMMA WriteManifestInv ==
  ASSUME HoldInv, NEW p \in Reports, WriteManifest(p)
  PROVE  HoldInv'
<1>1. /\ hold.pc = "reports" /\ To(p, "open")
      /\ manifest' = [manifest EXCEPT ![hold.d][p] = Listed(hold.d, p)]
      /\ UNCHANGED <<streamVars, ctl, raw, partition>>
  BY DEF WriteManifest, At
<1>2. ReportMoves(p, "open")
  BY <1>1, ToMoves DEF HoldInv, HoldSteps
<1>3. hold.d \in Days /\ Listed(hold.d, p) \in FileSet
  BY <1>1, HoldTypes, ListedFinite DEF HoldInv
<1>4. /\ manifest' \in [Days -> [Reports -> FileSet]]
      /\ \A q \in Reports \ {p} : manifest'[hold.d][q] = manifest[hold.d][q]
  BY <1>1, <1>3, FilesWritten DEF HoldInv, HoldTypeOK
<1>5. HoldTypeOK'
  BY <1>1, <1>2, <1>4 DEF HoldInv, HoldTypeOK, ReportMoves
<1>6. "open" \in HoldSteps
  BY DEF HoldSteps
<1> QED BY <1>1, <1>2, <1>4, <1>5, <1>6, ReportStepInv

LEMMA OpenReportInv ==
  ASSUME HoldInv, NEW p \in Reports, OpenReport(p)
  PROVE  HoldInv'
<1>1. /\ hold.pc = "reports" /\ To(p, "fetch") /\ ctl' = OpenPending(ctl, hold.d, p, Null)
      /\ UNCHANGED <<streamVars, manifest, raw, partition>>
  BY DEF OpenReport, At, files
<1>2. ReportMoves(p, "fetch")
  BY <1>1, ToMoves DEF HoldInv, HoldSteps
<1>3. hold.d \in Days
  BY <1>1, HoldTypes
<1>4. /\ ctl' \in [Days -> [Reports -> HoldRow]] /\ ctl'[hold.d][p].status = "pending"
      /\ \A q \in Reports \ {p} : ctl'[hold.d][q] = ctl[hold.d][q]
  BY <1>1, <1>3, HoldOpenRow DEF HoldInv
<1>5. HoldTypeOK'
  BY <1>1, <1>2, <1>4 DEF HoldInv, HoldTypeOK, ReportMoves
<1>6. "fetch" \in HoldSteps
  BY DEF HoldSteps
<1> QED BY <1>1, <1>2, <1>4, <1>5, <1>6, ReportStepInv

LEMMA FetchInv ==
  ASSUME HoldInv, NEW p \in Reports, Fetch(p)
  PROVE  HoldInv'
<1> DEFINE fetched == raw[hold.d][p] \cup manifest[hold.d][p]
<1>1. /\ hold.pc = "reports" /\ hold.step[p] = "fetch" /\ To(p, "parse")
      /\ raw' = [raw EXCEPT ![hold.d][p] = fetched]
      /\ UNCHANGED <<streamVars, ctl, manifest, partition>>
  BY DEF Fetch, At
<1>2. ReportMoves(p, "parse")
  BY <1>1, ToMoves DEF HoldInv, HoldSteps
<1>3. hold.d \in Days /\ fetched \in FileSet
  BY <1>1, HoldTypes, FS_Union DEF FileSet
<1> HIDE DEF fetched
<1>4. /\ raw' \in [Days -> [Reports -> FileSet]] /\ raw'[hold.d][p] = fetched
      /\ \A q \in Reports \ {p} : raw'[hold.d][q] = raw[hold.d][q]
  BY <1>1, <1>3, FilesWritten DEF HoldInv, HoldTypeOK
<1>5. HoldTypeOK'
  BY <1>1, <1>2, <1>4 DEF HoldInv, HoldTypeOK, ReportMoves
<1>6. "parse" \in HoldSteps /\ ctl'[hold.d][p].status = "pending"
  BY <1>1 DEF HoldSteps, HoldInv, RowIsOpen
<1>7. manifest'[hold.d][p] \subseteq raw'[hold.d][p]
  BY <1>1, <1>4 DEF fetched
<1> QED BY <1>1, <1>2, <1>4, <1>5, <1>6, <1>7, ReportStepInv

LEMMA ParseInv ==
  ASSUME HoldInv, NEW p \in Reports, Parse(p)
  PROVE  HoldInv'
<1>1. /\ hold.pc = "reports" /\ hold.step[p] = "parse"
      /\ UNCHANGED <<streamVars, ctl, manifest, raw>>
  BY DEF Parse, At
<1>2. /\ hold.d \in Days /\ raw[hold.d][p] \in FileSet
      /\ "over" \in HoldSteps /\ "seal" \in HoldSteps
  BY <1>1, HoldTypes DEF HoldSteps
<1>3. CASE raw[hold.d][p] = {}
  <2>1. To(p, "over") /\ partition' = partition
    BY <1>3 DEF Parse
  <2>2. ReportMoves(p, "over")
    BY <1>2, <2>1, ToMoves DEF HoldInv
  <2>3. HoldTypeOK'
    BY <1>1, <2>1, <2>2 DEF HoldInv, HoldTypeOK, ReportMoves
  <2> QED BY <1>1, <1>2, <2>1, <2>2, <2>3, ReportStepInv
<1>4. CASE raw[hold.d][p] # {}
  <2>1. To(p, "seal") /\ partition' = [partition EXCEPT ![hold.d][p] = raw[hold.d][p]]
    BY <1>4 DEF Parse
  <2>2. ReportMoves(p, "seal")
    BY <1>2, <2>1, ToMoves DEF HoldInv
  <2>3. /\ partition' \in [Days -> [Reports -> FileSet]]
        /\ partition'[hold.d][p] = raw[hold.d][p]
        /\ \A q \in Reports \ {p} : partition'[hold.d][q] = partition[hold.d][q]
    BY <1>2, <2>1, FilesWritten DEF HoldInv, HoldTypeOK
  <2>4. HoldTypeOK'
    BY <1>1, <2>2, <2>3 DEF HoldInv, HoldTypeOK, ReportMoves
  <2>5. /\ ctl'[hold.d][p].status = "pending"
        /\ manifest'[hold.d][p] \subseteq partition'[hold.d][p]
    BY <1>1, <2>3 DEF HoldInv, RowIsOpen, ManifestIsFetched
  <2> QED BY <1>1, <1>2, <2>2, <2>3, <2>4, <2>5, ReportStepInv
<1> QED BY <1>3, <1>4

LEMMA SealReportInv ==
  ASSUME HoldInv, NEW p \in Reports, SealReport(p)
  PROVE  /\ HoldInv'
         /\ manifest[hold.d][p] \subseteq partition[hold.d][p] /\ hold.d \in Days
         /\ \A e \in Days, q \in Reports : <<e, q>> # <<hold.d, p>> => ctl'[e][q] = ctl[e][q]
<1> DEFINE m == Cardinality(manifest[hold.d][p])
           n == Cardinality(partition[hold.d][p])
<1>1. /\ hold.pc = "reports" /\ hold.step[p] = "seal" /\ To(p, "over")
      /\ ctl' = Seal(ctl, hold.d, p, Null, m, n)
      /\ UNCHANGED <<streamVars, manifest, raw, partition>>
  BY DEF SealReport, At, files
<1>2. ReportMoves(p, "over")
  BY <1>1, ToMoves DEF HoldInv, HoldSteps
<1>3. hold.d \in Days /\ m \in Nat /\ n \in Nat
  BY <1>1, HoldTypes, FS_CardinalityType DEF FileSet
<1> HIDE DEF m, n
<1>4. /\ ctl' \in [Days -> [Reports -> HoldRow]]
      /\ \A e \in Days, q \in Reports : <<e, q>> # <<hold.d, p>> => ctl'[e][q] = ctl[e][q]
  BY <1>1, <1>3, HoldSealRow DEF HoldInv
<1>5. HoldTypeOK'
  BY <1>1, <1>2, <1>4 DEF HoldInv, HoldTypeOK, ReportMoves
<1>6. "over" \in HoldSteps
  BY DEF HoldSteps
<1>7. HoldInv'
  BY <1>1, <1>2, <1>3, <1>4, <1>5, <1>6, ReportStepInv
<1> QED BY <1>1, <1>3, <1>4, <1>7 DEF HoldInv, ManifestIsFetched

LEMMA FailTaskInv ==
  ASSUME HoldInv, NEW p \in Reports, FailTask(p)
  PROVE  HoldInv'
<1>1. /\ hold.pc = "reports" /\ To(p, "over") /\ "over" \in HoldSteps
      /\ UNCHANGED <<streamVars, ctl, manifest, raw, partition>>
  BY DEF FailTask, files, HoldSteps
<1>2. ReportMoves(p, "over")
  BY <1>1, ToMoves DEF HoldInv
<1>3. HoldTypeOK'
  BY <1>1, <1>2 DEF HoldInv, HoldTypeOK, ReportMoves
<1> QED BY <1>1, <1>2, <1>3, ReportStepInv

LEMMA HoldNextInv ==
  ASSUME HoldInv, [Next]_vars
  PROVE  HoldInv'
<1>1. CASE StreamNext /\ UNCHANGED holdVars
  BY <1>1, HoldFrame DEF holdVars
<1>2. CASE UNCHANGED vars
  BY <1>2, HoldFrame DEF vars, holdVars
<1>3. CASE HoldStep
  BY <1>3, DetectInv, CaughtUpInv, TriggerInv, WriteManifestInv, OpenReportInv, FetchInv,
     ParseInv, SealReportInv DEF HoldStep, ReportStep
<1> QED BY <1>1, <1>2, <1>3, TriggerInv, TriggerForcedInv, FailTaskInv DEF Next

-----------------------------------------------------------------------------
(* The theorems that hold for every stream.                                 *)

LEMMA HoldInvariant == Spec => []HoldInv
BY HoldInitInv, HoldNextInv, PTL DEF Spec

(* reconcile_seal compares no counts, and need not: whatever failed, was     *)
(* forced or repeated, a report that gets sealed has every file of its       *)
(* manifest in its partition.                                                *)
THEOREM SealedHasManifest == Spec => SealCoversManifest
<1>1. ASSUME HoldInv, [Next]_vars, NEW d \in Days, NEW p \in Reports,
             ~Sealed(d, p), ctl'[d][p].status = "sealed"
      PROVE  manifest[d][p] \subseteq partition[d][p]
  <2>1. CASE ctl' = ctl
    BY <1>1, <2>1 DEF Sealed
  <2>2. ASSUME NEW q \in Reports, SealReport(q)
        PROVE  manifest[d][p] \subseteq partition[d][p]
    <3>1. CASE <<d, p>> = <<hold.d, q>>
      BY <1>1, <2>2, <3>1, SealReportInv
    <3>2. CASE <<d, p>> # <<hold.d, q>>
      BY <1>1, <2>2, <3>2, SealReportInv DEF Sealed
    <3> QED BY <3>1, <3>2
  <2>3. ASSUME NEW q \in Reports, OpenReport(q)
        PROVE  FALSE
    <3>1. hold.pc = "reports" /\ ctl' = OpenPending(ctl, hold.d, q, Null)
      BY <2>3 DEF OpenReport, At
    <3>2. /\ ctl'[hold.d][q].status = "pending"
          /\ \A e \in Days, r \in Reports : <<e, r>> # <<hold.d, q>> => ctl'[e][r] = ctl[e][r]
      BY <1>1, <3>1, HoldTypes, HoldOpenRow DEF HoldInv
    <3> QED BY <1>1, <3>2 DEF Sealed
  <2> QED BY <1>1, <2>1, <2>2, <2>3 DEF Next, HoldStep, ReportStep, Trigger, FailSensor,
          TriggerForced, FailTask, Detect, CaughtUp, EndRun, WriteManifest, Fetch, Parse,
          holdVars, vars
<1>2. HoldInv /\ [Next]_vars =>
        \A d \in Days, p \in Reports :
          (~Sealed(d, p) /\ ctl'[d][p].status = "sealed")
            => manifest[d][p] \subseteq partition[d][p]
  BY <1>1
<1> QED BY <1>2, HoldInvariant, PTL DEF Spec, SealCoversManifest

(* The rows of a report change only between open_pending and seal.           *)
THEOREM ReportsChangeUnderPending == Spec => ChangesOnlyPending
<1>1. ASSUME HoldInv, [Next]_vars, NEW d \in Days, NEW p \in Reports,
             partition'[d][p] # partition[d][p]
      PROVE  ctl[d][p].status = "pending"
  <2>1. CASE partition' = partition
    BY <1>1, <2>1
  <2>2. ASSUME NEW q \in Reports, Parse(q)
        PROVE  ctl[d][p].status = "pending"
    <3>1. /\ hold.pc = "reports" /\ hold.step[q] = "parse"
          /\ partition' = partition \/ partition' = [partition EXCEPT ![hold.d][q] = raw[hold.d][q]]
      BY <2>2 DEF Parse, At
    <3>2. hold.d \in Days /\ raw[hold.d][q] \in FileSet
      BY <1>1, <3>1, HoldTypes
    <3>3. <<d, p>> = <<hold.d, q>>
      BY <1>1, <3>1, <3>2, FilesWritten DEF HoldInv, HoldTypeOK
    <3> QED BY <1>1, <3>1, <3>3 DEF HoldInv, RowIsOpen
  <2> QED BY <1>1, <2>1, <2>2 DEF Next, HoldStep, ReportStep, Trigger, FailSensor, SealReport,
          TriggerForced, FailTask, Detect, CaughtUp, EndRun, WriteManifest, OpenReport, Fetch,
          files, holdVars, vars
<1>2. HoldInv /\ [Next]_vars =>
        \A d \in Days, p \in Reports :
          partition'[d][p] # partition[d][p] => ctl[d][p].status = "pending"
  BY <1>1
<1> QED BY <1>2, HoldInvariant, PTL DEF Spec, ChangesOnlyPending

(* The 0 a COB leaves in the marker starts no second run of a sealed day.    *)
THEOREM SealedDayRests == Spec => SealedDayIsNotRepeated
<1>1. HoldInv /\ [Next]_vars =>
        ((hold.pc = "lag" /\ hold'.pc = "reports" /\ ~hold.forced)
           => ~AllSealed(ctl, hold.d, Reports))
  BY DEF HoldInv, WaitsUnsealed
<1> QED BY <1>1, HoldInvariant, PTL DEF Spec, SealedDayIsNotRepeated

-----------------------------------------------------------------------------
(* What the two sensors are worth, when the stream is Ordered.               *)

(* Whatever T24 writes after it closed a day carries a later day.            *)
EventsDated ==
  \A m, i \in DOMAIN log :
    (log[m].cob = "done" /\ m < i) => log[m].day < log[i].day

(* The close of the run's day is published.                                  *)
RunMarker ==
  hold.pc \in {"lag", "reports"} =>
    \E m \in 1..pos : log[m].cob = "done" /\ log[m].day = hold.d

(* Past the lag sensor, every file of the run's day is in a planned batch.   *)
DayIsPlanned ==
  hold.pc = "reports" => \A i \in DOMAIN log :
    (log[i].tab = HOLD /\ log[i].day = hold.d) => \E k \in 1..wal[HOLD] : topic[HOLD][k] = i

SensorInv == HoldInv /\ SinkInv /\ EventsDated /\ RunMarker /\ DayIsPlanned

(* A new event is dated by the day T24 is in.                                *)
LEMMA NewEventIsToday ==
  ASSUME StreamShape, [StreamNext]_streamVars
  PROVE  /\ DOMAIN log \subseteq DOMAIN log' /\ \A i \in DOMAIN log : log'[i] = log[i]
         /\ DOMAIN log = 1..Len(log) /\ Len(log) \in Nat
         /\ DOMAIN log' = 1..Len(log) \/ DOMAIN log' = 1..(Len(log) + 1)
         /\ \A i \in DOMAIN log' : i \in DOMAIN log \/ log'[i].day = day
<1>1. DOMAIN log = 1..Len(log) /\ Len(log) \in Nat
  BY Numbers
<1>2. ASSUME NEW t \in Topics, NEW r \in Recs, NEW op \in {"u", "d"},
             NEW cob \in {"none", "running", "done"}, Logged(t, r, op, cob)
      PROVE  /\ DOMAIN log' = 1..(Len(log) + 1) /\ \A i \in DOMAIN log : log'[i] = log[i]
             /\ log'[Len(log) + 1].day = day
  BY <1>1, <1>2, LoggedExtends
<1>3. ASSUME NEW t \in Tables, NEW r \in Recs, NEW op \in {"u", "d"}, Change(t, r, op)
      PROVE  t \in Topics /\ Logged(t, r, op, "none")
  BY <1>3 DEF Change, Topics
<1>4. BATCH \in Topics /\ CobRecid \in Recs
  BY ConstantsAssumption DEF Topics
<1>5. CASE SourceNext
  <2>1. PICK t \in Topics, r \in Recs, op \in {"u", "d"}, cob \in {"none", "running", "done"} :
          Logged(t, r, op, cob)
    BY <1>3, <1>4, <1>5 DEF SourceNext, StartCob, FinishCob
  <2>2. /\ DOMAIN log' = 1..(Len(log) + 1) /\ \A i \in DOMAIN log : log'[i] = log[i]
        /\ log'[Len(log) + 1].day = day
    BY <1>2, <2>1
  <2>3. \A i \in 1..(Len(log) + 1) : i \in 1..Len(log) \/ i = Len(log) + 1
    BY <1>1
  <2>4. 1..Len(log) \subseteq 1..(Len(log) + 1)
    BY <1>1
  <2> QED BY <1>1, <2>2, <2>3, <2>4
<1>6. CASE UNCHANGED log
  BY <1>1, <1>6
<1>7. SourceNext \/ UNCHANGED log
  BY DEF StreamNext, SparkStep, Publish, RestartConnector, PlanBatch, ResumeBatch, SkipTable,
     MergeTable, DeleteTable, UpsertProgress, CommitBatch, CrashDriver, streamVars, sourceVars
<1> QED BY <1>5, <1>6, <1>7

LEMMA EventsStayDated ==
  ASSUME StreamShape, EventsDated, [StreamNext]_streamVars
  PROVE  EventsDated'
<1>1. /\ DOMAIN log \subseteq DOMAIN log' /\ \A i \in DOMAIN log : log'[i] = log[i]
      /\ DOMAIN log = 1..Len(log) /\ Len(log) \in Nat
      /\ DOMAIN log' = 1..Len(log) \/ DOMAIN log' = 1..(Len(log) + 1)
      /\ \A i \in DOMAIN log' : i \in DOMAIN log \/ log'[i].day = day
  BY NewEventIsToday
<1> SUFFICES ASSUME NEW m \in DOMAIN log', NEW i \in DOMAIN log', log'[m].cob = "done", m < i
             PROVE  log'[m].day < log'[i].day
  BY DEF EventsDated
<1>2. m \in DOMAIN log
  BY <1>1
<1>3. CASE i \in DOMAIN log
  BY <1>1, <1>2, <1>3 DEF EventsDated
<1>4. CASE i \notin DOMAIN log
  <2>1. log'[i].day = day /\ log'[m] = log[m]
    BY <1>1, <1>2, <1>4
  <2>2. log[m].day < day
    BY <1>2, <2>1, MarkerNamesDay
  <2> QED BY <2>1, <2>2
<1> QED BY <1>3, <1>4

(* The checkpoint and the topics only grow.                                  *)
LEMMA OffsetsForward ==
  ASSUME MaxRestart = 0, SinkInv, [StreamNext]_streamVars
  PROVE  /\ pos' \in Nat /\ pos <= pos'
         /\ \A t \in Topics :
              /\ wal'[t] \in Nat /\ wal[t] <= wal'[t]
              /\ \A k \in 1..wal[t] : topic'[t][k] = topic[t][k]
<1>1. /\ pos \in Nat /\ \A t \in Topics : wal[t] \in Nat
      /\ \A t \in Topics : \A k \in 1..wal[t] : k \in 1..Len(topic[t])
  BY Numbers DEF SinkInv
<1>2. CASE PlanBatch
  <2>1. PICK ends \in EndOffsets : wal' = ends
    BY <1>2 DEF PlanBatch
  <2>2. UNCHANGED <<pos, topic>>
    BY <1>2 DEF PlanBatch, kafkaVars
  <2> QED BY <1>1, <2>1, <2>2, EndOffsetsPlanned DEF SinkInv
<1>3. CASE Publish
  <2>1. wal' = wal
    BY <1>3 DEF Publish, sparkVars
  <2> QED BY <1>1, <1>3, <2>1, PublishAdds DEF SinkInv
<1>4. CASE UNCHANGED <<pos, wal, topic>>
  BY <1>1, <1>4
<1>5. ~RestartConnector
  BY DEF SinkInv, RestartConnector
<1> QED BY <1>2, <1>3, <1>4, <1>5 DEF StreamNext, SourceNext, SparkStep, Change, StartCob,
        FinishCob, ResumeBatch, SkipTable, MergeTable, DeleteTable, UpsertProgress, CommitBatch,
        CrashDriver, kafkaVars, sparkVars, streamVars

(* The marker that bronze shows is published.                                *)
LEMMA MarkerRowPublished ==
  ASSUME SinkInv, MarkerRow # 0
  PROVE  MarkerRow \in 1..pos
<1>1. BATCH \in Topics /\ CobRecid \in Recs
  BY ConstantsAssumption DEF Topics
<1>2. PICK k \in 1..wal[BATCH] : topic[BATCH][k] = MarkerRow
  BY <1>1 DEF SinkInv, BronzeFromTopic, MarkerRow
<1>3. k \in 1..Len(topic[BATCH]) /\ MarkerRow \in 1..Len(log)
  BY <1>1, <1>2, Numbers, MarkerRowIsEvent DEF SinkInv
<1>4. MarkerRow <= pos
  BY <1>1, <1>2, <1>3 DEF SinkInv, PublishedOnly
<1> QED BY <1>3, <1>4, Numbers DEF SinkInv

LEMMA SensorStreamInv ==
  ASSUME MaxRestart = 0, SensorInv, [StreamNext]_streamVars, hold' = hold
  PROVE  RunMarker' /\ DayIsPlanned'
<1>1. /\ DOMAIN log \subseteq DOMAIN log' /\ \A i \in DOMAIN log : log'[i] = log[i]
      /\ DOMAIN log = 1..Len(log) /\ Len(log) \in Nat
      /\ DOMAIN log' = 1..Len(log) \/ DOMAIN log' = 1..(Len(log) + 1)
  BY NewEventIsToday DEF SensorInv, SinkInv
<1>2. /\ pos' \in Nat /\ pos <= pos' /\ pos \in 0..Len(log)
      /\ \A t \in Topics :
           /\ wal[t] \in Nat /\ wal'[t] \in Nat /\ wal[t] <= wal'[t]
           /\ \A k \in 1..wal[t] : topic'[t][k] = topic[t][k]
  BY OffsetsForward, Numbers DEF SensorInv, SinkInv
<1>3. ASSUME hold.pc \in {"lag", "reports"}
      PROVE  \E m \in 1..pos : /\ m \in 1..pos' /\ m \in DOMAIN log /\ log'[m] = log[m]
                               /\ log[m].cob = "done" /\ log[m].day = hold.d
  <2>1. PICK m \in 1..pos : log[m].cob = "done" /\ log[m].day = hold.d
    BY <1>3 DEF SensorInv, RunMarker
  <2> QED BY <1>1, <1>2, <2>1
<1>4. RunMarker'
  BY <1>3 DEF RunMarker
<1>5. DayIsPlanned'
  <2> SUFFICES ASSUME hold.pc = "reports", NEW i \in DOMAIN log',
                      log'[i].tab = HOLD, log'[i].day = hold.d
               PROVE  \E k \in 1..wal'[HOLD] : topic'[HOLD][k] = i
    BY DEF DayIsPlanned
  <2>1. PICK m \in DOMAIN log : log'[m].cob = "done" /\ log'[m].day = hold.d
    BY <1>3
  <2>2. i \in DOMAIN log
    <3>1. EventsDated'
      BY EventsStayDated DEF SensorInv, SinkInv
    <3>2. ~(m < i)
      <4>1. m < i => log'[m].day < log'[i].day
        BY <1>1, <2>1, <3>1 DEF EventsDated
      <4>2. hold.d \in Nat
        BY DEF SensorInv, HoldInv, HoldTypeOK, HoldRun
      <4> QED BY <2>1, <4>1, <4>2
    <3> QED BY <1>1, <3>2
  <2>3. PICK k \in 1..wal[HOLD] : topic[HOLD][k] = i
    BY <1>1, <2>2 DEF SensorInv, DayIsPlanned
  <2>4. HOLD \in Topics
    BY HoldAssumption DEF Topics
  <2> QED BY <1>2, <2>3, <2>4
<1> QED BY <1>4, <1>5

(* Lag 0 after the close of the day: its files are in planned batches.       *)
LEMMA CaughtUpPlans ==
  ASSUME SensorInv, CaughtUp
  PROVE  \A i \in DOMAIN log :
           (log[i].tab = HOLD /\ log[i].day = hold.d) => \E k \in 1..wal[HOLD] : topic[HOLD][k] = i
<1>1. HOLD \in Topics /\ hold.pc = "lag" /\ Lag(HOLD) = 0
  BY HoldAssumption DEF CaughtUp, Topics
<1>2. /\ DOMAIN log = 1..Len(log) /\ Len(log) \in Nat /\ pos \in 0..Len(log)
      /\ Len(topic[HOLD]) \in Nat /\ wal[HOLD] \in Nat
  BY <1>1, Numbers DEF SensorInv, SinkInv
<1>3. wal[HOLD] = Len(topic[HOLD])
  BY <1>1, <1>2 DEF Lag
<1>4. PICK m \in 1..pos : log[m].cob = "done" /\ log[m].day = hold.d
  BY <1>1 DEF SensorInv, RunMarker
<1> TAKE i \in DOMAIN log
<1> HAVE log[i].tab = HOLD /\ log[i].day = hold.d
<1>5. ~(m < i)
  <2>1. m \in DOMAIN log
    BY <1>2, <1>4
  <2>2. m < i => log[m].day < log[i].day
    BY <1>4, <2>1 DEF SensorInv, EventsDated
  <2>3. hold.d \in Nat
    BY DEF SensorInv, HoldInv, HoldTypeOK, HoldRun
  <2> QED BY <1>4, <2>2, <2>3
<1>6. i \in 1..pos
  BY <1>2, <1>4, <1>5
<1>7. \E k \in 1..Len(topic[log[i].tab]) : topic[log[i].tab][k] = i
  BY <1>6 DEF SensorInv, SinkInv, AllPublished
<1> QED BY <1>3, <1>7

LEMMA SensorInitInv ==
  ASSUME Init PROVE SensorInv
<1>1. SinkInv
  BY InitSink DEF Init
<1>2. log = <<>> /\ hold.pc = "idle"
  BY DEF Init, StreamInit, Idle
<1> QED BY <1>1, <1>2, HoldInitInv DEF SensorInv, EventsDated, RunMarker, DayIsPlanned

(* The DAG moves nothing of the stream.                                      *)
LEMMA NextIsStreamStep == [Next]_vars => [StreamNext]_streamVars
BY DEF Next, HoldStep, ReportStep, Trigger, FailSensor, TriggerForced, FailTask, Detect,
       CaughtUp, EndRun, WriteManifest, OpenReport, Fetch, Parse, SealReport, vars

LEMMA SensorNextInv ==
  ASSUME MaxRestart = 0, SensorInv, [Next]_vars
  PROVE  SensorInv'
<1>1. HoldInv' /\ [StreamNext]_streamVars
  BY HoldNextInv, NextIsStreamStep DEF SensorInv
<1>2. SinkInv' /\ EventsDated'
  <2>1. StreamShape'
    BY <1>1, StreamNextShape DEF SensorInv, SinkInv
  <2> QED BY <1>1, <2>1, NextSink, EventsStayDated DEF SensorInv, SinkInv
<1>3. CASE hold' = hold
  BY <1>1, <1>2, <1>3, SensorStreamInv DEF SensorInv
<1>4. ASSUME UNCHANGED streamVars, hold'.pc = hold.pc, hold'.d = hold.d
      PROVE  RunMarker' /\ DayIsPlanned'
  <2>1. UNCHANGED <<log, pos, wal, topic>>
    BY <1>4 DEF streamVars
  <2> QED BY <1>4, <2>1 DEF SensorInv, RunMarker, DayIsPlanned
<1>5. ASSUME NEW m \in 1..pos, log[m].cob = "done", UNCHANGED streamVars,
             hold'.pc = "lag", hold'.d = log[m].day
      PROVE  RunMarker' /\ DayIsPlanned'
  <2>1. UNCHANGED <<log, pos>>
    BY <1>5 DEF streamVars
  <2> QED BY <1>5, <2>1 DEF RunMarker, DayIsPlanned
<1>6. ASSUME hold'.pc \in {"idle", "detect"}
      PROVE  RunMarker' /\ DayIsPlanned'
  BY <1>6 DEF RunMarker, DayIsPlanned
<1>7. hold \in HoldRun /\ pos \in Nat
  BY Numbers DEF SensorInv, HoldInv, HoldTypeOK, SinkInv
<1>8. CASE Trigger \/ FailSensor \/ EndRun
  <2>1. hold'.pc \in {"idle", "detect"}
    BY <1>8 DEF Trigger, FailSensor, EndRun, Idle
  <2> QED BY <1>1, <1>2, <1>6, <2>1 DEF SensorInv
<1>9. ASSUME NEW d \in Days, TriggerForced(d)
      PROVE  SensorInv'
  <2>1. /\ MarkerRow # 0 /\ UNCHANGED streamVars
        /\ hold' = [Idle EXCEPT !.pc = "lag", !.d = d, !.forced = TRUE]
    BY <1>9 DEF TriggerForced
  <2>2. PICK m \in 1..MarkerRow : log[m].cob = "done" /\ log[m].day = d
    BY <1>9 DEF TriggerForced
  <2>3. m \in 1..pos
    BY <1>7, <2>1, MarkerRowPublished DEF SensorInv
  <2>4. hold'.pc = "lag" /\ hold'.d = log[m].day
    BY <2>1, <2>2 DEF Idle
  <2> QED BY <1>1, <1>2, <1>5, <2>1, <2>2, <2>3, <2>4 DEF SensorInv
<1>10. CASE Detect
  <2>1. /\ CobDone /\ UNCHANGED streamVars
        /\ hold' = [hold EXCEPT !.pc = "lag", !.d = log[MarkerRow].day]
    BY <1>10 DEF Detect
  <2>2. MarkerRow \in 1..pos /\ log[MarkerRow].cob = "done"
    BY <2>1, MarkerRowPublished DEF SensorInv, CobDone
  <2>3. hold'.pc = "lag" /\ hold'.d = log[MarkerRow].day
    BY <1>7, <2>1 DEF HoldRun
  <2> QED BY <1>1, <1>2, <1>5, <2>1, <2>2, <2>3 DEF SensorInv
<1>11. CASE CaughtUp
  <2>1. /\ hold.pc = "lag" /\ hold'.pc = "reports" /\ hold'.d = hold.d
        /\ UNCHANGED <<log, pos, wal, topic>>
    BY <1>7, <1>11 DEF CaughtUp, HoldRun, streamVars
  <2>2. RunMarker'
    BY <2>1 DEF SensorInv, RunMarker
  <2>3. DayIsPlanned'
    BY <1>11, <2>1, CaughtUpPlans DEF DayIsPlanned
  <2> QED BY <1>1, <1>2, <2>2, <2>3 DEF SensorInv
<1>12. ASSUME NEW p \in Reports, ReportStep(p) \/ FailTask(p)
       PROVE  SensorInv'
  <2>1. UNCHANGED streamVars /\ \E s \in HoldSteps : To(p, s)
    BY <1>12 DEF ReportStep, FailTask, WriteManifest, OpenReport, Fetch, Parse, SealReport, HoldSteps
  <2>2. hold'.pc = hold.pc /\ hold'.d = hold.d
    BY <2>1, ToMoves DEF ReportMoves, SensorInv, HoldInv
  <2> QED BY <1>1, <1>2, <1>4, <2>1, <2>2 DEF SensorInv
<1>13. CASE UNCHANGED holdVars \/ UNCHANGED vars
  BY <1>3, <1>13 DEF holdVars, vars
<1> QED BY <1>8, <1>9, <1>10, <1>11, <1>12, <1>13 DEF Next, HoldStep

(* A file of the day that is in a planned batch is in bronze, replaced by a  *)
(* later event of its row, or in the batch in flight.                        *)
LEMMA PlannedIsListedOrInFlight ==
  ASSUME SensorInv, hold.pc = "reports", NEW p \in Reports, NEW i \in Announced(hold.d, p),
         i \notin Listed(hold.d, p)
  PROVE  i \in Part(HOLD) \/ bronze[HOLD][log[i].rec] > i
<1>1. HOLD \in Topics /\ i \in DOMAIN log /\ log[i].tab = HOLD /\ log[i].day = hold.d
      /\ log[i].op # "d" /\ ReportOf[log[i].rec] = p
  BY HoldAssumption DEF Announced, Topics
<1>2. PICK k \in 1..wal[HOLD] : topic[HOLD][k] = i
  BY <1>1 DEF SensorInv, DayIsPlanned
<1>3. /\ done[HOLD] \in Nat /\ wal[HOLD] \in Nat /\ k \in 1..Len(topic[HOLD])
      /\ i \in 1..Len(log) /\ log[i].rec \in Recs
      /\ bronze[HOLD][log[i].rec] \in Nat
  BY <1>1, <1>2, Numbers, RecordTypes DEF SensorInv, SinkInv
<1>4. CASE k <= done[HOLD]
  <2>1. Landed(HOLD, k)
    BY <1>1, <1>3, <1>4 DEF SensorInv, SinkInv, DoneLanded
  <2>2. bronze[HOLD][log[i].rec] >= i
    BY <1>2, <2>1 DEF Landed
  <2>3. bronze[HOLD][log[i].rec] # i
    <3>1. bronze[HOLD][log[i].rec] = i => i \in Listed(hold.d, p)
      BY <1>1, <1>3 DEF Listed
    <3> QED BY <3>1
  <2> QED BY <1>3, <2>2, <2>3
<1>5. CASE k > done[HOLD]
  <2>1. k \in (done[HOLD] + 1)..wal[HOLD]
    BY <1>3, <1>5
  <2> QED BY <1>2, <2>1 DEF Part
<1> QED BY <1>3, <1>4, <1>5

(* Lag 0 is taken from planned offsets, so the manifest may be written too   *)
(* early; if the connector publishes nothing twice it is by one micro-batch,  *)
(* never by more.                                                            *)
THEOREM ManifestMissesOneBatch ==
  ASSUME MaxRestart = 0 PROVE Spec => MissingIsInFlight
<1>1. ASSUME SensorInv, [Next]_vars, NEW p \in Reports, At(p, "manifest"),
             hold'.step[p] = "open", NEW i \in Announced(hold.d, p) \ manifest'[hold.d][p]
      PROVE  i \in Part(HOLD) \/ bronze[HOLD][log[i].rec] > i
  <2>1. hold.pc = "reports" /\ hold.step[p] = "manifest" /\ hold \in HoldRun
        /\ hold.d \in Days /\ HoldTypeOK
    BY <1>1, HoldTypes DEF At, SensorInv, HoldInv, HoldTypeOK
  <2>2. hold' # hold
    BY <1>1, <2>1
  <2>3. ASSUME NEW q \in Reports, q # p, ReportStep(q) \/ FailTask(q)
        PROVE  FALSE
    <3>1. \E s \in HoldSteps : To(q, s)
      BY <2>3 DEF ReportStep, FailTask, WriteManifest, OpenReport, Fetch, Parse, SealReport,
                  HoldSteps
    <3>2. hold'.step[p] = hold.step[p]
      BY <2>1, <2>3, <3>1, ToMoves DEF ReportMoves
    <3> QED BY <1>1, <2>1, <3>2
  <2>4. ASSUME FailTask(p)
        PROVE  FALSE
    <3>1. To(p, "over") /\ "over" \in HoldSteps
      BY <2>4 DEF FailTask, HoldSteps
    <3>2. hold'.step[p] = "over"
      BY <2>1, <3>1, ToMoves DEF ReportMoves
    <3> QED BY <1>1, <3>2
  <2>5. ~(EndRun \/ Trigger \/ FailSensor \/ Detect \/ CaughtUp \/ \E d \in Days : TriggerForced(d))
    BY <2>1 DEF EndRun, Trigger, FailSensor, Detect, CaughtUp, TriggerForced
  <2>6. WriteManifest(p)
    <3>1. ReportStep(p)
      BY <1>1, <2>2, <2>3, <2>4, <2>5 DEF Next, HoldStep, holdVars, vars
    <3> QED BY <2>1, <3>1 DEF ReportStep, OpenReport, Fetch, Parse, SealReport, At
  <2>7. manifest'[hold.d][p] = Listed(hold.d, p)
    <3>1. manifest' = [manifest EXCEPT ![hold.d][p] = Listed(hold.d, p)]
      BY <2>6 DEF WriteManifest
    <3> QED BY <2>1, <3>1 DEF HoldTypeOK
  <2> QED BY <1>1, <2>1, <2>7, PlannedIsListedOrInFlight
<1>2. SensorInv /\ [Next]_vars =>
        \A p \in Reports :
          (At(p, "manifest") /\ hold'.step[p] = "open") =>
            \A i \in Announced(hold.d, p) \ manifest'[hold.d][p] :
              \/ i \in Part(HOLD)
              \/ bronze[HOLD][log[i].rec] > i
  BY <1>1
<1> QED BY <1>2, SensorInitInv, SensorNextInv, PTL DEF Spec, MissingIsInFlight

(* The stream that the HOLD DAG reads implements CobMarker while the DAG     *)
(* runs: the marker row its sensor polls goes forward through the states T24 *)
(* gave it (cob_done).                                                       *)
THEOREM HoldImplementsMarker ==
  ASSUME MaxRestart = 0
  PROVE  Spec => ImplementsMarker
<1>1. Init => StreamInit
  BY DEF Init
<1>2. Spec => StreamSpec
  BY <1>1, NextIsStreamStep, PTL DEF Spec, StreamSpec
<1> QED BY <1>2, MarkerIsImplemented, PTL
-----------------------------------------------------------------------------
(* The DAG implements the ledger.                                           *)

(* One row of the control table is written.                                  *)
LEMMA SealedMoves ==
  ASSUME NEW d \in Days, NEW p \in Reports,
         \A e \in Days, q \in Reports : <<e, q>> # <<d, p>> => ctl'[e][q] = ctl[e][q]
  PROVE  /\ ctl'[d][p].status # "sealed"
              => SealedByDay' = [SealedByDay EXCEPT ![d] = @ \ {p}]
         /\ ctl'[d][p].status = "sealed"
              => SealedByDay' = [SealedByDay EXCEPT ![d] = @ \cup {p}]
<1>1. \A e \in Days : e # d => SealedByDay'[e] = SealedByDay[e]
  BY DEF SealedByDay, Sealed
<1>2. ctl'[d][p].status # "sealed" => SealedByDay'[d] = SealedByDay[d] \ {p}
  BY DEF SealedByDay, Sealed
<1>3. ctl'[d][p].status = "sealed" => SealedByDay'[d] = SealedByDay[d] \cup {p}
  BY DEF SealedByDay, Sealed
<1>4. /\ SealedByDay' = [e \in Days |-> SealedByDay'[e]]
      /\ SealedByDay = [e \in Days |-> SealedByDay[e]]
  BY DEF SealedByDay
<1> HIDE DEF SealedByDay
<1> QED BY <1>1, <1>2, <1>3, <1>4

(* What the ledger sees of the run, once its reports are under way.          *)
LEMMA InHandOnReports ==
  ASSUME HoldInv, hold.pc = "reports"
  PROVE  /\ DayInHand = [d |-> hold.d, forced |-> hold.forced,
                         over |-> {p \in Reports : hold.step[p] = "over"}]
         /\ DayInHand # Ledger!NoRun /\ hold.d \in Days
<1>1. hold.d \in Days
  BY DEF HoldInv, OnClosedDay
<1>2. hold.d # 0
  BY <1>1 DEF Days
<1> QED BY <1>1, <1>2 DEF DayInHand, Ledger!NoRun

LEMMA MovesInHand ==
  ASSUME NEW p \in Reports, NEW s, hold.pc = "reports", hold.step[p] # "over",
         ReportMoves(p, s)
  PROVE  /\ s # "over" => DayInHand' = DayInHand
         /\ s = "over" => DayInHand' = [DayInHand EXCEPT !.over = @ \cup {p}]
<1> DEFINE over == {q \in Reports : hold.step[q] = "over"}
<1>1. DayInHand = [d |-> hold.d, forced |-> hold.forced, over |-> over]
  BY DEF DayInHand
<1>2. DayInHand' = [d |-> hold.d, forced |-> hold.forced, over |-> over']
  BY DEF DayInHand, ReportMoves
<1>3. over' = IF s = "over" THEN over \cup {p} ELSE over
  BY DEF ReportMoves
<1> HIDE DEF over
<1> QED BY <1>1, <1>2, <1>3

LEMMA StreamIsLedgerStep ==
  ASSUME HoldInv, [StreamNext]_streamVars, UNCHANGED <<ctl, hold, partition>>
  PROVE  [Ledger!LedgerNext]_<<day - 1, SealedByDay, partition, DayInHand>>
<1>1. UNCHANGED <<SealedByDay, DayInHand>>
  BY DEF SealedByDay, DayInHand, Sealed
<1>2. day \in Nat
  BY DEF HoldInv, StreamShape, StreamTypeOK
<1>3. day' = day \/ day' = day + 1
  BY DEF StreamNext, SourceNext, Change, StartCob, FinishCob, SparkStep, Publish,
         RestartConnector, PlanBatch, ResumeBatch, SkipTable, MergeTable, DeleteTable,
         UpsertProgress, CommitBatch, CrashDriver, sourceVars, streamVars
<1>4. CASE day' = day + 1
  BY <1>1, <1>2, <1>4 DEF Ledger!LedgerNext, Ledger!CloseDay
<1> QED BY <1>1, <1>3, <1>4

(* A run nobody forced takes its day when its sensor fires.                  *)
LEMMA TakesClosedDay ==
  ASSUME HoldInv, UNCHANGED <<day, ctl, partition>>, hold.pc \in {"idle", "detect"},
         hold' \in HoldRun, hold'.pc = "lag", hold'.d \in Days, hold'.d < day,
         ~hold'.forced => ~AllSealed(ctl, hold'.d, Reports)
  PROVE  Ledger!LedgerNext
<1> DEFINE d == hold'.d
<1>1. UNCHANGED <<day - 1, SealedByDay, partition>>
  BY DEF SealedByDay, Sealed
<1>2. DayInHand = Ledger!NoRun
  BY DEF DayInHand, Ledger!NoRun
<1>3. DayInHand' = [d |-> d, forced |-> hold'.forced, over |-> {}]
  <2>1. {p \in Reports : hold'.pc = "reports" /\ hold'.step[p] = "over"} = {}
    OBVIOUS
  <2> QED BY <2>1 DEF DayInHand
<1>4. d \in 1..(day - 1) /\ d \in 1..MaxDay
  BY DEF Days, HoldInv, StreamShape, StreamTypeOK
<1>5. ~hold'.forced => SealedByDay[d] # Reports
  BY DEF SealedByDay, Sealed, AllSealed, SealedRows
<1>6. hold'.forced \in BOOLEAN
  BY DEF HoldRun
<1>7. Ledger!Take(d, hold'.forced)
  BY <1>1, <1>2, <1>3, <1>4, <1>5 DEF Ledger!Take
<1> QED BY <1>4, <1>6, <1>7 DEF Ledger!LedgerNext

LEMMA RunIsLedgerStep ==
  ASSUME HoldInv,
         Trigger \/ FailSensor \/ EndRun \/ Detect \/ CaughtUp \/ \E d \in Days : TriggerForced(d)
  PROVE  [Ledger!LedgerNext]_<<day - 1, SealedByDay, partition, DayInHand>>
<1>1. UNCHANGED <<day, ctl, partition>> /\ hold \in HoldRun
  BY DEF Trigger, FailSensor, EndRun, Detect, CaughtUp, TriggerForced, streamVars, files,
         HoldInv, HoldTypeOK
<1>2. UNCHANGED <<day - 1, SealedByDay, partition>>
  BY <1>1 DEF SealedByDay, Sealed
<1>3. CASE Trigger \/ FailSensor \/ EndRun
  <2>1. hold' = [Idle EXCEPT !.pc = "detect"] \/ hold' = Idle
    BY <1>3 DEF Trigger, FailSensor, EndRun
  <2>2. hold'.pc \in {"idle", "detect"}
    BY <2>1, IdleRun DEF HoldRun, Idle
  <2>3. DayInHand' = Ledger!NoRun
    BY <2>2 DEF DayInHand, Ledger!NoRun
  <2> QED BY <1>2, <2>3 DEF Ledger!LedgerNext, Ledger!Leave
<1>4. CASE Detect
  <2>1. /\ hold.pc = "detect" /\ CobDone
        /\ hold' = [hold EXCEPT !.pc = "lag", !.d = log[MarkerRow].day]
        /\ ~AllSealed(ctl, log[MarkerRow].day, Reports)
    BY <1>4 DEF Detect
  <2>2. log[MarkerRow].day \in Days /\ log[MarkerRow].day < day /\ log[MarkerRow].day \in Nat
    <3>1. MarkerRow \in DOMAIN log /\ log[MarkerRow].cob = "done"
      BY <2>1, MarkerRowIsEvent DEF CobDone, HoldInv
    <3> QED BY <3>1, MarkerNamesDay DEF HoldInv, Days
  <2>3. hold' \in HoldRun /\ hold'.pc = "lag" /\ hold'.d = log[MarkerRow].day
    BY <1>1, <2>1, <2>2 DEF HoldRun
  <2> QED BY <1>1, <2>1, <2>2, <2>3, TakesClosedDay
<1>5. ASSUME NEW d \in Days, TriggerForced(d) PROVE Ledger!LedgerNext
  <2>1. /\ hold.pc = "idle" /\ MarkerRow # 0
        /\ hold' = [Idle EXCEPT !.pc = "lag", !.d = d, !.forced = TRUE]
        /\ \E m \in 1..MarkerRow : log[m].cob = "done" /\ log[m].day = d
    BY <1>5 DEF TriggerForced
  <2>2. d < day
    <3>1. PICK m \in 1..MarkerRow : log[m].cob = "done" /\ log[m].day = d
      BY <2>1
    <3>2. m \in DOMAIN log
      BY <2>1, MarkerRowIsEvent, Numbers DEF HoldInv
    <3> QED BY <3>1, <3>2, MarkerNamesDay DEF HoldInv
  <2>3. hold' \in HoldRun /\ hold'.pc = "lag" /\ hold'.d = d /\ hold'.forced
    <3>1. d \in Nat
      BY <1>5 DEF Days
    <3> QED BY <2>1, <3>1, IdleRun DEF HoldRun
  <2> QED BY <1>1, <2>1, <2>2, <2>3, TakesClosedDay
<1>6. CASE CaughtUp
  <2>1. /\ hold.pc = "lag"
        /\ hold' = [hold EXCEPT !.pc = "reports", !.step = [p \in Reports |-> "manifest"]]
    BY <1>6 DEF CaughtUp
  <2>2. /\ hold'.pc = "reports" /\ hold'.d = hold.d /\ hold'.forced = hold.forced
        /\ \A p \in Reports : hold'.step[p] = "manifest"
    BY <1>1, <2>1 DEF HoldRun
  <2>3. /\ {p \in Reports : hold.pc = "reports" /\ hold.step[p] = "over"} = {}
        /\ {p \in Reports : hold'.pc = "reports" /\ hold'.step[p] = "over"} = {}
    BY <2>1, <2>2
  <2>4. DayInHand' = DayInHand
    BY <2>1, <2>2, <2>3 DEF DayInHand
  <2> QED BY <1>2, <2>4
<1> QED BY <1>3, <1>4, <1>5, <1>6

(* A step of one report: it reopens the row, loads the partition, seals the  *)
(* row, gives up, or shows nothing.                                          *)
LEMMA ReportIsLedgerStep ==
  ASSUME HoldInv, NEW p \in Reports, ReportStep(p) \/ FailTask(p)
  PROVE  [Ledger!LedgerNext]_<<day - 1, SealedByDay, partition, DayInHand>>
<1>1. /\ hold.pc = "reports" /\ hold.step[p] # "over" /\ day' = day
      /\ HoldTypeOK /\ hold \in HoldRun
  BY DEF ReportStep, WriteManifest, OpenReport, Fetch, Parse, SealReport, FailTask, At,
         streamVars, HoldInv, HoldTypeOK
<1>2. hold.d \in Days /\ DayInHand.d = hold.d /\ Ledger!InHand(p)
  <2>1. /\ DayInHand = [d |-> hold.d, forced |-> hold.forced,
                        over |-> {q \in Reports : hold.step[q] = "over"}]
        /\ DayInHand # Ledger!NoRun /\ hold.d \in Days
    BY <1>1, InHandOnReports
  <2>2. DayInHand.d = hold.d /\ p \notin DayInHand.over
    BY <1>1, <2>1
  <2> QED BY <2>1, <2>2 DEF Ledger!InHand
<1>3. hold.step[p] \in {"fetch", "parse", "seal"} => p \notin SealedByDay[hold.d]
  BY <1>1, <1>2 DEF HoldInv, RowIsOpen, SealedByDay, Sealed
<1>4. ctl' = ctl => UNCHANGED SealedByDay
  BY DEF SealedByDay, Sealed
<1>5. partition' = partition => Ledger!OnlyRow(p)
  BY DEF Ledger!OnlyRow
<1>6. CASE WriteManifest(p) \/ Fetch(p)
  <2>1. ctl' = ctl /\ partition' = partition
    BY <1>6 DEF WriteManifest, Fetch
  <2>2. PICK s \in HoldSteps \ {"over"} : ReportMoves(p, s)
    <3>1. To(p, "open") \/ To(p, "parse")
      BY <1>6 DEF WriteManifest, Fetch
    <3>2. ReportMoves(p, "open") \/ ReportMoves(p, "parse")
      BY <1>1, <3>1, ToMoves DEF HoldSteps
    <3> QED BY <3>2 DEF HoldSteps
  <2>3. DayInHand' = DayInHand
    BY <1>1, <2>2, MovesInHand
  <2> QED BY <1>1, <1>4, <2>1, <2>3
<1>7. CASE OpenReport(p)
  <2>1. To(p, "fetch") /\ ctl' = OpenPending(ctl, hold.d, p, Null) /\ partition' = partition
    BY <1>7 DEF OpenReport, files
  <2>2. ReportMoves(p, "fetch")
    BY <1>1, <2>1, ToMoves DEF HoldSteps
  <2>3. DayInHand' = DayInHand
    BY <1>1, <2>2, MovesInHand
  <2>4. /\ ctl'[hold.d][p].status = "pending"
        /\ \A e \in Days, q \in Reports : <<e, q>> # <<hold.d, p>> => ctl'[e][q] = ctl[e][q]
    BY <1>1, <1>2, <2>1, HoldOpenRow
  <2>5. SealedByDay' = [SealedByDay EXCEPT ![hold.d] = @ \ {p}]
    BY <1>2, <2>4, SealedMoves
  <2>6. Ledger!Reopen(p)
    BY <1>1, <1>2, <2>1, <2>3, <2>5 DEF Ledger!Reopen
  <2> QED BY <2>6 DEF Ledger!LedgerNext
<1>8. CASE Parse(p)
  <2>1. /\ hold.step[p] = "parse" /\ ctl' = ctl
        /\ \/ To(p, "over") /\ partition' = partition
           \/ To(p, "seal") /\ partition' = [partition EXCEPT ![hold.d][p] = raw[hold.d][p]]
    BY <1>8 DEF Parse, At
  <2>2. CASE To(p, "over") /\ partition' = partition
    <3>1. ReportMoves(p, "over")
      BY <1>1, <2>2, ToMoves DEF HoldSteps
    <3>2. DayInHand' = [DayInHand EXCEPT !.over = @ \cup {p}]
      BY <1>1, <3>1, MovesInHand
    <3>3. Ledger!GiveUp(p)
      BY <1>1, <1>2, <1>4, <2>1, <2>2, <3>2 DEF Ledger!GiveUp
    <3> QED BY <3>3 DEF Ledger!LedgerNext
  <2>3. CASE To(p, "seal") /\ partition' = [partition EXCEPT ![hold.d][p] = raw[hold.d][p]]
    <3>1. ReportMoves(p, "seal")
      BY <1>1, <2>3, ToMoves DEF HoldSteps
    <3>2. DayInHand' = DayInHand
      BY <1>1, <3>1, MovesInHand
    <3>3. \A e \in Days, q \in Reports : <<e, q>> # <<hold.d, p>>
            => partition'[e][q] = partition[e][q]
      BY <1>1, <1>2, <2>3, HoldTypes, FilesWritten DEF HoldTypeOK
    <3>4. Ledger!OnlyRow(p)
      BY <1>2, <3>3 DEF Ledger!OnlyRow, Days
    <3>5. Ledger!Load(p)
      BY <1>1, <1>2, <1>3, <1>4, <2>1, <3>2, <3>4 DEF Ledger!Load
    <3> QED BY <3>5 DEF Ledger!LedgerNext
  <2> QED BY <2>1, <2>2, <2>3
<1>9. CASE SealReport(p)
  <2> DEFINE m == Cardinality(manifest[hold.d][p])
             n == Cardinality(partition[hold.d][p])
  <2>1. /\ hold.step[p] = "seal" /\ To(p, "over") /\ partition' = partition
        /\ ctl' = Seal(ctl, hold.d, p, Null, m, n)
    BY <1>9 DEF SealReport, At, files
  <2>2. m \in Nat /\ n \in Nat
    BY <1>1, HoldTypes, FS_CardinalityType DEF FileSet
  <2> HIDE DEF m, n
  <2>3. ReportMoves(p, "over")
    BY <1>1, <2>1, ToMoves DEF HoldSteps
  <2>4. DayInHand' = [DayInHand EXCEPT !.over = @ \cup {p}]
    BY <1>1, <2>3, MovesInHand
  <2>5. /\ ctl'[hold.d][p].status = "sealed"
        /\ \A e \in Days, q \in Reports : <<e, q>> # <<hold.d, p>> => ctl'[e][q] = ctl[e][q]
    BY <1>1, <1>2, <2>1, <2>2, HoldSealRow
  <2>6. SealedByDay' = [SealedByDay EXCEPT ![hold.d] = @ \cup {p}]
    BY <1>2, <2>5, SealedMoves
  <2>7. Ledger!SealRow(p)
    BY <1>1, <1>2, <1>3, <1>5, <2>1, <2>4, <2>6 DEF Ledger!SealRow
  <2> QED BY <2>7 DEF Ledger!LedgerNext
<1>10. CASE FailTask(p)
  <2>1. To(p, "over") /\ ctl' = ctl /\ partition' = partition
    BY <1>10 DEF FailTask, files
  <2>2. ReportMoves(p, "over")
    BY <1>1, <2>1, ToMoves DEF HoldSteps
  <2>3. DayInHand' = [DayInHand EXCEPT !.over = @ \cup {p}]
    BY <1>1, <2>2, MovesInHand
  <2>4. Ledger!GiveUp(p)
    BY <1>1, <1>2, <1>4, <2>1, <2>3 DEF Ledger!GiveUp
  <2> QED BY <2>4 DEF Ledger!LedgerNext
<1> QED BY <1>6, <1>7, <1>8, <1>9, <1>10 DEF ReportStep

(* sftp_hold implements the ledger the builds rely on, for any stream below  *)
(* it, any reports and days, and whatever fails or is forced: it takes       *)
(* closed days only, and writes a report's partition only between the        *)
(* reopening of its row and its seal.                                        *)
THEOREM HoldImplementsLedger == Spec => ImplementsLedger
<1> DEFINE shows == <<day - 1, SealedByDay, partition, DayInHand>>
<1>1. Init => Ledger!LedgerInit
  <2> SUFFICES ASSUME Init PROVE Ledger!LedgerInit
    OBVIOUS
  <2>1. day = 1 /\ hold = Idle /\ \A d \in Days, p \in Reports : ctl[d][p].status = "none"
    BY DEF Init, StreamInit, NoRow
  <2>2. SealedByDay = [d \in 1..MaxDay |-> {}]
    BY <2>1 DEF SealedByDay, Sealed, Days
  <2>3. DayInHand = Ledger!NoRun
    BY <2>1 DEF DayInHand, Idle, Ledger!NoRun
  <2> QED BY <2>1, <2>2, <2>3 DEF Ledger!LedgerInit
<1>2. HoldInv /\ [Next]_vars => [Ledger!LedgerNext]_shows
  <2> SUFFICES ASSUME HoldInv, [Next]_vars PROVE [Ledger!LedgerNext]_shows
    OBVIOUS
  <2>1. CASE UNCHANGED vars \/ (StreamNext /\ UNCHANGED holdVars)
    BY <2>1, StreamIsLedgerStep DEF vars, holdVars, files
  <2>2. CASE Trigger \/ FailSensor \/ EndRun \/ Detect \/ CaughtUp
             \/ \E d \in Days : TriggerForced(d)
    BY <2>2, RunIsLedgerStep
  <2>3. CASE \E p \in Reports : ReportStep(p) \/ FailTask(p)
    BY <2>3, ReportIsLedgerStep
  <2> QED BY <2>1, <2>2, <2>3 DEF Next, HoldStep
<1> QED BY <1>1, <1>2, HoldInvariant, PTL
        DEF Spec, ImplementsLedger, Ledger!LedgerSpec, Ledger!ledgerVars

=============================================================================
