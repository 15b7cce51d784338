-------------------------- MODULE DraftsProofs --------------------------
(***************************************************************************)
(* Proofs about the three draft programs, for any files, days and failures, *)
(* and about the source sets.                                              *)
(*                                                                         *)
(* AccountingFiles: a marked folder has files, and syncing the same days   *)
(* again adds no second object of an unchanged file.                       *)
(*                                                                         *)
(* OperationFiles: a finished run leaves each month's rows exactly once; a  *)
(* month is doubled only after a delete that failed.                       *)
(*                                                                         *)
(* AccountingDrafts: the file chosen for a day is the newest of the day.   *)
(*                                                                         *)
(* SourceConfig: a row that a build waits for is sealed by one DAG.        *)
(***************************************************************************)
EXTENDS AccountingDrafts, OperationFiles, SourceConfig,
        FiniteSetTheorems, WellFoundedInduction, TLAPS

FileInfo == [ver : Nat, at : Nat, biz : 0..MaxDate, detailed : BOOLEAN]
Listed == [name : Names, ts : Nat]
SyncType == [pc : {"idle", "files"}, todo : SUBSET Listed, folders : SUBSET Dates]
Stored == [name : Names, ts : Nat, biz : Dates, ver : Nat, detailed : BOOLEAN]

AccTypeOK ==
  /\ today \in Dates /\ writes \in Nat
  /\ server \in [Names -> FileInfo]
  /\ raw \subseteq Stored
  /\ sync \in SyncType

(* A folder that the sync has uploaded to keeps a file: an object is only    *)
(* ever replaced by one of its folder.                                       *)
UploadedHasFiles == \A d \in marked \cup sync.folders : Folder(d) # {}

(* Times and versions only grow: a listing is no newer than the file, an     *)
(* object no newer than the file it was read from.                           *)
OldestFirst ==
  /\ \A f \in Names : server[f].ver <= writes
  /\ \A x \in sync.todo : x.ts <= server[x.name].ver
  /\ \A o \in raw : o.ts <= o.ver /\ o.ver <= server[o.name].ver

(* A version of a file has one content.                                      *)
OneContent ==
  /\ \A o \in raw : o.ver = server[o.name].ver =>
       o.biz = server[o.name].biz /\ o.detailed = server[o.name].detailed
  /\ \A o, p \in raw : (o.name = p.name /\ o.ver = p.ver) =>
       o.biz = p.biz /\ o.detailed = p.detailed

AccInv == AccTypeOK /\ UploadedHasFiles /\ OldestFirst /\ OneContent

-----------------------------------------------------------------------------
LEMMA NoSyncType == NoSync \in SyncType /\ NoSync.todo = {} /\ NoSync.folders = {}
BY DEF NoSync, SyncType

LEMMA AccInitInv == AccInit => AccInv
<1> SUFFICES ASSUME AccInit PROVE AccInv
  OBVIOUS
<1>1. /\ today = 1 /\ writes = 0 /\ raw = {} /\ marked = {} /\ sync = NoSync
      /\ \A f \in Names : server[f] = NoFile
      /\ server \in [Names -> {NoFile}]
  BY DEF AccInit
<1>2. 1 \in Dates /\ 0 \in 0..MaxDate
  BY AccountingAssumption DEF Dates
<1>3. NoFile \in FileInfo /\ NoFile.ver = 0
  BY <1>2 DEF NoFile, FileInfo
<1>4. AccTypeOK
  <2>1. server \in [Names -> FileInfo]
    BY <1>1, <1>3
  <2> QED BY <1>1, <1>2, <2>1, NoSyncType DEF AccTypeOK
<1>5. UploadedHasFiles
  BY <1>1, NoSyncType DEF UploadedHasFiles
<1>6. OldestFirst
  BY <1>1, <1>3, NoSyncType DEF OldestFirst
<1>7. OneContent
  BY <1>1 DEF OneContent
<1> QED BY <1>4, <1>5, <1>6, <1>7 DEF AccInv

(* What an upload does to the objects.                                       *)
LEMMA PutStores ==
  ASSUME AccTypeOK, NEW o \in Stored, Put(o)
  PROVE  /\ raw' \subseteq Stored /\ o \in raw'
         /\ \A p \in raw' : p = o \/ p \in raw
         /\ \A d : Folder(d) # {} => Folder(d)' # {}
         /\ Folder(o.biz)' # {}
<1>1. raw' \subseteq Stored /\ o \in raw' /\ \A p \in raw' : p = o \/ p \in raw
  BY DEF Put, AccTypeOK
<1>2. ASSUME NEW d, Folder(d) # {} PROVE Folder(d)' # {}
  <2>1. PICK p \in raw : p.biz = d
    BY <1>2 DEF Folder
  <2>2. p \in raw' \/ o.biz = d
    BY <2>1 DEF Put
  <2> QED BY <1>1, <2>1, <2>2 DEF Folder
<1>3. Folder(o.biz)' # {}
  BY <1>1 DEF Folder
<1> QED BY <1>1, <1>2, <1>3

LEMMA CopyKeeps ==
  ASSUME AccInv, NEW x \in sync.todo, CopyFile(x)
  PROVE  AccInv'
<1> USE DEF AccInv
<1>1. x \in Listed /\ x.name \in Names /\ x.ts \in Nat /\ server[x.name] \in FileInfo
  BY DEF AccTypeOK, SyncType, Listed
<1>2. CASE server[x.name].biz = 0
  <2>1. raw' = raw /\ sync' = [sync EXCEPT !.todo = @ \ {x}]
    BY <1>2 DEF CopyFile
  <2>2. UNCHANGED <<today, server, writes, marked>>
    BY DEF CopyFile
  <2>3. sync'.todo \subseteq sync.todo /\ sync'.folders = sync.folders /\ sync' \in SyncType
    BY <2>1 DEF AccTypeOK, SyncType
  <2> QED BY <2>1, <2>2, <2>3
       DEF AccTypeOK, UploadedHasFiles, OldestFirst, OneContent, Folder
<1>3. CASE server[x.name].biz # 0
  <2>d. server[x.name].biz \in Dates
    BY <1>1, <1>3, AccountingAssumption DEF FileInfo, Dates
  <2> SUFFICES ASSUME NEW o, o = Object(x, x.ts) PROVE AccInv'
    OBVIOUS
  <2>1. Put(o) /\ UNCHANGED <<today, server, writes, marked>>
    BY <1>3 DEF CopyFile
  <2>2. /\ sync' \in SyncType
        /\ sync'.todo \subseteq sync.todo
        /\ sync'.folders = sync.folders \cup {o.biz}
    <3>1. o.biz = server[x.name].biz
      BY DEF Object
    <3>2. sync' = [sync EXCEPT !.todo = @ \ {x}, !.folders = @ \cup {server[x.name].biz}]
      BY <1>3 DEF CopyFile
    <3> QED BY <2>d, <3>1, <3>2 DEF AccTypeOK, SyncType
  <2>3. /\ o \in Stored /\ o.name = x.name /\ o.ts = x.ts
        /\ o.ver = server[x.name].ver /\ o.biz = server[x.name].biz
        /\ o.detailed = server[x.name].detailed
    BY <1>1, <2>d DEF Object, Stored, FileInfo
  <2>4. /\ raw' \subseteq Stored
        /\ \A p \in raw' : p = o \/ p \in raw
        /\ \A d : Folder(d) # {} => Folder(d)' # {}
        /\ Folder(o.biz)' # {}
    <3>1. AccTypeOK
      OBVIOUS
    <3>2. o \in Stored /\ Put(o)
      BY <2>1, <2>3
    <3> QED BY <3>1, <3>2, PutStores
  <2>5. AccTypeOK'
    BY <2>1, <2>2, <2>4 DEF AccTypeOK
  <2>6. UploadedHasFiles'
    <3>1. marked' = marked
      BY <2>1
    <3>2. \A d \in marked' \cup sync'.folders : d \in marked \cup sync.folders \/ d = o.biz
      BY <3>1, <2>2
    <3>3. \A d \in marked' \cup sync'.folders : Folder(d)' # {}
      BY <3>2, <2>4, Zenon DEF UploadedHasFiles
    <3> QED BY <3>3 DEF UploadedHasFiles
  <2>7. OldestFirst'
    <3>1. x.ts <= server[x.name].ver
      BY DEF OldestFirst
    <3>2. \A p \in raw' : p.ts <= p.ver /\ p.ver <= server[p.name].ver
      <4>1. o.ts <= o.ver /\ o.ver <= server[o.name].ver
        BY <1>1, <2>3, <3>1 DEF FileInfo
      <4> QED BY <4>1, <2>4 DEF OldestFirst
    <3> QED BY <2>1, <2>2, <3>2 DEF OldestFirst
  <2>8. OneContent'
    <3>1. \A p \in raw' : p.ver = server[p.name].ver =>
             p.biz = server[p.name].biz /\ p.detailed = server[p.name].detailed
      BY <2>3, <2>4 DEF OneContent
    <3>2. \A p, q \in raw' : (p.name = q.name /\ p.ver = q.ver) =>
             p.biz = q.biz /\ p.detailed = q.detailed
      BY <2>3, <2>4, <3>1 DEF OneContent
    <3> QED BY <2>1, <3>1, <3>2 DEF OneContent
  <2> QED BY <2>5, <2>6, <2>7, <2>8
<1> QED BY <1>2, <1>3

(* A new version is newer than everything that was listed or copied.         *)
LEMMA ExportKeeps ==
  ASSUME AccInv, NEW f \in Names, Export(f)
  PROVE  AccInv'
<1> USE DEF AccInv
<1>1. UNCHANGED <<raw, marked, sync>> /\ writes' = writes + 1 /\ today' = today
  BY DEF Export
<1>2. PICK d \in 0..today, b \in BOOLEAN :
        server' = [server EXCEPT ![f] = [ver |-> writes + 1, at |-> today, biz |-> d, detailed |-> b]]
  BY DEF Export
<1>3. AccTypeOK'
  <2>1. d \in 0..MaxDate /\ writes + 1 \in Nat /\ today \in Nat
    BY <1>2, AccountingAssumption DEF AccTypeOK, Dates
  <2>2. [ver |-> writes + 1, at |-> today, biz |-> d, detailed |-> b] \in FileInfo
    BY <2>1 DEF FileInfo
  <2> QED BY <1>1, <1>2, <2>1, <2>2 DEF AccTypeOK
<1>4. UploadedHasFiles'
  BY <1>1 DEF UploadedHasFiles, Folder
<1>5. /\ server'[f].ver = writes + 1
      /\ \A g \in Names : g # f => server'[g] = server[g]
      /\ \A g \in Names : server[g].ver \in Nat
  BY <1>2 DEF AccTypeOK, FileInfo
<1>6. /\ \A x \in sync.todo : x.name \in Names /\ x.ts \in Nat
      /\ \A o \in raw : o.name \in Names /\ o.ver \in Nat /\ o.ts \in Nat
  BY DEF AccTypeOK, SyncType, Listed, Stored
<1>7. OldestFirst'
  BY <1>1, <1>5, <1>6 DEF OldestFirst, AccTypeOK
<1>8. \A o \in raw : o.name = f => o.ver # server'[f].ver
  BY <1>5, <1>6 DEF OldestFirst, AccTypeOK
<1>9. OneContent'
  BY <1>1, <1>5, <1>6, <1>8 DEF OneContent
<1> QED BY <1>3, <1>4, <1>7, <1>9

(* The other steps leave the server and the objects alone.                   *)
LEMMA OtherKeeps ==
  ASSUME AccInv, UNCHANGED <<server, writes, raw>>, today' \in Dates,
         sync' \in SyncType,
         \A x \in sync'.todo : x.ts <= server[x.name].ver,
         sync'.folders \subseteq sync.folders,
         marked' \subseteq marked \cup sync.folders
  PROVE  AccInv'
BY DEF AccInv, AccTypeOK, UploadedHasFiles, OldestFirst, OneContent, Folder

LEMMA AccStepInv == AccInv /\ [AccNext]_accVars => AccInv'
<1> SUFFICES ASSUME AccInv, [AccNext]_accVars PROVE AccInv'
  OBVIOUS
<1>t. /\ today \in Dates /\ writes \in Nat /\ server \in [Names -> FileInfo]
      /\ sync \in SyncType
      /\ \A x \in sync.todo : x.ts <= server[x.name].ver
  BY DEF AccInv, AccTypeOK, OldestFirst
<1>1. CASE NextDay
  <2>1. today' \in Dates
    BY <1>1, <1>t, AccountingAssumption DEF NextDay, Dates
  <2> QED BY <1>1, <1>t, <2>1, OtherKeeps DEF NextDay
<1>2. CASE \E f \in Names : Export(f)
  BY <1>2, ExportKeeps
<1>3. ASSUME NEW from \in Dates, NEW to \in Dates, StartSync(from, to) PROVE AccInv'
  <2>1. UNCHANGED <<today, server, writes, raw, marked>>
    BY <1>3 DEF StartSync
  <2>2. /\ sync' \in SyncType
        /\ \A x \in sync'.todo : x.ts = server[x.name].ver
        /\ sync'.folders = {}
    <3> DEFINE todo == {[name |-> f, ts |-> server[f].ver] :
                          f \in {f \in Names : server[f].at \in from..to /\ server[f].ver # 0}}
    <3>1. sync' = [pc |-> "files", todo |-> todo, folders |-> {}]
      BY <1>3 DEF StartSync
    <3>2. todo \subseteq Listed /\ \A x \in todo : x.ts = server[x.name].ver
      BY <1>t DEF Listed, FileInfo
    <3> HIDE DEF todo
    <3> QED BY <3>1, <3>2 DEF SyncType
  <2>3. \A x \in sync'.todo : x.ts <= server[x.name].ver
    BY <2>2, <1>t DEF SyncType, Listed, FileInfo
  <2> QED BY <2>1, <2>2, <2>3, <1>t, OtherKeeps
<1>4. CASE \E x \in sync.todo : CopyFile(x)
  BY <1>4, CopyKeeps
<1>5. ASSUME NEW x \in sync.todo, CopyError(x) PROVE AccInv'
  BY <1>5, <1>t, OtherKeeps DEF CopyError, SyncType
<1>6. CASE CreateSuccessMarkers
  <2>1. UNCHANGED <<today, server, writes, raw>> /\ sync' = NoSync
    BY <1>6 DEF CreateSuccessMarkers
  <2>2. marked' \subseteq marked \cup sync.folders
    BY <1>6 DEF CreateSuccessMarkers
  <2> QED BY <2>1, <2>2, <1>t, NoSyncType, OtherKeeps
<1>7. CASE SyncDies
  <2>1. UNCHANGED <<today, server, writes, raw, marked>> /\ sync' = NoSync
    BY <1>7 DEF SyncDies
  <2> QED BY <2>1, <1>t, NoSyncType, OtherKeeps
<1>8. CASE \E d \in Dates : ParseFolder(d)
  BY <1>8, <1>t, OtherKeeps DEF ParseFolder
<1>9. CASE UNCHANGED accVars
  BY <1>9, <1>t, OtherKeeps DEF accVars
<1> QED BY <1>1, <1>2, <1>3, <1>4, <1>5, <1>6, <1>7, <1>8, <1>9 DEF AccNext

LEMMA AccInvariant == AccSpec => []AccInv
BY AccInitInv, AccStepInv, PTL DEF AccSpec

-----------------------------------------------------------------------------
(* A folder marked _SUCCESS has files (create_success_markers), whatever     *)
(* fails and however often the days are synced again.                        *)
THEOREM MarkedFoldersHaveFiles == AccSpec => []MarkedHasFiles
<1>1. AccInv => MarkedHasFiles
  BY DEF AccInv, UploadedHasFiles, MarkedHasFiles
<1> QED BY <1>1, AccInvariant, PTL

(* Two objects of one version of a file are one object, unless the file was  *)
(* rewritten between a listing and its copy (process_file's key).            *)
THEOREM SyncIsIdempotent == AccSpec => []ResyncIsIdempotent
<1>1. AccInv => ResyncIsIdempotent
  <2> SUFFICES ASSUME AccInv, NEW o \in raw, NEW p \in raw,
                      o.name = p.name, o.ver = p.ver,
                      ~(o.ts < o.ver), ~(p.ts < p.ver)
               PROVE  o = p
    BY DEF ResyncIsIdempotent
  <2>1. o \in Stored /\ p \in Stored
    BY DEF AccInv, AccTypeOK
  <2>2. o.ts <= o.ver /\ p.ts <= p.ver
    BY DEF AccInv, OldestFirst
  <2>3. o.ts = p.ts
    BY <2>1, <2>2 DEF Stored
  <2>4. o.biz = p.biz /\ o.detailed = p.detailed
    BY DEF AccInv, OneContent
  <2> QED BY <2>1, <2>3, <2>4 DEF Stored
<1> QED BY <1>1, AccInvariant, PTL

-----------------------------------------------------------------------------
(* OperationFiles.                                                          *)

(* A set of numbers has a least one.                                        *)
LEMMA LeastOf ==
  ASSUME NEW S, S \subseteq Nat, S # {}
  PROVE  \E n \in S : \A m \in S : n <= m
<1>1. PICK n \in S : \A m \in S : <<m, n>> \notin OpToRel(<, Nat)
  BY WFMin, NatLessThanWellFounded
<1>2. \A m \in S : <<m, n>> \in Nat \X Nat
  OBVIOUS
<1>3. \A m \in S : ~(m < n)
  BY <1>1, <1>2 DEF OpToRel
<1>4. \A m \in S : m \in Nat /\ n \in Nat
  OBVIOUS
<1> QED BY <1>3, <1>4

OpRun == [pc : {"idle", "run"}, todo : SUBSET OpFiles, listed : SUBSET OpFiles,
          cleared : SUBSET Months, undeleted : SUBSET Months]

OpTypeOK ==
  /\ strict \in BOOLEAN /\ present \subseteq OpFiles
  /\ out \in [Months -> [OpFiles -> Nat]]
  /\ op \in OpRun /\ op.todo \subseteq op.listed
  /\ opTrouble \in Nat

(* The partition of a file the run is done with is cleared, or the file has  *)
(* none.                                                                     *)
MonthsAreCleared ==
  /\ \A f \in op.listed \ op.todo : MonthOf[f] \in op.cleared \/ (strict /\ MonthOf[f] = Undated)
  /\ strict => Undated \notin op.cleared

(* A cleared partition has the files done, each once.                        *)
ClearedIsExact ==
  \A m \in op.cleared \ op.undeleted : \A f \in OpFiles :
    out[m][f] = IF MonthOf[f] = m /\ f \in op.listed \ op.todo THEN 1 ELSE 0

OpInv ==
  /\ OpTypeOK /\ MonthsAreCleared /\ ClearedIsExact
  /\ opTrouble = 0 => op.undeleted = {}
  /\ TwiceNeedsFailedDelete

LEMMA NoRunType ==
  /\ NoRun \in OpRun /\ NoRun.pc = "idle" /\ NoRun.todo = {} /\ NoRun.listed = {}
  /\ NoRun.cleared = {} /\ NoRun.undeleted = {}
BY DEF NoRun, OpRun

LEMMA EmptyIs == Empty \in [OpFiles -> Nat] /\ \A f \in OpFiles : Empty[f] = 0
BY DEF Empty

LEMMA OpInitInv == OpInit => OpInv
<1> SUFFICES ASSUME OpInit PROVE OpInv
  OBVIOUS
<1>1. /\ strict \in BOOLEAN /\ present = {} /\ opTrouble = 0 /\ op = NoRun
      /\ out = [m \in Months |-> Empty]
  BY DEF OpInit
<1>2. OpTypeOK
  BY <1>1, NoRunType, EmptyIs DEF OpTypeOK
<1>3. MonthsAreCleared /\ ClearedIsExact /\ (opTrouble = 0 => op.undeleted = {})
  BY <1>1, NoRunType DEF MonthsAreCleared, ClearedIsExact
<1>4. TwiceNeedsFailedDelete
  <2>1. \A m \in Months, f \in OpFiles : out[m][f] = 0
    BY <1>1, EmptyIs
  <2> QED BY <2>1 DEF TwiceNeedsFailedDelete
<1> QED BY <1>2, <1>3, <1>4 DEF OpInv

(* What a run that works on a file has before it.                            *)
LEMMA FileIsNext ==
  ASSUME OpInv, Working
  PROVE  /\ File \in op.todo /\ File \in op.listed /\ File \in OpFiles /\ Month \in Months
         /\ op.todo \ {File} \subseteq op.listed /\ op.todo \ {File} \subseteq OpFiles
         /\ op.listed \ (op.todo \ {File}) = (op.listed \ op.todo) \cup {File}
<1>1. op.todo # {} /\ op.todo \subseteq OpFiles /\ op.todo \subseteq op.listed
  BY DEF Working, OpInv, OpTypeOK, OpRun
<1>2. op.todo \subseteq Nat
  BY <1>1, OperationAssumption
<1>3. \E f \in op.todo : \A g \in op.todo : f <= g
  BY <1>1, <1>2, LeastOf
<1>4. File \in op.todo
  BY <1>3 DEF File
<1>5. Month \in Months
  BY <1>1, <1>4 DEF Month, Months
<1> QED BY <1>1, <1>4, <1>5

(* A run that is given up, or ends, or begins.                               *)
LEMMA OpRunEnds ==
  ASSUME OpInv, op' = NoRun, UNCHANGED <<strict, present>>, opTrouble' \in Nat,
         out' \in [Months -> [OpFiles -> Nat]], opTrouble' = 0 => out' = out /\ opTrouble = 0
  PROVE  OpInv'
<1>1. OpTypeOK'
  BY NoRunType DEF OpInv, OpTypeOK
<1>2. MonthsAreCleared' /\ ClearedIsExact' /\ (opTrouble = 0 => op.undeleted = {})'
  BY NoRunType DEF MonthsAreCleared, ClearedIsExact
<1>3. TwiceNeedsFailedDelete'
  BY DEF OpInv, TwiceNeedsFailedDelete
<1> QED BY <1>1, <1>2, <1>3 DEF OpInv

LEMMA OpListKeeps == ASSUME OpInv, ListFiles PROVE OpInv'
<1>1. UNCHANGED <<strict, present, out, opTrouble>>
  BY DEF ListFiles
<1>2. /\ op' \in OpRun /\ op'.todo = present /\ op'.listed = present
      /\ op'.cleared = {} /\ op'.undeleted = {}
  BY NoRunType DEF ListFiles, OpInv, OpTypeOK, OpRun
<1>3. OpTypeOK'
  BY <1>1, <1>2 DEF OpInv, OpTypeOK
<1>4. MonthsAreCleared' /\ ClearedIsExact' /\ (opTrouble = 0 => op.undeleted = {})'
  BY <1>1, <1>2 DEF MonthsAreCleared, ClearedIsExact
<1>5. TwiceNeedsFailedDelete'
  BY <1>1 DEF OpInv, TwiceNeedsFailedDelete
<1> QED BY <1>3, <1>4, <1>5 DEF OpInv

LEMMA OpSkipKeeps == ASSUME OpInv, SkipFile PROVE OpInv'
<1>1. UNCHANGED <<strict, present, out, opTrouble>> /\ Working /\ strict /\ Month = Undated
  BY DEF SkipFile, Dated
<1>2. /\ op' \in OpRun /\ op'.todo = op.todo \ {File} /\ op'.listed = op.listed
      /\ op'.cleared = op.cleared /\ op'.undeleted = op.undeleted
  BY FileIsNext, <1>1 DEF SkipFile, OpInv, OpTypeOK, OpRun
<1>3. OpTypeOK'
  BY <1>1, <1>2, FileIsNext DEF OpInv, OpTypeOK
<1>4. MonthsAreCleared'
  BY <1>1, <1>2, FileIsNext DEF OpInv, MonthsAreCleared, Month
<1>5. ClearedIsExact'
  <2>1. Undated \notin op.cleared
    BY <1>1 DEF OpInv, MonthsAreCleared
  <2>2. ASSUME NEW m \in op.cleared \ op.undeleted, NEW f \in OpFiles
        PROVE  out[m][f] = IF MonthOf[f] = m /\ f \in op'.listed \ op'.todo THEN 1 ELSE 0
    <3>1. MonthOf[f] = m => f # File
      BY <1>1, <2>1, <2>2 DEF Month
    <3> QED BY <1>1, <1>2, <2>2, <3>1, FileIsNext DEF OpInv, ClearedIsExact
  <2> QED BY <1>1, <1>2, <2>2 DEF ClearedIsExact
<1>6. (opTrouble = 0 => op.undeleted = {})' /\ TwiceNeedsFailedDelete'
  BY <1>1, <1>2 DEF OpInv, TwiceNeedsFailedDelete
<1> QED BY <1>3, <1>4, <1>5, <1>6 DEF OpInv

(* The file is appended, to a partition cleared now, before, or not at all.  *)
LEMMA OpAppendKeeps ==
  ASSUME OpInv, Working, Dated, UNCHANGED <<strict, present>>, opTrouble' \in Nat,
         out' \in [Months -> [OpFiles -> Nat]], NEW U \in SUBSET Months,
         op' = [op EXCEPT !.todo = @ \ {File}, !.cleared = @ \cup {Month}, !.undeleted = U],
         op.undeleted \subseteq U, Month \in U \/ U = op.undeleted,
         opTrouble' = 0 => opTrouble = 0 /\ U = op.undeleted,
         \A m \in Months : m # Month => out'[m] = out[m],
         Month \notin U =>
           \A f \in OpFiles :
             out'[Month][f] = IF MonthOf[f] = Month /\ f \in (op.listed \ op.todo) \cup {File} THEN 1 ELSE 0
  PROVE  OpInv'
<1>1. /\ File \in OpFiles /\ Month \in Months
      /\ op.listed \ (op.todo \ {File}) = (op.listed \ op.todo) \cup {File}
  BY FileIsNext
<1>2. /\ op' \in OpRun /\ op'.todo = op.todo \ {File} /\ op'.listed = op.listed
      /\ op'.cleared = op.cleared \cup {Month} /\ op'.undeleted = U
  BY <1>1, FileIsNext DEF OpInv, OpTypeOK, OpRun
<1>3. OpTypeOK'
  BY <1>2, FileIsNext DEF OpInv, OpTypeOK
<1>4. MonthsAreCleared'
  <2>1. strict => Month # Undated
    BY DEF Dated
  <2> QED BY <1>1, <1>2, <2>1 DEF OpInv, MonthsAreCleared, Month
<1>5. ASSUME NEW m \in op'.cleared \ op'.undeleted, NEW f \in OpFiles
      PROVE  out'[m][f] = IF MonthOf[f] = m /\ f \in op'.listed \ op'.todo THEN 1 ELSE 0
  <2>1. CASE m = Month
    BY <1>1, <1>2, <1>5, <2>1
  <2>2. CASE m # Month
    <3>1. m \in op.cleared \ op.undeleted /\ m \in Months
      BY <1>2, <1>5, <2>2 DEF OpRun
    <3>2. MonthOf[f] = m => f # File
      BY <2>2 DEF Month
    <3> QED BY <1>1, <1>2, <2>2, <3>1, <3>2 DEF OpInv, ClearedIsExact
  <2> QED BY <2>1, <2>2
<1>6. ClearedIsExact'
  BY <1>5 DEF ClearedIsExact
<1>7. (opTrouble = 0 => op.undeleted = {})'
  BY <1>2 DEF OpInv
<1>8. TwiceNeedsFailedDelete'
  <2> SUFFICES ASSUME opTrouble' = 0, NEW m \in Months, NEW f \in OpFiles PROVE out'[m][f] <= 1
    BY DEF TwiceNeedsFailedDelete
  <2>1. CASE m = Month
    <3>1. U = {} /\ Month \notin U
      BY DEF OpInv
    <3> QED BY <2>1, <3>1
  <2>2. CASE m # Month
    BY <2>2 DEF OpInv, TwiceNeedsFailedDelete
  <2> QED BY <2>1, <2>2
<1> QED BY <1>3, <1>4, <1>6, <1>7, <1>8 DEF OpInv

LEMMA OpAppendFileKeeps == ASSUME OpInv, AppendFile PROVE OpInv'
<1>1. /\ Working /\ Dated /\ UNCHANGED <<strict, present, opTrouble>>
      /\ op.undeleted \in SUBSET Months /\ opTrouble \in Nat
      /\ op \in OpRun /\ out \in [Months -> [OpFiles -> Nat]]
  BY DEF AppendFile, OpInv, OpTypeOK, OpRun
<1>2. op' = [op EXCEPT !.todo = @ \ {File}, !.cleared = @ \cup {Month}, !.undeleted = op.undeleted]
  BY <1>1 DEF AppendFile, OpRun
<1>3. File \in OpFiles /\ Month \in Months /\ File \in op.todo /\ Month = MonthOf[File]
  BY <1>1, FileIsNext DEF Month
<1> DEFINE done == (op.listed \ op.todo) \cup {File}
<1>4. CASE Month \in op.cleared
  <2>1. out' = [out EXCEPT ![Month][File] = @ + 1]
    BY <1>4 DEF AppendFile
  <2>2. out' \in [Months -> [OpFiles -> Nat]] /\ \A m \in Months : m # Month => out'[m] = out[m]
    BY <1>1, <1>3, <2>1
  <2>3. ASSUME Month \notin op.undeleted, NEW f \in OpFiles
        PROVE  out'[Month][f] = IF MonthOf[f] = Month /\ f \in done THEN 1 ELSE 0
    <3>1. out[Month][f] = IF MonthOf[f] = Month /\ f \in op.listed \ op.todo THEN 1 ELSE 0
      BY <1>4, <2>3 DEF OpInv, ClearedIsExact
    <3>2. CASE f = File
      BY <1>1, <1>3, <2>1, <3>1, <3>2
    <3>3. CASE f # File
      BY <1>1, <1>3, <2>1, <3>1, <3>3
    <3> QED BY <3>2, <3>3
  <2> QED BY <1>1, <1>2, <2>2, <2>3, OpAppendKeeps
<1>5. CASE Month \notin op.cleared
  <2>1. out' = [out EXCEPT ![Month] = [Empty EXCEPT ![File] = 1]]
    BY <1>5 DEF AppendFile
  <2>2. out' \in [Months -> [OpFiles -> Nat]] /\ \A m \in Months : m # Month => out'[m] = out[m]
    BY <1>1, <1>3, <2>1, EmptyIs
  <2>3. ASSUME NEW f \in OpFiles
        PROVE  out'[Month][f] = IF MonthOf[f] = Month /\ f \in done THEN 1 ELSE 0
    <3>1. out'[Month][f] = IF f = File THEN 1 ELSE 0
      BY <1>1, <1>3, <2>1, EmptyIs
    <3>2. f \in op.listed \ op.todo => MonthOf[f] # Month
      BY <1>1, <1>3, <1>5 DEF OpInv, MonthsAreCleared, Dated
    <3> QED BY <1>3, <3>1, <3>2
  <2> QED BY <1>1, <1>2, <2>2, <2>3, OpAppendKeeps
<1> QED BY <1>4, <1>5

LEMMA OpAppendUnclearedKeeps == ASSUME OpInv, AppendUncleared PROVE OpInv'
<1>1. /\ Working /\ Dated /\ UNCHANGED <<strict, present>>
      /\ op.undeleted \cup {Month} \in SUBSET Months /\ opTrouble \in Nat
      /\ op \in OpRun /\ out \in [Months -> [OpFiles -> Nat]]
      /\ opTrouble' = opTrouble + 1
  BY FileIsNext DEF AppendUncleared, OpInv, OpTypeOK, OpRun, OpTrouble
<1>2. op' = [op EXCEPT !.todo = @ \ {File}, !.cleared = @ \cup {Month},
                       !.undeleted = op.undeleted \cup {Month}]
  BY <1>1 DEF AppendUncleared, OpRun
<1>3. File \in OpFiles /\ Month \in Months
  BY <1>1, FileIsNext
<1>4. out' \in [Months -> [OpFiles -> Nat]] /\ \A m \in Months : m # Month => out'[m] = out[m]
  <2>1. out' = [out EXCEPT ![Month][File] = @ + 1]
    BY DEF AppendUncleared
  <2> QED BY <1>1, <1>3, <2>1
<1>5. opTrouble' \in Nat /\ opTrouble' # 0
  BY <1>1
<1> QED BY <1>1, <1>2, <1>4, <1>5, OpAppendKeeps

LEMMA OpFailKeeps == ASSUME OpInv, FileFails PROVE OpInv'
<1>1. /\ op' = NoRun /\ UNCHANGED <<strict, present>> /\ opTrouble' = opTrouble + 1
      /\ opTrouble \in Nat /\ out \in [Months -> [OpFiles -> Nat]]
  BY DEF FileFails, OpTrouble, OpInv, OpTypeOK
<1>2. out' \in [Months -> [OpFiles -> Nat]]
  <2>1. out' = out \/ out' = [out EXCEPT ![Month] = Empty]
    BY DEF FileFails
  <2> QED BY <1>1, <2>1, EmptyIs
<1>3. opTrouble' \in Nat /\ opTrouble' # 0
  BY <1>1
<1> QED BY <1>1, <1>2, <1>3, OpRunEnds

LEMMA OpStepInv == OpInv /\ [OpNext]_opVars => OpInv'
<1> SUFFICES ASSUME OpInv, [OpNext]_opVars PROVE OpInv'
  OBVIOUS
<1>1. ASSUME NEW f \in OpFiles, Arrive(f) PROVE OpInv'
  <2>1. UNCHANGED <<strict, out, op, opTrouble>> /\ present' = present \cup {f}
    BY <1>1 DEF Arrive
  <2>2. OpTypeOK'
    BY <2>1 DEF OpInv, OpTypeOK
  <2> QED BY <2>1, <2>2 DEF OpInv, MonthsAreCleared, ClearedIsExact, TwiceNeedsFailedDelete
<1>2. CASE EndOfFiles
  <2>1. op' = NoRun /\ UNCHANGED <<strict, present, out, opTrouble>>
    BY <1>2 DEF EndOfFiles
  <2>2. opTrouble \in Nat /\ out \in [Months -> [OpFiles -> Nat]]
    BY DEF OpInv, OpTypeOK
  <2> QED BY <2>1, <2>2, OpRunEnds
<1>3. CASE UNCHANGED opVars
  <2>1. UNCHANGED <<strict, present, out, op, opTrouble>>
    BY <1>3 DEF opVars
  <2>2. OpTypeOK'
    BY <2>1 DEF OpInv, OpTypeOK
  <2> QED BY <2>1, <2>2 DEF OpInv, MonthsAreCleared, ClearedIsExact, TwiceNeedsFailedDelete
<1> QED BY <1>1, <1>2, <1>3, OpListKeeps, OpSkipKeeps, OpAppendFileKeeps, OpAppendUnclearedKeeps,
           OpFailKeeps DEF OpNext

LEMMA OpInvariant == OpSpec => []OpInv
BY OpInitInv, OpStepInv, PTL DEF OpSpec

(* A file comes twice into its partition only after a delete that failed     *)
(* (delete_path_if_exists), however many runs, files and failures there are. *)
THEOREM TwiceAfterFailedDeleteOnly == OpSpec => []TwiceNeedsFailedDelete
<1>1. OpInv => TwiceNeedsFailedDelete
  BY DEF OpInv
<1> QED BY <1>1, OpInvariant, PTL

(* A run of a process_* function that gets to its end leaves each partition  *)
(* it cleared with every listed file of the month, once.                     *)
THEOREM FinishedRunIsExact == OpSpec => RunIsExact
<1>1. ASSUME OpInv, op.pc = "run", op.todo = {}, NEW m \in op.cleared \ op.undeleted, NEW f \in OpFiles
      PROVE  out[m][f] = (IF MonthOf[f] = m /\ f \in op.listed THEN 1 ELSE 0)
  BY <1>1 DEF OpInv, ClearedIsExact
<1>2. OpInv /\ [OpNext]_opVars =>
        [ (op.pc = "run" /\ op.todo = {} /\ op'.pc = "idle") =>
            \A m \in op.cleared \ op.undeleted :
              \A f \in OpFiles : out[m][f] = (IF MonthOf[f] = m /\ f \in op.listed THEN 1 ELSE 0) ]_opVars
  BY <1>1
<1> QED BY <1>2, OpInvariant, PTL DEF OpSpec, RunIsExact

-----------------------------------------------------------------------------
(* AccountingDrafts.                                                        *)

Keys == Dates \X Nat \X Names
DraftRun == [pc : {"idle", "parse", "upload"}, all : BOOLEAN, day : Nat, todo : SUBSET Keys,
             parsed : SUBSET Stored, picked : SUBSET Stored]

DraftTypeOK ==
  /\ engine \in {"spark", "pandas"} /\ csvs \subseteq Stored /\ draft \in DraftRun
  /\ chosen \in [Dates -> SUBSET Stored]

(* c is as detailed as o and, of those, as new.                              *)
AsGood(c, o) ==
  /\ c.name = o.name
  /\ (c.detailed = o.detailed /\ c.ts >= o.ts) \/ (c.detailed /\ ~o.detailed)

(* The run d of draft e, with the directory cs and the uploads ch: what it   *)
(* parses is of its day, and every file it parsed has one as good among the  *)
(* picked and the uploaded.                                                  *)
RunOK(d, e, cs, ch) ==
  /\ d.pc # "idle" => d.day \in Dates
  /\ \A o \in d.parsed : Key(o) \notin d.todo
  /\ e = "spark" => \A o \in d.parsed \cup d.picked : o.biz = d.day
  /\ e = "pandas" => d.parsed \subseteq cs
  /\ d.pc = "upload" => \A o \in d.parsed : \E c \in d.picked \cup ch[d.day] : AsGood(c, o)

(* The objects listed are there still, or newer ones of their keys.          *)
KeysAreObjects == \A k \in draft.todo : \E o \in raw : Key(o) = k

DraftInv == AccInv /\ DraftTypeOK /\ KeysAreObjects /\ RunOK(draft, engine, csvs, chosen)

LEMMA KeyIs ==
  ASSUME NEW o \in Stored
  PROVE  Key(o) \in Keys /\ Key(o)[1] = o.biz /\ Key(o)[1] \in Dates
BY DEF Key, Keys, Stored

LEMMA NoDraftIs ==
  ASSUME NEW e, NEW cs, NEW ch
  PROVE  NoDraft \in DraftRun /\ NoDraft.todo = {} /\ RunOK(NoDraft, e, cs, ch)
BY DEF NoDraft, DraftRun, RunOK

(* The dates go by from the first one.                                       *)
LEMMA NextDateIs ==
  ASSUME NEW todo, todo \subseteq Keys, todo # {}
  PROVE  NextDate(todo) \in Dates
<1> DEFINE days == {k[1] : k \in todo}
<1>1. days # {} /\ days \subseteq Dates /\ days \subseteq Nat
  BY DEF Keys, Dates
<1>2. \E d \in days : \A m \in days : d <= m
  BY <1>1, LeastOf
<1>3. \E d \in days : \A k \in todo : d <= k[1]
  BY <1>2
<1>4. NextDate(todo) \in days
  BY <1>3 DEF NextDate
<1> QED BY <1>1, <1>4

LEMMA AfterBatchIs ==
  ASSUME NEW run \in DraftRun, NEW e, NEW cs, NEW ch
  PROVE  /\ AfterBatch(run) \in DraftRun /\ AfterBatch(run).todo \subseteq run.todo
         /\ RunOK(AfterBatch(run), e, cs, ch)
<1>1. CASE run.todo = {}
  BY <1>1, NoDraftIs DEF AfterBatch
<1>2. CASE run.todo # {}
  <2>1. NextDate(run.todo) \in Dates /\ NextDate(run.todo) \in Nat
    BY <1>2, NextDateIs DEF DraftRun, Dates
  <2>2. AfterBatch(run) = [run EXCEPT !.pc = "parse", !.parsed = {}, !.picked = {},
                                      !.day = NextDate(run.todo)]
    BY <1>2 DEF AfterBatch
  <2>3. /\ AfterBatch(run) \in DraftRun /\ AfterBatch(run).todo = run.todo
        /\ AfterBatch(run).pc = "parse" /\ AfterBatch(run).parsed = {} /\ AfterBatch(run).picked = {}
        /\ AfterBatch(run).day \in Dates
    BY <2>1, <2>2 DEF DraftRun
  <2> QED BY <2>3 DEF RunOK
<1> QED BY <1>1, <1>2

(* A copy replaces an object by one of its key.                              *)
LEMMA ObjectsStay ==
  ASSUME AccInv, [AccNext]_accVars, NEW o \in raw
  PROVE  \E p \in raw' : Key(p) = Key(o)
<1>1. ASSUME NEW q, Put(q) PROVE \E p \in raw' : Key(p) = Key(o)
  <2>1. CASE Key(o) = Key(q)
    <3>1. q \in raw'
      BY <1>1 DEF Put
    <3> QED BY <2>1, <3>1
  <2>2. CASE Key(o) # Key(q)
    <3>1. o \in raw'
      BY <1>1, <2>2 DEF Put, Key
    <3> QED BY <3>1
  <2> QED BY <2>1, <2>2
<1>2. ASSUME NEW x \in sync.todo, CopyFile(x) PROVE \E p \in raw' : Key(p) = Key(o)
  <2>1. raw' = raw \/ Put(Object(x, x.ts))
    BY <1>2 DEF CopyFile
  <2> QED BY <1>1, <2>1
<1>3. raw' = raw \/ \E x \in sync.todo : CopyFile(x)
  BY DEF AccNext, accVars, NextDay, Export, StartSync, CopyError, CreateSuccessMarkers, SyncDies,
         ParseFolder
<1> QED BY <1>2, <1>3

LEMMA DraftInitInv == AccInit /\ DraftInit => DraftInv
<1> SUFFICES ASSUME AccInit, DraftInit PROVE DraftInv
  OBVIOUS
<1>1. engine \in {"spark", "pandas"} /\ csvs = {} /\ draft = NoDraft /\ chosen = [d \in Dates |-> {}]
  BY DEF DraftInit
<1>2. DraftTypeOK
  BY <1>1, NoDraftIs DEF DraftTypeOK
<1>3. KeysAreObjects /\ RunOK(draft, engine, csvs, chosen)
  BY <1>1, NoDraftIs DEF KeysAreObjects
<1> QED BY <1>2, <1>3, AccInitInv DEF DraftInv

(* The folders go their own way.                                             *)
LEMMA FoldersKeep ==
  ASSUME DraftInv, [AccNext]_accVars, UNCHANGED draftVars
  PROVE  DraftInv'
<1>1. UNCHANGED <<engine, csvs, draft, chosen>>
  BY DEF draftVars
<1>2. AccInv'
  BY AccStepInv DEF DraftInv
<1>3. DraftTypeOK'
  BY <1>1 DEF DraftInv, DraftTypeOK
<1>4. RunOK(draft, engine, csvs, chosen)'
  BY <1>1 DEF DraftInv, RunOK
<1>5. ASSUME NEW k \in draft.todo PROVE \E o \in raw' : Key(o) = k
  <2>1. PICK o \in raw : Key(o) = k
    BY DEF DraftInv, KeysAreObjects
  <2> QED BY <2>1, ObjectsStay DEF DraftInv
<1>6. KeysAreObjects'
  BY <1>1, <1>5 DEF KeysAreObjects
<1> QED BY <1>2, <1>3, <1>4, <1>6 DEF DraftInv

(* The run goes on to d, over some of its keys.                              *)
LEMMA DraftStepKeeps ==
  ASSUME DraftInv, UNCHANGED <<today, server, writes, raw, marked, sync, engine>>,
         csvs' \subseteq Stored, chosen' \in [Dates -> SUBSET Stored],
         NEW d \in DraftRun, draft' = d, \A k \in d.todo : \E o \in raw : Key(o) = k,
         RunOK(d, engine, csvs', chosen')
  PROVE  DraftInv'
<1>1. AccInv /\ today \in Dates /\ sync \in SyncType /\ \A x \in sync.todo : x.ts <= server[x.name].ver
  BY DEF DraftInv, AccInv, AccTypeOK, OldestFirst
<1>2. AccInv'
  BY <1>1, OtherKeeps
<1>3. DraftTypeOK'
  BY DEF DraftInv, DraftTypeOK
<1>4. KeysAreObjects'
  BY DEF KeysAreObjects
<1>5. RunOK(draft, engine, csvs, chosen)'
  BY DEF RunOK
<1> QED BY <1>2, <1>3, <1>4, <1>5 DEF DraftInv

LEMMA StartDraftKeeps ==
  ASSUME DraftInv, NEW days \in SUBSET Dates, StartDraft(days)
  PROVE  DraftInv'
<1> DEFINE todo == {Key(o) : o \in UNION {Folder(d) : d \in days}}
<1>1. /\ todo # {} /\ csvs' \in {csvs, {}} /\ UNCHANGED <<engine, chosen>> /\ UNCHANGED accVars
      /\ draft' = [NoDraft EXCEPT !.pc = "parse", !.all = days = Dates, !.todo = todo,
                                  !.day = NextDate(todo)]
  BY DEF StartDraft
<1>2. \A k \in todo : \E o \in raw : Key(o) = k
  BY DEF Folder
<1>3. raw \subseteq Stored /\ DraftTypeOK
  BY DEF DraftInv, AccInv, AccTypeOK
<1>4. todo \subseteq Keys
  BY <1>2, <1>3, KeyIs
<1> HIDE DEF todo
<1>5. NextDate(todo) \in Dates /\ NextDate(todo) \in Nat
  BY <1>1, <1>4, NextDateIs DEF Dates
<1>6. PICK d : d = draft'
  OBVIOUS
<1>7. /\ d \in DraftRun /\ d.pc = "parse" /\ d.todo = todo /\ d.parsed = {} /\ d.picked = {}
      /\ d.day \in Dates
  BY <1>1, <1>4, <1>5, <1>6, NoDraftIs DEF DraftRun, NoDraft
<1>8. RunOK(d, engine, csvs', chosen')
  BY <1>7 DEF RunOK
<1>9. csvs' \subseteq Stored /\ chosen' \in [Dates -> SUBSET Stored]
  BY <1>1, <1>3 DEF DraftTypeOK
<1>10. UNCHANGED <<today, server, writes, raw, marked, sync, engine>>
  BY <1>1 DEF accVars
<1> QED BY <1>2, <1>6, <1>7, <1>8, <1>9, <1>10, DraftStepKeeps

LEMMA ParseFileKeeps ==
  ASSUME DraftInv, NEW k \in draft.todo, ParseFile(k)
  PROVE  DraftInv'
<1> DEFINE o == CHOOSE x \in raw : Key(x) = k
<1>1. /\ draft.pc = "parse" /\ k \in Batch(draft.todo, draft.day)
      /\ draft' = [draft EXCEPT !.todo = @ \ {k}, !.parsed = @ \cup {o}]
      /\ csvs' = IF engine = "pandas" THEN {c \in csvs : Key(c) # k} \cup {o} ELSE csvs
      /\ UNCHANGED <<engine, chosen>> /\ UNCHANGED accVars
  BY DEF ParseFile
<1>2. DraftTypeOK /\ draft \in DraftRun /\ KeysAreObjects /\ RunOK(draft, engine, csvs, chosen)
  BY DEF DraftInv, DraftTypeOK
<1>3. o \in raw /\ Key(o) = k
  BY <1>2 DEF KeysAreObjects
<1>4. o \in Stored
  BY <1>3 DEF DraftInv, AccInv, AccTypeOK
<1> HIDE DEF o
<1>5. PICK d : d = draft'
  OBVIOUS
<1>6. /\ d \in DraftRun /\ d.pc = "parse" /\ d.todo = draft.todo \ {k} /\ d.day = draft.day
      /\ d.parsed = draft.parsed \cup {o} /\ d.picked = draft.picked
  BY <1>1, <1>2, <1>4, <1>5 DEF DraftRun
<1>7. engine = "spark" => o.biz = draft.day
  BY <1>1, <1>3, <1>4, KeyIs DEF Batch
<1>8. \A p \in draft.parsed : Key(p) # k
  BY <1>2 DEF RunOK
<1>9. RunOK(d, engine, csvs', chosen')
  <2>1. d.day \in Dates
    BY <1>1, <1>2, <1>6 DEF RunOK
  <2>2. \A p \in d.parsed : Key(p) \notin d.todo
    BY <1>2, <1>3, <1>6 DEF RunOK
  <2>3. engine = "spark" => \A p \in d.parsed \cup d.picked : p.biz = d.day
    BY <1>2, <1>6, <1>7 DEF RunOK
  <2>4. engine = "pandas" => d.parsed \subseteq csvs'
    BY <1>1, <1>2, <1>6, <1>8 DEF RunOK
  <2> QED BY <1>6, <2>1, <2>2, <2>3, <2>4 DEF RunOK
<1>10. csvs' \subseteq Stored /\ chosen' \in [Dates -> SUBSET Stored]
  BY <1>1, <1>2, <1>4 DEF DraftTypeOK
<1>11. \A j \in d.todo : \E p \in raw : Key(p) = j
  BY <1>2, <1>6 DEF KeysAreObjects
<1>12. UNCHANGED <<today, server, writes, raw, marked, sync, engine>>
  BY <1>1 DEF accVars
<1> QED BY <1>5, <1>6, <1>9, <1>10, <1>11, <1>12, DraftStepKeeps

LEMMA ParseErrorKeeps ==
  ASSUME DraftInv, NEW k \in draft.todo, ParseError(k)
  PROVE  DraftInv'
<1>1. /\ draft' = [draft EXCEPT !.todo = @ \ {k}] /\ UNCHANGED <<engine, csvs, chosen>>
      /\ UNCHANGED <<today, server, writes, raw, marked, sync>>
  BY DEF ParseError
<1>2. DraftTypeOK /\ draft \in DraftRun /\ KeysAreObjects /\ RunOK(draft, engine, csvs, chosen)
  BY DEF DraftInv, DraftTypeOK
<1>3. PICK d : d = draft'
  OBVIOUS
<1>4. /\ d \in DraftRun /\ d.pc = draft.pc /\ d.todo = draft.todo \ {k} /\ d.day = draft.day
      /\ d.parsed = draft.parsed /\ d.picked = draft.picked
  BY <1>1, <1>2, <1>3 DEF DraftRun
<1>5. RunOK(d, engine, csvs', chosen')
  BY <1>1, <1>2, <1>4 DEF RunOK
<1>6. \A j \in d.todo : \E p \in raw : Key(p) = j
  BY <1>2, <1>4 DEF KeysAreObjects
<1>7. csvs' \subseteq Stored /\ chosen' \in [Dates -> SUBSET Stored]
  BY <1>1, <1>2 DEF DraftTypeOK
<1> QED BY <1>1, <1>3, <1>4, <1>5, <1>6, <1>7, DraftStepKeeps

(* Every parsed file has one as good in the selection.                       *)
LEMMA SelectionIsGood ==
  ASSUME NEW files \in SUBSET Stored, NEW S \in Selections(files), NEW o \in files
  PROVE  S \subseteq files /\ \E s \in S : AsGood(s, o)
<1>1. S \subseteq files /\ \A s \in S : Best(files, s)
  BY DEF Selections
<1>2. Cardinality({s \in S : s.name = o.name}) = 1
  BY DEF Selections
<1>3. {s \in S : s.name = o.name} # {}
  BY <1>2, FS_EmptySet
<1>4. PICK s \in S : s.name = o.name
  BY <1>3
<1>5. (o.detailed = s.detailed /\ o.ts <= s.ts) \/ (s.detailed /\ ~o.detailed)
  BY <1>1, <1>4 DEF Best
<1>6. o.ts \in Nat /\ s.ts \in Nat
  BY <1>1, <1>4 DEF Stored
<1> QED BY <1>1, <1>4, <1>5, <1>6 DEF AsGood

LEMMA FindLatestKeeps == ASSUME DraftInv, FindLatest PROVE DraftInv'
<1>0. PICK S \in Selections(Candidates) :
        \E day \in IF engine = "pandas" /\ draft.all THEN {o.biz : o \in S} ELSE {draft.day} :
          draft' = [draft EXCEPT !.pc = "upload", !.picked = S, !.day = day]
  BY DEF FindLatest
<1>1. PICK day \in IF engine = "pandas" /\ draft.all THEN {o.biz : o \in S} ELSE {draft.day} :
        draft' = [draft EXCEPT !.pc = "upload", !.picked = S, !.day = day]
  BY <1>0
<1>2. /\ draft.pc = "parse" /\ Candidates # {} /\ UNCHANGED <<engine, csvs, chosen>>
      /\ UNCHANGED accVars
  BY DEF FindLatest, BatchIsParsed
<1>3. DraftTypeOK /\ draft \in DraftRun /\ KeysAreObjects /\ RunOK(draft, engine, csvs, chosen)
  BY DEF DraftInv, DraftTypeOK
<1>4. Candidates \in SUBSET Stored
  BY <1>3 DEF Candidates, DraftTypeOK, DraftRun
<1>5. draft.parsed \subseteq Candidates
  BY <1>3 DEF Candidates, RunOK, DraftTypeOK
<1>6. S \subseteq Candidates
  BY DEF Selections
<1>7. day \in Dates
  <2>1. draft.day \in Dates
    BY <1>2, <1>3 DEF RunOK
  <2>2. \A o \in S : o.biz \in Dates
    BY <1>4, <1>6 DEF Stored
  <2> QED BY <1>1, <2>1, <2>2
<1>8. PICK d : d = draft'
  OBVIOUS
<1>9. /\ d \in DraftRun /\ d.pc = "upload" /\ d.todo = draft.todo /\ d.day = day
      /\ d.parsed = draft.parsed /\ d.picked = S
  <2>1. day \in Nat /\ S \in SUBSET Stored
    BY <1>4, <1>6, <1>7 DEF Dates
  <2> QED BY <1>1, <1>3, <1>8, <2>1 DEF DraftRun
<1>10. RunOK(d, engine, csvs', chosen')
  <2>1. \A o \in d.parsed : Key(o) \notin d.todo
    BY <1>3, <1>9 DEF RunOK
  <2>2. engine = "spark" => \A o \in d.parsed \cup d.picked : o.biz = d.day
    <3>1. engine = "spark" => day = draft.day /\ Candidates = draft.parsed
      BY <1>1 DEF Candidates
    <3> QED BY <1>3, <1>6, <1>9, <3>1 DEF RunOK
  <2>3. engine = "pandas" => d.parsed \subseteq csvs'
    BY <1>2, <1>3, <1>9 DEF RunOK
  <2>4. \A o \in d.parsed : \E c \in d.picked : AsGood(c, o)
    BY <1>4, <1>5, <1>9, SelectionIsGood
  <2> QED BY <1>7, <1>9, <2>1, <2>2, <2>3, <2>4 DEF RunOK
<1>11. \A j \in d.todo : \E p \in raw : Key(p) = j
  BY <1>3, <1>9 DEF KeysAreObjects
<1>12. csvs' \subseteq Stored /\ chosen' \in [Dates -> SUBSET Stored]
  BY <1>2, <1>3 DEF DraftTypeOK
<1>13. UNCHANGED <<today, server, writes, raw, marked, sync, engine>>
  BY <1>2 DEF accVars
<1> QED BY <1>8, <1>9, <1>10, <1>11, <1>12, <1>13, DraftStepKeeps

LEMMA UploadNextKeeps ==
  ASSUME DraftInv, NEW o \in draft.picked, UploadNext(o)
  PROVE  DraftInv'
<1>1. /\ draft.pc = "upload" /\ UNCHANGED <<engine, csvs>> /\ UNCHANGED accVars
      /\ chosen' = [chosen EXCEPT ![draft.day] = @ \cup {o}]
      /\ draft' = [draft EXCEPT !.picked = @ \ {o}]
  BY DEF UploadNext
<1>2. DraftTypeOK /\ draft \in DraftRun /\ KeysAreObjects /\ RunOK(draft, engine, csvs, chosen)
  BY DEF DraftInv, DraftTypeOK
<1>3. draft.day \in Dates
  BY <1>1, <1>2 DEF RunOK
<1>4. /\ chosen' \in [Dates -> SUBSET Stored]
      /\ chosen'[draft.day] = chosen[draft.day] \cup {o}
  <2>1. o \in Stored /\ chosen \in [Dates -> SUBSET Stored]
    BY <1>2 DEF DraftRun, DraftTypeOK
  <2> QED BY <1>1, <1>3, <2>1
<1>5. PICK d : d = draft'
  OBVIOUS
<1>6. /\ d \in DraftRun /\ d.pc = "upload" /\ d.todo = draft.todo /\ d.day = draft.day
      /\ d.parsed = draft.parsed /\ d.picked = draft.picked \ {o}
  BY <1>1, <1>2, <1>5 DEF DraftRun
<1>7. d.picked \cup chosen'[d.day] = draft.picked \cup chosen[draft.day]
  BY <1>4, <1>6
<1>8. RunOK(d, engine, csvs', chosen')
  <2>1. d.day \in Dates /\ \A p \in d.parsed : Key(p) \notin d.todo
    BY <1>2, <1>3, <1>6 DEF RunOK
  <2>2. engine = "spark" => \A p \in d.parsed \cup d.picked : p.biz = d.day
    BY <1>2, <1>6 DEF RunOK
  <2>3. engine = "pandas" => d.parsed \subseteq csvs'
    BY <1>1, <1>2, <1>6 DEF RunOK
  <2>4. \A p \in d.parsed : \E c \in d.picked \cup chosen'[d.day] : AsGood(c, p)
    BY <1>1, <1>2, <1>6, <1>7 DEF RunOK
  <2> QED BY <2>1, <2>2, <2>3, <2>4 DEF RunOK
<1>9. \A j \in d.todo : \E p \in raw : Key(p) = j
  BY <1>2, <1>6 DEF KeysAreObjects
<1>10. csvs' \subseteq Stored
  BY <1>1, <1>2 DEF DraftTypeOK
<1>11. UNCHANGED <<today, server, writes, raw, marked, sync, engine>>
  BY <1>1 DEF accVars
<1> QED BY <1>4, <1>5, <1>6, <1>8, <1>9, <1>10, <1>11, DraftStepKeeps

(* A batch ends, is given up, or the run dies.                               *)
LEMMA DraftEndsKeep ==
  ASSUME DraftInv, EndBatch \/ UploadError \/ DraftDies
  PROVE  DraftInv'
<1>1. /\ draft' = AfterBatch(draft) \/ draft' = NoDraft
      /\ UNCHANGED <<today, server, writes, raw, marked, sync, engine, csvs, chosen>>
  BY DEF EndBatch, UploadError, DraftDies, accVars
<1>2. DraftTypeOK /\ draft \in DraftRun /\ KeysAreObjects
  BY DEF DraftInv, DraftTypeOK
<1>3. PICK d : d = draft'
  OBVIOUS
<1>4. d \in DraftRun /\ d.todo \subseteq draft.todo /\ RunOK(d, engine, csvs', chosen')
  BY <1>1, <1>2, <1>3, AfterBatchIs, NoDraftIs
<1>5. \A j \in d.todo : \E p \in raw : Key(p) = j
  BY <1>2, <1>4 DEF KeysAreObjects
<1>6. csvs' \subseteq Stored /\ chosen' \in [Dates -> SUBSET Stored]
  BY <1>1, <1>2 DEF DraftTypeOK
<1> QED BY <1>1, <1>3, <1>4, <1>5, <1>6, DraftStepKeeps

LEMMA DraftStepInv == DraftInv /\ [DraftNext]_<<accVars, draftVars>> => DraftInv'
<1> SUFFICES ASSUME DraftInv, [DraftNext]_<<accVars, draftVars>> PROVE DraftInv'
  OBVIOUS
<1>1. CASE AccNext /\ UNCHANGED draftVars
  BY <1>1, FoldersKeep
<1>2. CASE UNCHANGED <<accVars, draftVars>>
  BY <1>2, FoldersKeep
<1>3. CASE StartDraft(Dates)
  BY <1>3, StartDraftKeeps
<1>4. ASSUME NEW d \in Dates, StartDraft({d}) PROVE DraftInv'
  BY <1>4, StartDraftKeeps
<1>5. CASE \E k \in draft.todo : ParseFile(k) \/ ParseError(k)
  BY <1>5, ParseFileKeeps, ParseErrorKeeps
<1>6. CASE FindLatest
  BY <1>6, FindLatestKeeps
<1>7. CASE EndBatch \/ UploadError \/ DraftDies
  BY <1>7, DraftEndsKeep
<1>8. CASE \E o \in draft.picked : UploadNext(o)
  BY <1>8, UploadNextKeeps
<1> QED BY <1>1, <1>2, <1>3, <1>4, <1>5, <1>6, <1>7, <1>8 DEF DraftNext

LEMMA DraftInvariant == DraftSpec => []DraftInv
BY DraftInitInv, DraftStepInv, PTL DEF DraftSpec

(* A batch whose upload ran to its end has left, for every report it parsed, *)
(* a file as detailed and, of those, as new (find_latest_summary_files).     *)
THEOREM NewestReportIsChosen == DraftSpec => []NewestIsChosen
<1>1. DraftInv => NewestIsChosen
  <2> SUFFICES ASSUME DraftInv, draft.pc = "upload", draft.picked = {}, NEW o \in draft.parsed
               PROVE  \E c \in chosen[draft.day] : AsGood(c, o)
    BY DEF NewestIsChosen, AsGood
  <2> QED BY DEF DraftInv, RunOK
<1> QED BY <1>1, DraftInvariant, PTL

(* The Spark draft uploads under a day the files of that day only.           *)
THEOREM SparkKeepsTheDay == DraftSpec => SelectedIsItsDay
<1> DEFINE OfTheDay == engine = "spark" => \A d \in Dates : \A o \in chosen'[d] \ chosen[d] : o.biz = d
<1>1. ASSUME DraftInv, NEW o \in draft.picked, UploadNext(o), engine = "spark",
             NEW d \in Dates, NEW p \in chosen'[d] \ chosen[d]
      PROVE  p.biz = d
  <2>1. chosen' = [chosen EXCEPT ![draft.day] = @ \cup {o}] /\ chosen \in [Dates -> SUBSET Stored]
    BY <1>1 DEF UploadNext, DraftInv, DraftTypeOK
  <2>2. d = draft.day /\ p = o
    BY <1>1, <2>1
  <2>3. o.biz = draft.day
    BY <1>1 DEF DraftInv, RunOK
  <2> QED BY <2>2, <2>3
<1>2. ASSUME DraftNext PROVE chosen' = chosen \/ \E o \in draft.picked : UploadNext(o)
  BY <1>2 DEF DraftNext, draftVars, StartDraft, ParseFile, ParseError, FindLatest, EndBatch,
              UploadError, DraftDies
<1>3. DraftInv /\ [DraftNext]_<<accVars, draftVars>> => [OfTheDay]_<<accVars, draftVars>>
  BY <1>1, <1>2
<1> QED BY <1>3, DraftInvariant, PTL DEF DraftSpec, SelectedIsItsDay

-----------------------------------------------------------------------------
(* SourceConfig: who seals what.                                            *)

(* What the ENQs pull, none reads from CDC.                                  *)
PullNames == {"posting_restrict", "company", "eb_lookup", "gic_id", "transaction", "category",
              "dept_acct_officer", "aa_product", "mcb_group"}

LEMMA EnqNames == Enqs = {"t24_acct_cust", "t24_ac_gic_close", "t24_ft_inremit",
  "t24_inactive_account_report", "t24_no_legal_doc_cus_report", "t24_daily_txn_9k",
  "t24_e_account_open", "t24_cris_report", "t24_find_arrangement_al_bnctl",
  "t24_aa_wof_loans_report", "trial_balance_detail"}
BY DEF Enqs, EnqSources

LEMMA PulledNames == PullUnion \subseteq PullNames
<1> SUFFICES ASSUME NEW e \in Enqs PROVE EnqSources[e].pull \subseteq PullNames
  BY DEF PullUnion
<1> QED BY EnqNames DEF EnqSources, Enq, PullNames

LEMMA CdcNames == CdcUnion \cap PullNames = {}
<1> SUFFICES ASSUME NEW e \in Enqs PROVE EnqSources[e].cdc \cap PullNames = {}
  BY DEF CdcUnion
<1> QED BY EnqNames DEF EnqSources, Enq, PullNames

(* What a build waits for is a bronze table.                                 *)
Awaited == AllSources \cup UNION {DomainConfigs[m].direct : m \in Domains}

LEMMA AwaitedInBronze == \A s \in Awaited : s[1] = "bronze"
<1>1. \A n : T24(n)[1] = "bronze" /\ Sftp(n)[1] = "bronze"
  BY DEF T24, Sftp
<1>2. \A s \in AllSources : s[1] = "bronze"
  BY <1>1 DEF AllSources, SourceSet
<1>3. ASSUME NEW m \in Domains, NEW s \in DomainConfigs[m].direct PROVE s[1] = "bronze"
  BY <1>1, <1>3 DEF Domains, DomainConfigs, Domain
<1> QED BY <1>2, <1>3 DEF Awaited

(* The benchmarks write into the test catalog; the three flows that the      *)
(* builds wait for have no table in common.                                  *)
LEMMA TestIsApart ==
  \A s \in BulkTables \cup FreshTables \cup JdbcTables : s[1] = "test"
BY DEF BulkTables, FreshTables, JdbcTables, TestTable

LEMMA FlowsAreApart ==
  /\ CdcSources \cap PullCobTables = {}
  /\ HoldTables \cap (CdcSources \cup PullCobTables) = {}
<1>1. \A n : T24(n)[2] = "t24_" /\ T24(n)[3] = n /\ Sftp(n)[2] = ""
  BY DEF T24, Sftp
<1>2. \A s \in CdcSources : s[2] = "t24_" /\ s[3] \in CdcUnion
  BY <1>1 DEF CdcSources
<1>3. ASSUME NEW s \in PullCobTables PROVE s[2] = "t24_" /\ s[3] \in PullUnion
  <2>1. PICK p \in PullFull : s = Resolve(p) /\ \E t \in PullUnion : Resolve(p) = T24(t)
    BY DEF PullCobTables
  <2>2. PICK t \in PullUnion : s = T24(t)
    BY <2>1
  <2> QED BY <1>1, <2>2
<1>4. \A s \in HoldTables : s[2] = ""
  BY <1>1 DEF HoldTables
<1> QED BY <1>2, <1>3, <1>4, PulledNames, CdcNames

RealDags == dags \subseteq DOMAIN Seals

(* Every row that a build waits for is sealed by one DAG.                    *)
THEOREM RowsHaveOneOwner == ConfigSpec => []OneOwner
<1>1. ConfigInit => RealDags
  BY DEF ConfigInit, RealDags
<1>2. RealDags /\ [ConfigNext]_configVars => RealDags'
  BY DEF ConfigNext, RunDag, BuildEnq, BuildDomain, configVars, RealDags
<1>3. RealDags => OneOwner
  <2> SUFFICES ASSUME NEW g \in DOMAIN Seals, NEW h \in DOMAIN Seals, g # h,
                      NEW s \in Seals[g], s \in Seals[h], s \in Awaited
               PROVE  FALSE
    BY DEF OneOwner, Awaited, RealDags
  <2>1. s[1] # "test"
    BY AwaitedInBronze
  <2>2. s \notin BulkTables \cup FreshTables \cup JdbcTables
    BY <2>1, TestIsApart
  <2>3. \A f \in DOMAIN Seals : s \in Seals[f] =>
          \/ f = "cob_gate" /\ s \in CdcSources
          \/ f = "pull_cob" /\ s \in PullCobTables
          \/ f = "sftp_hold" /\ s \in HoldTables
    BY <2>2 DEF Seals
  <2> QED BY <2>3, FlowsAreApart
<1> QED BY <1>1, <1>2, <1>3, PTL DEF ConfigSpec
=============================================================================
