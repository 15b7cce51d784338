--------------------------- MODULE AccountingFiles --------------------------
(***************************************************************************)
(* The way of the accounting reports from the T24 server to bronze:        *)
(* sync_accounting_spark.py copies the files last written in a range of    *)
(* dates into one folder per business date and marks the folders           *)
(* _SUCCESS; the GL parser job overwrites the day's partition from such a  *)
(* folder.                                                                 *)
(*                                                                         *)
(* A file's content is its version, the business date it states (0: it is  *)
(* no accounting report) and whether it is detailed (more rows than the    *)
(* summary's 654 or 242).  A report is one ledger of one branch and always *)
(* has the same file name.                                                 *)
(***************************************************************************)
EXTENDS Naturals, FiniteSets

CONSTANTS
  Names,     \* files in REMOTE_DIR
  MaxDate,   \* bound: days; the first is 1
  MaxWrites, \* bound: files T24 writes
  MaxTrouble \* bound: files and markers that fail, jobs that die

ASSUME AccountingAssumption ==
  MaxDate \in Nat \ {0} /\ MaxWrites \in Nat /\ MaxTrouble \in Nat

VARIABLES
  today,
  server,  \* REMOTE_DIR: each file's version (0: none), LastWriteTime's date, ...
  writes,  \* files written so far; a version is the write's number
  raw,     \* objects under accounting_full/: the key is biz, ts and name
  marked,  \* folders with _SUCCESS
  sync,    \* the sync job: files to go, folders uploaded to
  loaded,  \* each day's partition of the bronze table: the objects read
  trouble

accVars == <<today, server, writes, raw, marked, sync, loaded, trouble>>

Dates == 1..MaxDate
NoFile  == [ver |-> 0, at |-> 0, biz |-> 0, detailed |-> FALSE]
NoSync  == [pc |-> "idle", todo |-> {}, folders |-> {}]

AccInit ==
  /\ today = 1 /\ writes = 0
  /\ server = [f \in Names |-> NoFile]
  /\ raw = {} /\ marked = {} /\ sync = NoSync
  /\ loaded = [d \in Dates |-> {}]
  /\ trouble = 0

Trouble(k) == trouble + k <= MaxTrouble /\ trouble' = trouble + k

NextDay ==
  /\ today < MaxDate /\ today' = today + 1
  /\ UNCHANGED <<server, writes, raw, marked, sync, loaded, trouble>>

(* T24 writes a file, again perhaps, for today or for an earlier day.        *)
Export(f) ==
  /\ writes < MaxWrites /\ writes' = writes + 1
  /\ \E d \in 0..today, b \in BOOLEAN :
       /\ b => d # 0
       /\ server' = [server EXCEPT ![f] = [ver |-> writes + 1, at |-> today, biz |-> d, detailed |-> b]]
  /\ UNCHANGED <<today, raw, marked, sync, loaded, trouble>>

-----------------------------------------------------------------------------
(* main: list_files_for_date for each date of the range, with LastWriteTime. *)
StartSync(from, to) ==
  /\ sync.pc = "idle"
  /\ LET todo == {[name |-> f, ts |-> server[f].ver] :
                    f \in {f \in Names : server[f].at \in from..to /\ server[f].ver # 0}} IN
     /\ todo # {}
     /\ sync' = [pc |-> "files", todo |-> todo, folders |-> {}]
  /\ UNCHANGED <<today, server, writes, raw, marked, loaded, trouble>>

(* put_object or a completed multipart upload: the object appears whole.     *)
Put(o) == raw' = {p \in raw : <<p.biz, p.ts, p.name>> # <<o.biz, o.ts, o.name>>} \cup {o}

Object(x, ts) == [name |-> x.name, ts |-> ts, biz |-> server[x.name].biz,
                  ver |-> server[x.name].ver, detailed |-> server[x.name].detailed]

(* Mutant: the key has the time of the copy.                                 *)
CopyFileNow(x) ==
  /\ sync.pc = "files" /\ x \in sync.todo
  /\ IF server[x.name].biz = 0
       THEN sync' = [sync EXCEPT !.todo = @ \ {x}] /\ UNCHANGED raw
       ELSE /\ Put(Object(x, writes))
            /\ sync' = [sync EXCEPT !.todo = @ \ {x}, !.folders = @ \cup {server[x.name].biz}]
  /\ UNCHANGED <<today, server, writes, marked, loaded, trouble>>

(* process_file, on some executor: the key has the LastWriteTime of the      *)
(* listing, the content is read now.                                         *)
CopyFile(x) ==
  /\ sync.pc = "files" /\ x \in sync.todo
  /\ IF server[x.name].biz = 0
       THEN sync' = [sync EXCEPT !.todo = @ \ {x}] /\ UNCHANGED raw
       ELSE /\ Put(Object(x, x.ts))
            /\ sync' = [sync EXCEPT !.todo = @ \ {x}, !.folders = @ \cup {server[x.name].biz}]
  /\ UNCHANGED <<today, server, writes, marked, loaded, trouble>>

(* process_file catches every exception: the file is counted and passed over.*)
CopyError(x) ==
  /\ sync.pc = "files" /\ x \in sync.todo /\ Trouble(1)
  /\ sync' = [sync EXCEPT !.todo = @ \ {x}]
  /\ UNCHANGED <<today, server, writes, raw, marked, loaded>>

(* Mutant: every listed date's folder is marked.                             *)
MarkDates ==
  /\ sync.pc = "files" /\ sync.todo = {}
  /\ marked' = marked \cup {d \in Dates : d <= today}
  /\ sync' = NoSync
  /\ UNCHANGED <<today, server, writes, raw, loaded, trouble>>

(* create_success_markers: folders with at least one upload; a marker that   *)
(* cannot be put is passed over.                                             *)
CreateSuccessMarkers ==
  /\ sync.pc = "files" /\ sync.todo = {}
  /\ \E lost \in SUBSET sync.folders :
       Trouble(Cardinality(lost)) /\ marked' = marked \cup (sync.folders \ lost)
  /\ sync' = NoSync
  /\ UNCHANGED <<today, server, writes, raw, loaded>>

SyncDies ==
  /\ sync.pc = "files" /\ Trouble(1)
  /\ sync' = NoSync
  /\ UNCHANGED <<today, server, writes, raw, marked, loaded>>

-----------------------------------------------------------------------------
Folder(d) == {o \in raw : o.biz = d}

(* parser/accounting_parser_spark.py main: [^_]* leaves the marker out and   *)
(* nobody waits for it; an empty folder fails the job; overwritePartitions.  *)
ParseFolder(d) ==
  /\ Folder(d) # {}
  /\ loaded' = [loaded EXCEPT ![d] = Folder(d)]
  /\ UNCHANGED <<today, server, writes, raw, marked, sync, trouble>>

AccNext ==
  \/ NextDay
  \/ \E f \in Names : Export(f)
  \/ \E from, to \in Dates : StartSync(from, to)
  \/ \E x \in sync.todo : CopyFile(x) \/ CopyError(x)
  \/ CreateSuccessMarkers \/ SyncDies
  \/ \E d \in Dates : ParseFolder(d)

AccSpec == AccInit /\ [][AccNext]_accVars

-----------------------------------------------------------------------------
(* Properties.                                                              *)

(* However often the days are synced again, an unchanged file has one object,*)
(* and so its rows come once into the partition.  Only a file rewritten      *)
(* between its listing and its copy has two: the key names the old time.     *)
ResyncIsIdempotent ==
  \A o, p \in raw :
    (o.name = p.name /\ o.ver = p.ver) => o = p \/ o.ts < o.ver \/ p.ts < p.ver

(* A folder marked _SUCCESS has files, whatever failed and however often the *)
(* days were synced again.                                                   *)
MarkedHasFiles == \A d \in marked : Folder(d) # {}
=============================================================================
