-------------------------- MODULE AccountingDrafts --------------------------
(***************************************************************************)
(* The draft GL parsers (scripts/draft/accounting_paser_spark.py and       *)
(* accounting_parser_python.py) over the folders AccountingFiles fills:    *)
(* list a day or everything, parse file after file, pick one parsed file   *)
(* per report, and upload the picked files under a day.  The Spark draft   *)
(* goes date by date and picks among the files of the date; the pandas     *)
(* draft picks among all the CSV files of its output directory, which may  *)
(* be the one of an earlier run.                                           *)
(***************************************************************************)
EXTENDS AccountingFiles

CONSTANT MaxDrafts \* bound: runs of the draft

ASSUME DraftsAssumption == MaxDrafts \in Nat

VARIABLES
  drafts, \* runs so far
  engine, \* the draft that is used: "spark" or "pandas"
  csvs,   \* pandas: the parsed files in the output directory
  draft,  \* the run: keys to parse, files parsed, files picked and to upload
  chosen  \* accounting_parsed[_spark]/data/<day>/: the files uploaded

draftVars == <<drafts, engine, csvs, draft, chosen>>

NoDraft == [pc |-> "idle", all |-> FALSE, day |-> 0, todo |-> {}, parsed |-> {}, picked |-> {}]

DraftInit ==
  /\ drafts = 0 /\ engine \in {"spark", "pandas"} /\ csvs = {} /\ draft = NoDraft
  /\ chosen = [d \in Dates |-> {}]

Key(o) == <<o.biz, o.ts, o.name>>

(* The keys of one batch: of a date, or all of them at once in pandas.       *)
Batch(todo, day) == {k \in todo : (engine = "spark" \/ ~draft.all) => k[1] = day}

NextDate(todo) == CHOOSE d \in {k[1] : k \in todo} : \A k \in todo : d <= k[1]

(* main and list_s3_files: the folder of --date, or every folder; an empty   *)
(* listing ends the run.  The output directory is a new one or is kept.      *)
StartDraft(days) ==
  /\ draft.pc = "idle" /\ drafts < MaxDrafts /\ drafts' = drafts + 1
  /\ LET todo == {Key(o) : o \in UNION {Folder(d) : d \in days}} IN
     /\ todo # {}
     /\ draft' = [NoDraft EXCEPT !.pc = "parse", !.all = days = Dates, !.todo = todo,
                                 !.day = NextDate(todo)]
  /\ csvs' \in {csvs, {}}
  /\ UNCHANGED <<engine, chosen>> /\ UNCHANGED accVars

(* _process_one_file, download_and_process_s3_file: the object as it is now. *)
ParseFile(k) ==
  /\ draft.pc = "parse" /\ k \in Batch(draft.todo, draft.day)
  /\ LET o == CHOOSE o \in raw : Key(o) = k IN
     /\ draft' = [draft EXCEPT !.todo = @ \ {k}, !.parsed = @ \cup {o}]
     /\ csvs' = IF engine = "pandas" THEN {c \in csvs : Key(c) # k} \cup {o} ELSE csvs
  /\ UNCHANGED <<drafts, engine, chosen>> /\ UNCHANGED accVars

(* Logged, counted, passed over.                                             *)
ParseError(k) ==
  /\ draft.pc = "parse" /\ k \in Batch(draft.todo, draft.day) /\ Trouble(1)
  /\ draft' = [draft EXCEPT !.todo = @ \ {k}]
  /\ UNCHANGED <<drafts, engine, csvs, chosen>>
  /\ UNCHANGED <<today, server, writes, raw, marked, sync, loaded>>

(* Mutant: the first detailed file that is met is kept.                      *)
BestDetailed(files, o) ==
  IF \E p \in files : p.name = o.name /\ p.detailed THEN o.detailed
    ELSE \A p \in files : p.name = o.name => p.ts <= o.ts

(* find_latest_summary_files, for one report: the newest detailed file, and  *)
(* the newest of all where none is detailed.                                 *)
Best(files, o) ==
  \A p \in files : p.name = o.name =>
    (p.detailed = o.detailed /\ p.ts <= o.ts) \/ (o.detailed /\ ~p.detailed)

(* One file for each report; which of two with one time is not determined.   *)
Selections(files) ==
  {S \in SUBSET {o \in files : Best(files, o)} :
     \A o \in files : Cardinality({s \in S : s.name = o.name}) = 1}

(* What the selection looks at, once the batch is parsed; a date none of     *)
(* whose files was parsed is not selected from.                              *)
Candidates ==
  IF engine = "pandas" /\ (draft.all \/ draft.parsed # {}) THEN csvs ELSE draft.parsed

BatchIsParsed == draft.pc = "parse" /\ Batch(draft.todo, draft.day) = {}

(* The folder is that of the date; in pandas without --date it is the date   *)
(* in the first picked file's name.                                          *)
FindLatest ==
  /\ BatchIsParsed /\ Candidates # {}
  /\ \E S \in Selections(Candidates) :
       \E d \in IF engine = "pandas" /\ draft.all THEN {o.biz : o \in S} ELSE {draft.day} :
         draft' = [draft EXCEPT !.pc = "upload", !.picked = S, !.day = d]
  /\ UNCHANGED <<drafts, engine, csvs, chosen>> /\ UNCHANGED accVars

(* upload_to_bronze_minio, upload_files_to_bronze: beside what is there.     *)
UploadNext(o) ==
  /\ draft.pc = "upload" /\ o \in draft.picked
  /\ chosen' = [chosen EXCEPT ![draft.day] = @ \cup {o}]
  /\ draft' = [draft EXCEPT !.picked = @ \ {o}]
  /\ UNCHANGED <<drafts, engine, csvs>> /\ UNCHANGED accVars

(* Mutant: the results of the earlier dates are kept.                        *)
AfterBatchAll(run) ==
  IF run.todo = {} THEN NoDraft
    ELSE [run EXCEPT !.pc = "parse", !.picked = {}, !.day = NextDate(run.todo)]

(* The next date of the Spark draft starts from its own results.             *)
AfterBatch(run) ==
  IF run.todo = {} THEN NoDraft
    ELSE [run EXCEPT !.pc = "parse", !.parsed = {}, !.picked = {}, !.day = NextDate(run.todo)]

EndBatch ==
  /\ \/ draft.pc = "upload" /\ draft.picked = {}
     \/ BatchIsParsed /\ Candidates = {}
  /\ draft' = AfterBatch(draft)
  /\ UNCHANGED <<drafts, engine, csvs, chosen>> /\ UNCHANGED accVars

(* The rest of the picked files is given up and the run goes on.             *)
UploadError ==
  /\ draft.pc = "upload" /\ draft.picked # {} /\ Trouble(1)
  /\ draft' = AfterBatch(draft)
  /\ UNCHANGED <<drafts, engine, csvs, chosen>>
  /\ UNCHANGED <<today, server, writes, raw, marked, sync, loaded>>

DraftDies ==
  /\ draft.pc # "idle" /\ Trouble(1)
  /\ draft' = NoDraft
  /\ UNCHANGED <<drafts, engine, csvs, chosen>>
  /\ UNCHANGED <<today, server, writes, raw, marked, sync, loaded>>

DraftNext ==
  \/ AccNext /\ UNCHANGED draftVars
  \/ StartDraft(Dates) \/ \E d \in Dates : StartDraft({d})
  \/ \E k \in draft.todo : ParseFile(k) \/ ParseError(k)
  \/ FindLatest \/ EndBatch \/ UploadError \/ DraftDies
  \/ \E o \in draft.picked : UploadNext(o)

DraftSpec == AccInit /\ DraftInit /\ [][DraftNext]_<<accVars, draftVars>>

-----------------------------------------------------------------------------
(* Properties.                                                              *)

(* What the Spark draft uploads under a day is a file of that day, in a run  *)
(* over all days as well, and after dates of which files failed.  (The       *)
(* pandas draft overrides the folder with the date it was asked for, and     *)
(* its directory may have newer files of other dates.)                       *)
SelectedIsItsDay ==
  [][ engine = "spark" =>
        \A d \in Dates : \A o \in chosen'[d] \ chosen[d] : o.biz = d ]_<<accVars, draftVars>>

(* A batch whose upload ran to its end has left, for every report it parsed, *)
(* a file under its day that is as detailed and, of those, as new: a summary *)
(* written later does not displace the detailed report.                      *)
NewestIsChosen ==
  (draft.pc = "upload" /\ draft.picked = {}) =>
    \A o \in draft.parsed : \E c \in chosen[draft.day] :
      /\ c.name = o.name
      /\ (c.detailed = o.detailed /\ c.ts >= o.ts) \/ (c.detailed /\ ~o.detailed)
=============================================================================
