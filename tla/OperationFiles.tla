--------------------------- MODULE OperationFiles ---------------------------
(***************************************************************************)
(* OperationSourceProcessor (scripts/draft/operation_parser_spark.py): for *)
(* every kind of source it lists the files in raw/operation, deletes the   *)
(* partition of a file's month the first time the run meets it, and        *)
(* appends the file.  A kind is processed by one process_* function; they  *)
(* share nothing, and this is one of them.  The other drafts that clean a  *)
(* partition and append do the same.                                       *)
(***************************************************************************)
EXTENDS Naturals

CONSTANTS
  OpFiles,   \* files of the kind, numbered in the order of their names
  MonthOf,   \* the partition in the file's name; Undated: no date in it
  Undated,
  MaxOpTrouble, \* bound: deletes and files that fail, runs that die
  MaxRuns    \* bound: runs

Months == {MonthOf[f] : f \in OpFiles}

ASSUME OperationAssumption ==
  /\ OpFiles \subseteq Nat
  /\ MaxOpTrouble \in Nat /\ MaxRuns \in Nat

VARIABLES
  strict,   \* the kind skips files without a date; else they are "unknown"
  present,  \* files in raw/operation
  out,      \* out[m][f]: how many times file f is in partition m
  op,       \* the run: files to go, files listed, cleared_partitions, deletes
            \* that failed
  runs,
  opTrouble

opVars == <<strict, present, out, op, runs, opTrouble>>

NoRun == [pc |-> "idle", todo |-> {}, listed |-> {}, cleared |-> {}, undeleted |-> {}]

Empty == [f \in OpFiles |-> 0]

OpInit ==
  /\ strict \in BOOLEAN /\ present = {} /\ runs = 0 /\ opTrouble = 0
  /\ out = [m \in Months |-> Empty]
  /\ op = NoRun

OpTrouble == opTrouble < MaxOpTrouble /\ opTrouble' = opTrouble + 1

Arrive(f) ==
  /\ f \notin present /\ present' = present \cup {f}
  /\ UNCHANGED <<strict, out, op, runs, opTrouble>>

(* find_files_with_pattern.                                                  *)
ListFiles ==
  /\ op.pc = "idle" /\ runs < MaxRuns /\ runs' = runs + 1
  /\ op' = [NoRun EXCEPT !.pc = "run", !.todo = present, !.listed = present]
  /\ UNCHANGED <<strict, present, out, opTrouble>>

(* The listing is sorted by name.                                            *)
File  == CHOOSE f \in op.todo : \A g \in op.todo : f <= g
Month == MonthOf[File]
Working == op.pc = "run" /\ op.todo # {}
Dated   == strict => Month # Undated

(* if not date_match: continue                                               *)
SkipFile ==
  /\ Working /\ ~Dated
  /\ op' = [op EXCEPT !.todo = @ \ {File}]
  /\ UNCHANGED <<strict, present, out, runs, opTrouble>>

(* Mutant: cleared_partitions is not asked.                                  *)
ClearEachTime ==
  /\ Working /\ Dated
  /\ out' = [out EXCEPT ![Month] = [Empty EXCEPT ![File] = 1]]
  /\ op' = [op EXCEPT !.todo = @ \ {File}, !.cleared = @ \cup {Month}]
  /\ UNCHANGED <<strict, present, runs, opTrouble>>

(* Mutant: nothing is deleted.                                               *)
AppendOnly ==
  /\ Working /\ Dated
  /\ out' = [out EXCEPT ![Month][File] = @ + 1]
  /\ op' = [op EXCEPT !.todo = @ \ {File}, !.cleared = @ \cup {Month}]
  /\ UNCHANGED <<strict, present, runs, opTrouble>>

(* delete_path_if_exists, then the append as one commit.                     *)
AppendFile ==
  /\ Working /\ Dated
  /\ out' = IF Month \in op.cleared THEN [out EXCEPT ![Month][File] = @ + 1]
              ELSE [out EXCEPT ![Month] = [Empty EXCEPT ![File] = 1]]
  /\ op' = [op EXCEPT !.todo = @ \ {File}, !.cleared = @ \cup {Month}]
  /\ UNCHANGED <<strict, present, runs, opTrouble>>

(* The delete fails, is logged, and counts as done.                          *)
AppendUncleared ==
  /\ Working /\ Dated /\ Month \notin op.cleared /\ OpTrouble
  /\ out' = [out EXCEPT ![Month][File] = @ + 1]
  /\ op' = [op EXCEPT !.todo = @ \ {File}, !.cleared = @ \cup {Month}, !.undeleted = @ \cup {Month}]
  /\ UNCHANGED <<strict, present, runs>>

(* The read raises, or the append, whose partition is then deleted already:  *)
(* the rest of the files is given up, and process_all reports success.       *)
FileFails ==
  /\ Working /\ OpTrouble
  /\ \/ UNCHANGED out
     \/ Dated /\ Month \notin op.cleared /\ out' = [out EXCEPT ![Month] = Empty]
  /\ op' = NoRun
  /\ UNCHANGED <<strict, present, runs>>

EndOfFiles ==
  /\ op.pc = "run" /\ op.todo = {}
  /\ op' = NoRun
  /\ UNCHANGED <<strict, present, out, runs, opTrouble>>

OpNext == \/ \E f \in OpFiles : Arrive(f)
          \/ ListFiles \/ SkipFile \/ AppendFile \/ AppendUncleared \/ FileFails \/ EndOfFiles

OpSpec == OpInit /\ [][OpNext]_opVars

-----------------------------------------------------------------------------
(* Properties.                                                              *)

(* A run that gets to its end leaves, in each partition it cleared, every    *)
(* listed file of the month once: several files of a month, a rerun, a run   *)
(* that died half way before it make no difference.                          *)
RunIsExact ==
  [][ (op.pc = "run" /\ op.todo = {} /\ op'.pc = "idle") =>
        \A m \in op.cleared \ op.undeleted :
          \A f \in OpFiles : out[m][f] = (IF MonthOf[f] = m /\ f \in op.listed THEN 1 ELSE 0) ]_opVars

(* A file is in its partition twice only after a delete that failed.         *)
TwiceNeedsFailedDelete ==
  opTrouble = 0 => \A m \in Months, f \in OpFiles : out[m][f] <= 1
=============================================================================
