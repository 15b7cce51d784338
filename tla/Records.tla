------------------------------- MODULE Records -------------------------------
(***************************************************************************)
(* One route of the streaming job below the level of CdcStream: the        *)
(* events of a topic are planned in batches, and foreachBatch parses the   *)
(* last event of each record (t24_parser/core.py) and writes the main      *)
(* table, its __sv table and the dead-letter files (write_bronze), each in *)
(* a commit of its own.  The driver may die between two commits, and the   *)
(* batch then runs again from the start.  Here a record's events arrive in *)
(* order and once: CdcStream has the rest.                                 *)
(***************************************************************************)
EXTENDS T24Record, Bags

CONSTANTS
  Recs,       \* RECIDs of the table
  Xmls,       \* contents of a record, Malformed among them
  Layouts,    \* the STANDARD.SELECTION of the table: [sys, usr]
  MaxEvents,  \* bound: changes of the table
  MaxCrash    \* bound: driver crashes

(* A record has finitely many cells, numbered from 1 in each of their three   *)
(* parts; no array of values is NULL.                                        *)
IsRecord(xml) ==
  /\ IsFiniteSet(DOMAIN xml)
  /\ DOMAIN xml \subseteq (Nat \ {0}) \X (Nat \ {0}) \X (Nat \ {0})
  /\ Null \notin Seq({Typed(xml[c]) : c \in DOMAIN xml} \cup {Null})

IsLayout(ss) ==
  /\ ss.sys \in Seq([name : DOMAIN Sanitize, type : STRING, pos : Nat, multi : BOOLEAN])
  /\ ss.usr \in Seq([name : DOMAIN Sanitize, mv : Nat])

ASSUME RecordsAssumption ==
  /\ Malformed \in Xmls /\ MaxEvents \in Nat /\ MaxCrash \in Nat
  /\ \A xml \in Xmls \ {Malformed} : IsRecord(xml)
  /\ \A ss \in Layouts : IsLayout(ss)

VARIABLES
  layout,   \* the table's layout
  events,   \* the topic: [rec, op, xml]
  done,     \* events in committed batches
  upto,     \* the end of the batch in flight
  step,     \* the next commit of the batch, "idle": none in flight
  main,     \* the main table: the row of each recid, {}: none
  sv,       \* the __sv table: the bag of rows of each recid
  dlq,      \* the dead-letter files: a bag of events
  crashes   \* driver crashes so far

tables   == <<main, sv, dlq>>
recVars  == <<layout, events, done, upto, step, tables, crashes>>

spec == BuildSpec(layout)

RecInit ==
  /\ layout \in Layouts
  /\ events = << >> /\ done = 0 /\ upto = 0 /\ step = "idle" /\ crashes = 0
  /\ main = [r \in Recs |-> {}] /\ sv = [r \in Recs |-> EmptyBag] /\ dlq = EmptyBag

(* T24 writes or deletes a record; Debezium publishes the change.            *)
Emit(r, op, xml) ==
  /\ Len(events) < MaxEvents
  /\ events' = Append(events, [rec |-> r, op |-> op, xml |-> xml])
  /\ UNCHANGED <<layout, done, upto, step, tables, crashes>>

-----------------------------------------------------------------------------
(* The batch in flight: latest_per_recid, split_deletes, parse.              *)
LastIn(r, from, to) == Max({0} \cup {i \in from..to : events[i].rec = r})
Latest   == {LastIn(r, done + 1, upto) : r \in Recs} \ {0}
Deleted  == {i \in Latest : events[i].op = "d"}
Parsed   == {i \in Latest \ Deleted : events[i].xml # Malformed}
Errors   == {i \in Latest \ Deleted : events[i].xml = Malformed}
(* The recids of the child frame.                                            *)
WithSv   == {i \in Parsed : SvRows(events[i].xml) # {}}

NewestOf(is, r) == CHOOSE i \in is : events[i].rec = r
Touched(is) == {events[i].rec : i \in is}

PlanRecords ==
  /\ step = "idle" /\ done < Len(events)
  /\ upto' = Len(events) /\ step' = "merge"
  /\ UNCHANGED <<layout, events, done, tables, crashes>>

Commit(from, to) == step = from /\ step' = to /\ UNCHANGED <<layout, events, done, upto, crashes>>

(* _merge_upsert.                                                            *)
MergeMain ==
  /\ Commit("merge", "clear")
  /\ main' = [r \in Recs |-> IF r \in Touched(Parsed)
                               THEN MainRow(spec, events[NewestOf(Parsed, r)].xml) ELSE main[r]]
  /\ UNCHANGED <<sv, dlq>>

(* Mutant: the child rows are appended to what is there.                     *)
KeepChildren == Commit("clear", "append") /\ UNCHANGED tables

(* _replace_children deletes the rows of the recids in the child frame ...   *)
ClearChildren ==
  /\ Commit("clear", "append")
  /\ sv' = [r \in Recs |-> IF r \in Touched(WithSv) THEN EmptyBag ELSE sv[r]]
  /\ UNCHANGED <<main, dlq>>

(* ... and appends the frame.                                                *)
AppendChildren ==
  /\ Commit("append", "delete")
  /\ sv' = [r \in Recs |-> IF r \in Touched(WithSv)
              THEN sv[r] (+) SetToBag(SvRows(events[NewestOf(WithSv, r)].xml)) ELSE sv[r]]
  /\ UNCHANGED <<main, dlq>>

(* _delete_recids on the main table, then on __sv.                           *)
DeleteMain ==
  /\ Commit("delete", "unchild")
  /\ main' = [r \in Recs |-> IF r \in Touched(Deleted) THEN {} ELSE main[r]]
  /\ UNCHANGED <<sv, dlq>>

DeleteChildren ==
  /\ Commit("unchild", "errors")
  /\ sv' = [r \in Recs |-> IF r \in Touched(Deleted) THEN EmptyBag ELSE sv[r]]
  /\ UNCHANGED <<main, dlq>>

(* The errors are appended; nothing takes back those of an earlier attempt.  *)
AppendErrors ==
  /\ Commit("errors", "commit")
  /\ dlq' = dlq (+) SetToBag(Errors)
  /\ UNCHANGED <<main, sv>>

(* Mutant: the batch goes on from the commit that failed.                    *)
CrashAndGoOn ==
  /\ step \notin {"idle", "commit"} /\ crashes < MaxCrash
  /\ step' = CASE step = "merge"   -> "clear"   [] step = "clear"  -> "append"
               [] step = "append"  -> "delete"  [] step = "delete" -> "unchild"
               [] step = "unchild" -> "errors"  [] step = "errors" -> "commit"
  /\ crashes' = crashes + 1
  /\ UNCHANGED <<layout, events, done, upto, tables>>

(* The driver dies and its successor runs the same batch from the start.     *)
CrashBatch ==
  /\ step # "idle" /\ crashes < MaxCrash
  /\ step' = "merge" /\ crashes' = crashes + 1
  /\ UNCHANGED <<layout, events, done, upto, tables>>

(* Mutant: the checkpoint keeps the offset of the batch's last event.         *)
EndBatchShort ==
  /\ step = "commit" /\ step' = "idle" /\ done' = upto - 1
  /\ UNCHANGED <<layout, events, upto, tables, crashes>>

EndBatch ==
  /\ step = "commit" /\ step' = "idle" /\ done' = upto
  /\ UNCHANGED <<layout, events, upto, tables, crashes>>

-----------------------------------------------------------------------------
RecNext == \/ \E r \in Recs, xml \in Xmls : Emit(r, "u", xml)
           \/ \E r \in Recs : Emit(r, "d", Malformed)
           \/ PlanRecords \/ MergeMain \/ ClearChildren \/ AppendChildren
           \/ DeleteMain \/ DeleteChildren \/ AppendErrors \/ CrashBatch \/ EndBatch

RecSpec == RecInit /\ [][RecNext]_recVars

-----------------------------------------------------------------------------
(* Properties.                                                              *)

NewestDone(r) == LastIn(r, 1, done)

(* What event i leaves of record r, 0: no event.                             *)
Exact(r, i) ==
  IF i = 0 \/ events[i].op = "d" THEN main[r] = {} /\ sv[r] = EmptyBag
  ELSE IF events[i].xml = Malformed THEN BagIn(i, dlq)
  ELSE /\ main[r] = MainRow(spec, events[i].xml)
       /\ SvRows(events[i].xml) # {} => sv[r] = SetToBag(SvRows(events[i].xml))

(* Once a batch is committed, a record's row is the parse of its newest      *)
(* event, and so are its sub-values if that event has any; a deleted record  *)
(* has left neither; an event that cannot be parsed is among the errors.     *)
(* This holds whatever commits a dead driver had got to.                     *)
CommittedIsExact == step = "idle" => \A r \in Recs : Exact(r, NewestDone(r))

(* No replay doubles a child row, not even while the batch is in flight.     *)
ChildrenOnce == \A r \in Recs : sv[r] = SetToBag(BagToSet(sv[r]))

(* The dead-letter files hold changes that do not parse, and nothing else,   *)
(* each at most once for each driver that has died and once more: a batch    *)
(* that has ended is never appended again.                                   *)
ErrorsOncePerAttempt ==
  \A i \in BagToSet(dlq) :
    /\ events[i].op = "u" /\ events[i].xml = Malformed
    /\ dlq[i] <= crashes + 1

(* Every value that the layout declares is found under its own column, and   *)
(* it alone, whatever names collide and whatever numbers a multi-value field *)
(* leaves out (core.py:18: dense arrays keep associated values aligned).     *)
DeclaredIsFound ==
  \A i \in DOMAIN events : events[i].xml # Malformed =>
    LET xml == events[i].xml IN
      \A c \in DOMAIN xml : Declared(spec, c) =>
        Found(spec, MainRow(spec, xml), c) = {Typed(xml[c])}

(* sinks.py:68: the children of the touched recids are replaced, so that     *)
(* between batches the __sv rows of a record are of its newest content.      *)
ChildrenOfNewest ==
  step = "idle" => \A r \in Recs :
    LET i == NewestDone(r) IN
      (i # 0 /\ events[i].op = "u" /\ events[i].xml # Malformed)
        => sv[r] = SetToBag(SvRows(events[i].xml))

-----------------------------------------------------------------------------
(* The inductive invariant: what each commit of a batch has settled.         *)

BatchSteps == {"merge", "clear", "append", "delete", "unchild", "errors", "commit"}

RecTypes ==
  /\ layout \in Layouts
  /\ events \in Seq([rec : Recs, op : {"u", "d"}, xml : Xmls])
  /\ done \in Nat /\ upto \in Nat /\ step \in BatchSteps \cup {"idle"}
  /\ main = [r \in Recs |-> main[r]] /\ sv = [r \in Recs |-> sv[r]]

BatchIsTail ==
  done <= upto /\ upto <= Len(events) /\ (step = "idle" => done = upto)

(* The newest event of r in the batch in flight.                             *)
InBatch(r) == LastIn(r, done + 1, upto)

(* A record that the batch does not touch is as its newest committed event   *)
(* left it.                                                                  *)
RestIsExact == \A r \in Recs : InBatch(r) = 0 => Exact(r, NewestDone(r))

(* The commits the batch is past have done their part, whatever an attempt   *)
(* that died had done; no other commit of the batch undoes it.               *)
StepDone(r) ==
  LET i == InBatch(r) IN
    /\ i \in Parsed /\ step \in BatchSteps \ {"merge"} => main[r] = MainRow(spec, events[i].xml)
    /\ i \in WithSv /\ step = "append" => sv[r] = EmptyBag
    /\ i \in WithSv /\ step \in {"delete", "unchild", "errors", "commit"}
         => sv[r] = SetToBag(SvRows(events[i].xml))
    /\ i \in Deleted /\ step \in {"unchild", "errors", "commit"} => main[r] = {}
    /\ i \in Deleted /\ step \in {"errors", "commit"} => sv[r] = EmptyBag
    /\ i \in Errors /\ step = "commit" => BagIn(i, dlq)
StepsDone == \A r \in Recs : InBatch(r) # 0 => StepDone(r)

RecInv == RecTypes /\ BatchIsTail /\ ChildrenOnce /\ RestIsExact /\ StepsDone

(* The copies of an error: the batch in flight adds to those of its own      *)
(* events alone, in the last commit of each attempt.                         *)
ErrorsCounted ==
  /\ crashes \in Nat
  /\ \A i \in DOMAIN dlq :
       /\ i \in 1..upto /\ dlq[i] \in Nat
       /\ events[i].op = "u" /\ events[i].xml = Malformed
       /\ dlq[i] <= crashes + 1
       /\ i > done /\ step # "commit" => dlq[i] <= crashes
=============================================================================
