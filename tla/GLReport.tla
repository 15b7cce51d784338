------------------------------ MODULE GLReport ------------------------------
(***************************************************************************)
(* The line machine of the GL and PL reports: DistributedGLParser and      *)
(* process_file_content (scripts/parser/accounting_parser_spark.py) read   *)
(* a text file line by line and make a row of every line with a line code  *)
(* or with four amounts.  The drafts run the same machine and keep the     *)
(* dicts it returns instead of copies.                                     *)
(*                                                                         *)
(* A line is the set of the patterns that match it; the code tries them in *)
(* the order of the actions below.  A description is the sequence of the   *)
(* numbers of the lines its text comes from.                               *)
(***************************************************************************)
EXTENDS Naturals, Sequences, SequencesExt

CONSTANT MaxLines  \* bound: lines of the file

ASSUME GLAssumption == MaxLines \in Nat

VARIABLES
  lines,    \* the file so far
  pending,  \* state['pending_account_code'], << >> for None
  wasData,  \* state['last_row_was_data']
  rows,     \* parsed_rows: Row(**result), a copy of each result
  results,  \* the results themselves; the newest is state['last_result']
  ended     \* END OF REPORT was met

glVars == <<lines, pending, wasData, rows, results, ended>>

(* The shapes T24 prints.  A code alone on its line also looks like a        *)
(* continuation, unless blanks, a hyphen or a carriage return follow; a code *)
(* with amounts also looks like a code and like a data row.                  *)
Shapes == { {"blank"}, {"page"}, {"desc"}, {"cont"}, {"cont", "code"}, {"code"},
            {"coded", "code", "data"}, {"data"}, {"data", "header"}, {"header"}, {"end"}, {} }

GLInit ==
  /\ lines = << >> /\ pending = << >> /\ wasData = FALSE
  /\ rows = << >> /\ results = << >> /\ ended = FALSE

Here == Len(lines) + 1

(* The next line has this shape.                                             *)
Line(s) == ~ended /\ Len(lines) < MaxLines /\ s \in Shapes /\ lines' = Append(lines, s)

Emit(desc) ==
  LET row == [seq |-> Here, desc |-> desc] IN
  /\ rows' = Append(rows, row)
  /\ results' = Append(results, row)

EndOfReport ==
  /\ Line({"end"}) /\ ended' = TRUE
  /\ UNCHANGED <<pending, wasData, rows, results>>

BlankOrPage(s) ==
  /\ "blank" \in s \/ "page" \in s
  /\ Line(s) /\ wasData' = FALSE
  /\ UNCHANGED <<pending, rows, results, ended>>

DescriptionOnly(s) ==
  /\ "desc" \in s
  /\ Line(s)
  /\ UNCHANGED <<pending, wasData, rows, results, ended>>

(* Mutant: last_row_was_data is not asked.                                   *)
ContinuationOfLast(s) ==
  /\ "cont" \in s
  /\ Line(s)
  /\ IF pending # << >>
       THEN pending' = Append(pending, Here) /\ UNCHANGED results
       ELSE /\ results' = IF results # << >>
                            THEN [results EXCEPT ![Len(results)].desc = Append(@, Here)] ELSE results
            /\ UNCHANGED pending
  /\ UNCHANGED <<wasData, rows, ended>>

(* To the pending code, else to last_result: the dict, not the row made of   *)
(* it.                                                                       *)
Continuation(s) ==
  /\ "cont" \in s
  /\ Line(s)
  /\ IF pending # << >>
       THEN pending' = Append(pending, Here) /\ UNCHANGED results
       ELSE /\ results' = IF wasData
                            THEN [results EXCEPT ![Len(results)].desc = Append(@, Here)] ELSE results
            /\ UNCHANGED pending
  /\ UNCHANGED <<wasData, rows, ended>>

(* A code with its amounts: a pending code stays pending.                    *)
AccountWithData(s) ==
  /\ "coded" \in s
  /\ Line(s) /\ Emit(<<Here>>) /\ wasData' = TRUE
  /\ UNCHANGED <<pending, ended>>

AccountCode(s) ==
  /\ "code" \in s /\ s \cap {"cont", "coded"} = {}
  /\ Line(s) /\ pending' = <<Here>> /\ wasData' = FALSE
  /\ UNCHANGED <<rows, results, ended>>

(* Mutant: the code stays pending.                                           *)
DataRowKeepsCode(s) ==
  /\ "data" \in s /\ "coded" \notin s
  /\ Line(s) /\ Emit(Append(pending, Here)) /\ wasData' = TRUE
  /\ UNCHANGED <<pending, ended>>

DataRow(s) ==
  /\ "data" \in s /\ "coded" \notin s
  /\ Line(s) /\ Emit(Append(pending, Here)) /\ wasData' = TRUE /\ pending' = << >>
  /\ UNCHANGED ended

Header(s) ==
  /\ "header" \in s /\ "data" \notin s
  /\ Line(s) /\ Emit(<<Here>>) /\ wasData' = FALSE
  /\ UNCHANGED <<pending, ended>>

Other(s) ==
  /\ s = {}
  /\ Line(s) /\ wasData' = FALSE
  /\ UNCHANGED <<pending, rows, results, ended>>

GLNext ==
  \/ EndOfReport
  \/ \E s \in Shapes : \/ BlankOrPage(s) \/ DescriptionOnly(s) \/ Continuation(s)
                       \/ AccountWithData(s) \/ AccountCode(s) \/ DataRow(s)
                       \/ Header(s) \/ Other(s)

GLSpec == GLInit /\ [][GLNext]_glVars

-----------------------------------------------------------------------------
(* Properties.                                                              *)

Is(k, i)   == i \in DOMAIN lines /\ k \in lines[i]
Cont(i)    == Is("cont", i)
Code(i)    == Is("code", i) /\ ~Cont(i) /\ ~Is("coded", i)
Plain(i)   == Is("data", i) /\ ~Is("coded", i)
RowLine(i) == Is("data", i) \/ Is("header", i)

(* c is the code line that data row i answers: no other code and no other    *)
(* data row lies between them.                                               *)
CodeOf(c, i) ==
  /\ c < i /\ Code(c) /\ Plain(i)
  /\ \A j \in c + 1 .. i - 1 : ~Code(j) /\ ~Plain(j)

(* A row's description: the text of its line, after the code that waits for  *)
(* it and everything that continued that code.                               *)
TextOf(i) ==
  {i} \cup {j \in 1..i : \E c \in 1..i : CodeOf(c, i) /\ (j = c \/ (c < j /\ j < i /\ Cont(j)))}

(* A description has these lines for its text, each once and in order.       *)
IsText(desc, S) ==
  Range(desc) = S /\ \A m, n \in DOMAIN desc : m < n => desc[m] < desc[n]

(* The bronze rows are exactly the report's row lines, in order, and each    *)
(* has the code that waits for it, once, however the report is laid out:     *)
(* pages, blank lines and headers between a code and its amounts.            *)
RowsAreRead ==
  /\ {rows[k].seq : k \in DOMAIN rows} = {i \in DOMAIN lines : RowLine(i)}
  /\ \A k, m \in DOMAIN rows : k < m => rows[k].seq < rows[m].seq
  /\ \A k \in DOMAIN rows : IsText(rows[k].desc, TextOf(rows[k].seq))

(* What the drafts keep and the job loses: the continuations of a code that  *)
(* already had its amounts.  Nothing but descriptive text lies between.      *)
DraftsKeepTails ==
  \A k \in DOMAIN rows :
    LET r == rows[k] d == results[k].desc IN
    /\ IsPrefix(r.desc, d)
    /\ \A m \in Len(r.desc) + 1 .. Len(d) :
         \A j \in r.seq + 1 .. d[m] : Cont(j) \/ Is("desc", j)

-----------------------------------------------------------------------------
(* The inductive invariant.                                                 *)

GLTypes ==
  /\ lines \in Seq(Shapes) /\ pending \in Seq(Nat) /\ wasData \in BOOLEAN
  /\ rows \in Seq([seq : Nat, desc : Seq(Nat)]) /\ results \in Seq([seq : Nat, desc : Seq(Nat)])
  /\ Len(results) = Len(rows)

(* c is a code line whose amounts have not come, and no other code since.    *)
Waits(c) == Code(c) /\ \A j \in c + 1 .. Len(lines) : ~Code(j) /\ ~Plain(j)

(* The pending code is the one that waits, with its continuations.           *)
PendingWaits ==
  \/ pending = << >> /\ \A c \in 1..Len(lines) : ~Waits(c)
  \/ /\ pending # << >>
     /\ \E c \in 1..Len(lines) :
          Waits(c) /\ IsText(pending, {c} \cup {j \in c + 1 .. Len(lines) : Cont(j)})

(* After last_row_was_data only descriptive text follows the newest row.     *)
LastIsData ==
  (wasData /\ ~ended) =>
    /\ rows # << >>
    /\ \A j \in rows[Len(rows)].seq + 1 .. Len(lines) : Cont(j) \/ Is("desc", j)

GLInv == GLTypes /\ PendingWaits /\ LastIsData /\ RowsAreRead /\ DraftsKeepTails
=============================================================================
