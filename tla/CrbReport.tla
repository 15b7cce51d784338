----------------------------- MODULE CrbReport ------------------------------
(***************************************************************************)
(* The parser of GENERAL LEDGER - BALANCE DETAILS                          *)
(* (scripts/parser/crb_deposits_parser.py) and its reconciliation.  The    *)
(* report prints sections of rows, TOTAL FOR each section, and one total   *)
(* per group of target sections; the parser keeps the rows of the target   *)
(* sections and refuses the file when a total it read disagrees.           *)
(*                                                                         *)
(* A line that no pattern matches (a customer's name one blank short of    *)
(* the amount, a token of SKIP_TOKENS in it) is passed over: every action  *)
(* prints one line, which the parser reads or not.                         *)
(***************************************************************************)
EXTENDS Naturals, Sequences, FiniteSets

CONSTANTS
  Targets,   \* TARGET_SECTIONS
  Others,    \* the other sections of the report
  Groups,    \* demand, time, passbook
  GroupOf,   \* the deposit type of each target
  Amounts,   \* LOCAL CCY amounts of a row
  MaxRows,   \* bound: rows of the report
  MaxMisread, \* bound: lines the parser passes over
  None

ASSUME CrbAssumption ==
  /\ Targets \cap Others = {} /\ IsFiniteSet(Targets)
  /\ None \notin Targets \cup Others /\ None \notin Nat
  /\ GroupOf \in [Targets -> Groups] /\ IsFiniteSet(Groups)
  /\ Amounts \subseteq Nat \ {0}
  /\ MaxRows \in Nat /\ MaxMisread \in Nat

VARIABLES
  section,  \* the section being printed
  printed,  \* the rows printed: section and amount
  opened,   \* sections printed so far
  current,  \* current_gl
  parsed,   \* rows: the section taken for theirs, the amount, which row it is
  total,    \* file_total of each target section
  group,    \* group_file_totals
  misread,  \* lines passed over so far
  verdict   \* "reading", then what ReconTracker.run returned

crbVars == <<section, printed, opened, current, parsed, total, group, misread, verdict>>

CrbInit ==
  /\ section = None /\ printed = << >> /\ opened = {}
  /\ current = None /\ parsed = << >>
  /\ total = [g \in Targets |-> None] /\ group = [t \in Groups |-> None]
  /\ misread = 0 /\ verdict = "reading"

(* The amounts of the rows of the sections in S.                             *)
Sum(rs, S) ==
  LET upTo[n \in 0..Len(rs)] ==
        IF n = 0 THEN 0 ELSE upTo[n - 1] + (IF rs[n].gl \in S THEN rs[n].amt ELSE 0)
  IN  upTo[Len(rs)]

SectionsOf(t) == {g \in Targets : GroupOf[g] = t}

(* The parser passes over this line.                                         *)
Misread == misread < MaxMisread /\ misread' = misread + 1

Printing == verdict = "reading" /\ group = [t \in Groups |-> None]

(* Mutant: a section that is no target leaves current_gl.                    *)
SectionHeadKeeps(g) ==
  /\ Printing /\ section = None /\ g \notin opened
  /\ section' = g /\ opened' = opened \cup {g}
  /\ \/ current' = (IF g \in Targets THEN g ELSE current) /\ UNCHANGED misread
     \/ Misread /\ UNCHANGED current
  /\ UNCHANGED <<printed, parsed, total, group, verdict>>

(* SECTION_HEAD_RE.                                                          *)
SectionHead(g) ==
  /\ Printing /\ section = None /\ g \notin opened
  /\ section' = g /\ opened' = opened \cup {g}
  /\ \/ current' = (IF g \in Targets THEN g ELSE None) /\ UNCHANGED misread
     \/ Misread /\ UNCHANGED current
  /\ UNCHANGED <<printed, parsed, total, group, verdict>>

(* DATA_ROW_RE, only under a target section; add_row.                        *)
Row(amt) ==
  /\ Printing /\ section # None /\ Len(printed) < MaxRows
  /\ printed' = Append(printed, [gl |-> section, amt |-> amt])
  /\ \/ /\ parsed' = IF current = None THEN parsed
                       ELSE Append(parsed, [gl |-> current, amt |-> amt, line |-> Len(printed) + 1])
        /\ UNCHANGED misread
     \/ Misread /\ UNCHANGED parsed
  /\ UNCHANGED <<section, opened, current, total, group, verdict>>

(* TOTAL_FOR_RE: set_section_total, for a target; the section goes on in the *)
(* parser until the next head.                                               *)
TotalFor ==
  /\ Printing /\ section # None
  /\ section' = None
  /\ \/ /\ total' = IF section \in Targets
                      THEN [total EXCEPT ![section] = Sum(printed, {section})] ELSE total
        /\ UNCHANGED misread
     \/ Misread /\ UNCHANGED total
  /\ UNCHANGED <<printed, opened, current, parsed, group, verdict>>

(* GROUP_TOTAL_RE, after the sections: each is read or not.                  *)
GroupTotals ==
  /\ Printing /\ section = None
  /\ \E missed \in SUBSET Groups :
       /\ misread + Cardinality(missed) <= MaxMisread
       /\ misread' = misread + Cardinality(missed)
       /\ group' = [t \in Groups |-> IF t \in missed THEN None
                                       ELSE Sum(printed, SectionsOf(t))]
  /\ verdict' = "totals"
  /\ UNCHANGED <<section, printed, opened, current, parsed, total>>

(* Mutant: the group level is not compared.                                  *)
ReconSections ==
  /\ verdict = "totals"
  /\ verdict' = IF \A g \in Targets : total[g] \in {None, Sum(parsed, {g})}
                  THEN "passed" ELSE "failed"
  /\ UNCHANGED <<section, printed, opened, current, parsed, total, group, misread>>

(* run(): a total that is missing compares as equal, on both levels.         *)
Recon ==
  /\ verdict = "totals"
  /\ verdict' = IF /\ \A g \in Targets : total[g] \in {None, Sum(parsed, {g})}
                   /\ \A t \in Groups : group[t] \in {None, Sum(parsed, SectionsOf(t))}
                  THEN "passed" ELSE "failed"
  /\ UNCHANGED <<section, printed, opened, current, parsed, total, group, misread>>

CrbNext == \/ \E g \in Targets \cup Others : SectionHead(g)
           \/ \E amt \in Amounts : Row(amt)
           \/ TotalFor \/ GroupTotals \/ Recon

CrbSpec == CrbInit /\ [][CrbNext]_crbVars

-----------------------------------------------------------------------------
(* Properties.                                                              *)

(* The rows of the target sections, and those parsed from another section.   *)
TargetRows == {i \in DOMAIN printed : printed[i].gl \in Targets}
Strays     == {k \in DOMAIN parsed : printed[parsed[k].line].gl \notin Targets}

(* A file that passes has every row of a target section under its own        *)
(* section, unless the head of another section was passed over too and its   *)
(* rows stand in for those lost.  No other two lines passed over hide each   *)
(* other, because a row counts in two totals.                                *)
LostRowIsCaught ==
  (verdict = "passed" /\ Strays = {}) =>
    /\ {parsed[k].line : k \in DOMAIN parsed} = TargetRows
    /\ \A k \in DOMAIN parsed : parsed[k].gl = printed[parsed[k].line].gl

(* A file that was read whole is not refused.                                *)
WholeFilePasses == verdict = "failed" => misread > 0
=============================================================================
