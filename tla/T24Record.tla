------------------------------ MODULE T24Record ------------------------------
(***************************************************************************)
(* The record parser t24_parser, as functions of its input.                *)
(*                                                                         *)
(* An XMLRECORD is a function from cells <<pos, mv, sv>> to values, or      *)
(* Malformed.  A definition of STANDARD.SELECTION is a record               *)
(* [name, type, pos, multi]; Sanitize says which names become the same     *)
(* column.  A column is <<sanitised name, mark, n>>, the mark "" of its    *)
(* own, "lr", "mv", or "P" with the position n of a name that collided.    *)
(* Types are left out: a value is what it is, or blank and then NULL.      *)
(***************************************************************************)
EXTENDS Naturals, Sequences, FiniteSets, FiniteSetsExt, SequencesExt

CONSTANTS
  Null,          \* SQL NULL
  Blank,         \* a value that trims to ''
  Malformed,     \* an XMLRECORD that is null or does not tokenize
  LocalRef,      \* the name LOCAL.REF
  Sanitize       \* Sanitize[name]: the column name of a T24 name

-----------------------------------------------------------------------------
(* build_spec.                                                              *)

(* Only type D with a position exists in the data, and the first definition  *)
(* of a position is kept: later ones are its aliases.                        *)
InData(d) == d.type = "D" /\ d.pos >= 1
Kept(sys) == {i \in DOMAIN sys :
  InData(sys[i]) /\ \A j \in DOMAIN sys : j < i /\ InData(sys[j]) => sys[j].pos # sys[i].pos}

(* A name that collides, once sanitised, gets its position for a suffix; a   *)
(* second LOCAL.REF is no longer called so.                                  *)
SameColumn(d, e) == Sanitize[d.name] = Sanitize[e.name]
Collides(sys, i) == \E j \in Kept(sys) : j < i /\ SameColumn(sys[i], sys[j])

FieldOf(sys, i) ==
  [pos |-> sys[i].pos, multi |-> sys[i].multi,
   lref |-> sys[i].name = LocalRef /\ ~Collides(sys, i),
   column |-> IF Collides(sys, i) THEN <<Sanitize[sys[i].name], "P", sys[i].pos>>
                ELSE <<Sanitize[sys[i].name], "", 0>>]

(* LOCAL.REF<1,N>: a field of the bank's own, at value N of LOCAL.REF.       *)
FirstLocals(usr) == {i \in DOMAIN usr : \A j \in DOMAIN usr : j < i => ~SameColumn(usr[i], usr[j])}
LocalOf(l) == [mv |-> l.mv, column |-> <<Sanitize[l.name], "", 0>>]

BuildSpec(ss) == [fields |-> {FieldOf(ss.sys, i) : i \in Kept(ss.sys)},
                  locals |-> {LocalOf(ss.usr[i]) : i \in FirstLocals(ss.usr)}]

SingleFields(spec) == {f \in spec.fields : ~f.multi /\ ~f.lref}
MvFields(spec)     == {f \in spec.fields : f.multi /\ ~f.lref}
LocalRefs(spec)    == {f \in spec.fields : f.lref}
LocalRefPos(spec)  == (CHOOSE f \in LocalRefs(spec) : TRUE).pos
Locals(spec)       == IF LocalRefs(spec) = {} THEN {} ELSE spec.locals

-----------------------------------------------------------------------------
(* The columns parse gives to the three kinds of fields.                     *)

Marked(f, used, mark) == IF f.column \in used THEN <<f.column[1], mark, 0>> ELSE f.column

SingleColumns(spec) == {f.column : f \in SingleFields(spec)}
LocalColumn(spec, l) == Marked(l, SingleColumns(spec), "lr")
MvColumn(spec, f) ==
  Marked(f, SingleColumns(spec) \cup {LocalColumn(spec, l) : l \in Locals(spec)}, "mv")

-----------------------------------------------------------------------------
(* parse.                                                                    *)

Typed(v) == IF v = Blank THEN Null ELSE v
CellOf(xml, c) == IF c \in DOMAIN xml THEN Typed(xml[c]) ELSE Null

(* Values of a multi-value field, by their mv number.                        *)
Values(xml, pos) == {c[2] : c \in {c \in DOMAIN xml : c[1] = pos /\ c[3] = 1}}

(* Mutant: the values that are there, one after the other.                   *)
PackedArray(xml, pos) ==
  LET mvs == SetToSortSeq(Values(xml, pos), <) IN
    IF mvs = << >> THEN Null ELSE [i \in DOMAIN mvs |-> CellOf(xml, <<pos, mvs[i], 1>>)]

(* Dense: element i is value i, NULL where the record has none.              *)
DenseArray(xml, pos) ==
  IF Values(xml, pos) = {} THEN Null
    ELSE [i \in 1..Max(Values(xml, pos)) |-> CellOf(xml, <<pos, i, 1>>)]

(* The row of the main table, as a set of <<column, value>>.                 *)
MainRow(spec, xml) ==
  {<<f.column, CellOf(xml, <<f.pos, 1, 1>>)>> : f \in SingleFields(spec)}
    \cup {<<LocalColumn(spec, l), CellOf(xml, <<LocalRefPos(spec), l.mv, 1>>)>> : l \in Locals(spec)}
    \cup {<<MvColumn(spec, f), DenseArray(xml, f.pos)>> : f \in MvFields(spec)}

(* The rows of the __sv table: every sub-value past the first.               *)
SvRows(xml) == {<<c, Typed(xml[c])>> : c \in {c \in DOMAIN xml : c[3] > 1}}

-----------------------------------------------------------------------------
(* Reading back.                                                             *)

(* The cells that the specification of the table declares.                   *)
Declared(spec, c) ==
  c[3] = 1 /\ \/ c[2] = 1 /\ \E f \in SingleFields(spec) : f.pos = c[1]
              \/ \E f \in MvFields(spec) : f.pos = c[1]
              \/ \E l \in Locals(spec) : LocalRefPos(spec) = c[1] /\ l.mv = c[2]

(* A row as SQL sees it: the values under a column name.                     *)
Under(row, column) == {v[2] : v \in {v \in row : v[1] = column}}

(* What a query finds of a declared cell, in the columns of its position.    *)
FoundSingle(spec, row, c) ==
  UNION {Under(row, f.column) : f \in {f \in SingleFields(spec) : f.pos = c[1]}}
FoundLocal(spec, row, c) ==
  UNION {Under(row, LocalColumn(spec, l)) :
           l \in {l \in Locals(spec) : LocalRefPos(spec) = c[1] /\ l.mv = c[2]}}
FoundMv(spec, row, c) ==
  UNION {{a[c[2]] : a \in {a \in Under(row, MvColumn(spec, f)) : a # Null /\ c[2] \in DOMAIN a}} :
           f \in {f \in MvFields(spec) : f.pos = c[1]}}
Found(spec, row, c) ==
  FoundSingle(spec, row, c) \cup FoundLocal(spec, row, c) \cup FoundMv(spec, row, c)
=============================================================================
