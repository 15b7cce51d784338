--------------------------- MODULE RecordsProofs ---------------------------
(***************************************************************************)
(* What the record parser and the writer of the streaming job guarantee,   *)
(* for every layout, every content of the records, any number of records,  *)
(* events and crashes.                                                     *)
(*                                                                         *)
(* DeclaredIsFound is a statement about functions: it rests on the columns *)
(* of a layout, of which no two are the same, and on the largest number of *)
(* a multi-value field, which exists since a record is finite.             *)
(* CommittedIsExact and ChildrenOnce follow from RecInv: each commit of a  *)
(* batch settles its part of the records the batch touches, no other       *)
(* commit undoes it, and the records it does not touch stay as they were.  *)
(* ErrorsOncePerAttempt counts the copies of an error per attempt.         *)
(***************************************************************************)
EXTENDS Records, FiniteSetTheorems, WellFoundedInduction, TLAPS

-----------------------------------------------------------------------------
(* A finite set of numbers has a largest element.  The sets Above(x) are    *)
(* ordered by strict inclusion; a minimal one is empty.                     *)
LEMMA FiniteMax ==
  ASSUME NEW T, T \subseteq Nat, T # {}, IsFiniteSet(T)
  PROVE  Max(T) \in T /\ \A y \in T : y <= Max(T)
<1> DEFINE Above(x) == {y \in T : y > x}
           U == {Above(x) : x \in T}
           R == StrictSubsetOrdering(T)
<1>1. IsWellFoundedOn(R, SUBSET T)
  BY FS_StrictSubsetOrderingWellFounded, FS_FiniteSubsetsOfFinite
<1>2. U \subseteq SUBSET T /\ U # {}
  OBVIOUS
<1>3. \A A, B \in SUBSET T : B \subseteq A /\ B # A => <<B, A>> \in R
  BY DEF StrictSubsetOrdering
<1> HIDE DEF R
<1>4. PICK A \in U : \A B \in U : ~ (<<B, A>> \in R)
  <2> HIDE DEF U
  <2> QED BY <1>1, <1>2, WFMin
<1>5. PICK x \in T : A = Above(x)
  BY <1>4
<1>6. A = {}
  <2>1. SUFFICES ASSUME NEW z \in A PROVE FALSE
    OBVIOUS
  <2>2. z \in T /\ z > x /\ x \in Nat /\ z \in Nat
    BY <1>5, <2>1
  <2>3. Above(z) \in U
    BY <2>2
  <2>4. Above(z) \subseteq A /\ z \notin Above(z)
    <3>1. \A y \in T : y > z => y > x
      BY <2>2
    <3>2. ~ (z > z)
      BY <2>2
    <3> QED BY <1>5, <3>1, <3>2
  <2>5. <<Above(z), A>> \in R
    <3> HIDE DEF Above, U
    <3> QED BY <1>2, <1>3, <1>4, <2>1, <2>3, <2>4
  <2> QED BY <1>4, <2>3, <2>5
<1>7. x \in T /\ \A y \in T : x >= y
  BY <1>5, <1>6
<1>8. Max(T) \in T /\ \A y \in T : Max(T) >= y
  BY <1>7 DEF Max
<1> QED BY <1>8

-----------------------------------------------------------------------------
(* The columns of a layout.                                                 *)

(* A field of a layout comes from a definition that was kept.               *)
LEMMA FieldIsKept ==
  ASSUME NEW ss, NEW f \in BuildSpec(ss).fields
  PROVE  \E i \in Kept(ss.sys) : f = FieldOf(ss.sys, i)
BY DEF BuildSpec

(* A definition's column, whether its name collides or not.                 *)
LEMMA FieldParts ==
  ASSUME NEW sys, NEW i \in Kept(sys)
  PROVE  /\ i \in DOMAIN sys
         /\ FieldOf(sys, i).pos = sys[i].pos
         /\ FieldOf(sys, i).column[1] = Sanitize[sys[i].name]
         /\ FieldOf(sys, i).column[2] = IF Collides(sys, i) THEN "P" ELSE ""
         /\ Collides(sys, i) => FieldOf(sys, i).column[3] = sys[i].pos
         /\ FieldOf(sys, i).lref => sys[i].name = LocalRef /\ ~Collides(sys, i)
<1>1. i \in DOMAIN sys
  BY DEF Kept
<1>2. FieldOf(sys, i).column = IF Collides(sys, i) THEN <<Sanitize[sys[i].name], "P", sys[i].pos>>
                                 ELSE <<Sanitize[sys[i].name], "", 0>>
  BY DEF FieldOf
<1> QED BY <1>1, <1>2 DEF FieldOf

(* No two fields have a position in common ...                              *)
LEMMA OnePosition ==
  ASSUME NEW ss, IsLayout(ss),
         NEW i \in Kept(ss.sys), NEW j \in Kept(ss.sys), ss.sys[i].pos = ss.sys[j].pos
  PROVE  i = j
<1>1. i \in Nat /\ j \in Nat /\ i \in DOMAIN ss.sys /\ j \in DOMAIN ss.sys
  BY DEF Kept, IsLayout
<1>2. InData(ss.sys[i]) /\ InData(ss.sys[j])
  BY DEF Kept
<1>3. ~ (i < j) /\ ~ (j < i)
  BY <1>1, <1>2 DEF Kept
<1> QED BY <1>1, <1>3

(* ... nor a column.                                                        *)
LEMMA OneColumn ==
  ASSUME NEW ss, IsLayout(ss),
         NEW i \in Kept(ss.sys), NEW j \in Kept(ss.sys),
         FieldOf(ss.sys, i).column = FieldOf(ss.sys, j).column
  PROVE  i = j
<1>1. i \in Nat /\ j \in Nat
  BY DEF Kept, IsLayout
<1>2. /\ FieldOf(ss.sys, i).column[1] = Sanitize[ss.sys[i].name]
      /\ FieldOf(ss.sys, i).column[2] = IF Collides(ss.sys, i) THEN "P" ELSE ""
      /\ Collides(ss.sys, i) => FieldOf(ss.sys, i).column[3] = ss.sys[i].pos
  BY FieldParts
<1>3. /\ FieldOf(ss.sys, j).column[1] = Sanitize[ss.sys[j].name]
      /\ FieldOf(ss.sys, j).column[2] = IF Collides(ss.sys, j) THEN "P" ELSE ""
      /\ Collides(ss.sys, j) => FieldOf(ss.sys, j).column[3] = ss.sys[j].pos
  BY FieldParts
<1>4. Collides(ss.sys, i) <=> Collides(ss.sys, j)
  BY <1>2, <1>3
<1>5. CASE Collides(ss.sys, i)
  <2>1. ss.sys[i].pos = ss.sys[j].pos
    BY <1>4, <1>2, <1>3, <1>5
  <2> QED BY <2>1, OnePosition
<1>6. CASE ~Collides(ss.sys, i)
  <2>1. Sanitize[ss.sys[i].name] = Sanitize[ss.sys[j].name]
    BY <1>2, <1>3
  <2>2. SameColumn(ss.sys[i], ss.sys[j]) /\ SameColumn(ss.sys[j], ss.sys[i])
    BY <2>1 DEF SameColumn
  <2>3. ~ (i < j) /\ ~ (j < i)
    BY <1>4, <1>6, <2>2 DEF Collides
  <2> QED BY <1>1, <2>3
<1> QED BY <1>5, <1>6

(* The fields of a layout as columns, and the one LOCAL.REF among them.     *)
LEMMA FieldColumns ==
  ASSUME NEW ss, IsLayout(ss)
  PROVE  LET s == BuildSpec(ss) IN
         /\ \A f, g \in s.fields : f.pos = g.pos => f = g
         /\ \A f, g \in s.fields : f.column = g.column => f = g
         /\ \A f \in s.fields : f.column[2] \in {"", "P"}
         /\ \A f \in s.fields : f.column[2] = "" => f.column = <<f.column[1], "", 0>>
         /\ \A f, g \in LocalRefs(s) : f = g
<1> DEFINE s == BuildSpec(ss)
<1>1. ASSUME NEW f \in s.fields, NEW g \in s.fields, f.pos = g.pos
      PROVE  f = g
  <2>1. PICK i \in Kept(ss.sys) : f = FieldOf(ss.sys, i)
    BY FieldIsKept
  <2>2. PICK j \in Kept(ss.sys) : g = FieldOf(ss.sys, j)
    BY FieldIsKept
  <2>3. ss.sys[i].pos = ss.sys[j].pos
    BY <1>1, <2>1, <2>2, FieldParts
  <2> QED BY <2>1, <2>2, <2>3, OnePosition
<1>2. \A f, g \in s.fields : f.column = g.column => f = g
  BY FieldIsKept, OneColumn
<1>3. ASSUME NEW f \in s.fields
      PROVE  /\ f.column[2] \in {"", "P"}
             /\ f.column[2] = "" => f.column = <<f.column[1], "", 0>>
             /\ f.lref => f.column = <<Sanitize[LocalRef], "", 0>>
  <2>1. PICK i \in Kept(ss.sys) : f = FieldOf(ss.sys, i)
    BY FieldIsKept
  <2>2. CASE Collides(ss.sys, i)
    <3>1. f.column = <<Sanitize[ss.sys[i].name], "P", ss.sys[i].pos>> /\ ~f.lref
      BY <2>1, <2>2 DEF FieldOf
    <3> QED BY <3>1
  <2>3. CASE ~Collides(ss.sys, i)
    <3>1. f.column = <<Sanitize[ss.sys[i].name], "", 0>> /\ (f.lref => ss.sys[i].name = LocalRef)
      BY <2>1, <2>3 DEF FieldOf
    <3>2. f.column[1] = Sanitize[ss.sys[i].name] /\ f.column[2] = ""
      BY <2>1, <2>3, FieldParts
    <3>3. f.column = <<f.column[1], "", 0>>
      BY <3>1, <3>2, Zenon
    <3>4. f.lref => f.column = <<Sanitize[LocalRef], "", 0>>
      BY <3>1, Zenon
    <3> QED BY <3>2, <3>3, <3>4
  <2> QED BY <2>2, <2>3
<1>4. \A f, g \in LocalRefs(s) : f = g
  <2> HIDE DEF s
  <2> QED BY <1>2, <1>3 DEF LocalRefs
<1> QED
  <2> HIDE DEF s
  <2>1. \A f \in s.fields : f.column[2] \in {"", "P"}
    BY <1>3
  <2>2. \A f \in s.fields : f.column[2] = "" => f.column = <<f.column[1], "", 0>>
    BY <1>3
  <2> QED BY <1>1, <1>2, <1>4, <2>1, <2>2 DEF s

(* The local fields: no two have the same name.                             *)
LEMMA LocalColumns ==
  ASSUME NEW ss, IsLayout(ss)
  PROVE  LET s == BuildSpec(ss) IN
         /\ \A l \in s.locals : l.column = <<l.column[1], "", 0>> /\ l.column[2] = ""
         /\ \A l, m \in s.locals : l.column[1] = m.column[1] => l = m
<1> DEFINE s == BuildSpec(ss)
<1>1. ASSUME NEW l \in s.locals
      PROVE  \E i \in FirstLocals(ss.usr) : /\ l = LocalOf(ss.usr[i])
                                          /\ l.column = <<Sanitize[ss.usr[i].name], "", 0>>
                                          /\ l.column[1] = Sanitize[ss.usr[i].name]
                                          /\ l.column[2] = ""
  <2>1. PICK i \in FirstLocals(ss.usr) : l = LocalOf(ss.usr[i])
    BY DEF BuildSpec
  <2>2. l.column = <<Sanitize[ss.usr[i].name], "", 0>>
    BY <2>1 DEF LocalOf
  <2>3. l.column[1] = Sanitize[ss.usr[i].name] /\ l.column[2] = ""
    BY <2>1 DEF LocalOf
  <2> QED BY <2>1, <2>2, <2>3, Zenon
<1>2. ASSUME NEW l \in s.locals PROVE l.column = <<l.column[1], "", 0>> /\ l.column[2] = ""
  <2>1. PICK i \in FirstLocals(ss.usr) : /\ l.column = <<Sanitize[ss.usr[i].name], "", 0>>
                                         /\ l.column[1] = Sanitize[ss.usr[i].name]
    BY <1>1
  <2>2. l.column[2] = ""
    BY <1>1
  <2>3. l.column = <<l.column[1], "", 0>>
    BY <2>1, Zenon
  <2> QED BY <2>2, <2>3
<1>3. ASSUME NEW l \in s.locals, NEW m \in s.locals, l.column[1] = m.column[1]
      PROVE  l = m
  <2>1. PICK i \in FirstLocals(ss.usr) : /\ l = LocalOf(ss.usr[i])
                                         /\ l.column[1] = Sanitize[ss.usr[i].name]
    BY <1>1
  <2>2. PICK j \in FirstLocals(ss.usr) : /\ m = LocalOf(ss.usr[j])
                                         /\ m.column[1] = Sanitize[ss.usr[j].name]
    BY <1>1
  <2>3. Sanitize[ss.usr[i].name] = Sanitize[ss.usr[j].name]
    BY <1>3, <2>1, <2>2
  <2>4. SameColumn(ss.usr[i], ss.usr[j]) /\ SameColumn(ss.usr[j], ss.usr[i])
    BY <2>3 DEF SameColumn
  <2>5. i \in DOMAIN ss.usr /\ j \in DOMAIN ss.usr /\ ~ (i < j) /\ ~ (j < i)
    BY <2>4 DEF FirstLocals
  <2>6. i \in Nat /\ j \in Nat
    BY <2>5 DEF IsLayout
  <2>7. i = j
    BY <2>5, <2>6
  <2> QED BY <2>1, <2>2, <2>7
<1> QED
  <2> HIDE DEF s
  <2> QED BY <1>2, <1>3 DEF s

-----------------------------------------------------------------------------
(* The columns of a row: no two of them have the same name.                 *)

LEMMA MarkedParts ==
  ASSUME NEW f, NEW used, NEW mark
  PROVE  /\ f.column \in used => /\ Marked(f, used, mark)[1] = f.column[1]
                                  /\ Marked(f, used, mark)[2] = mark
         /\ f.column \notin used => Marked(f, used, mark) = f.column
BY DEF Marked

LEMMA RowColumns ==
  ASSUME NEW ss, IsLayout(ss), NEW s, s = BuildSpec(ss)
  PROVE  /\ \A f, g \in SingleFields(s) : f.column = g.column => f = g
         /\ \A f \in SingleFields(s), l \in Locals(s) : f.column # LocalColumn(s, l)
         /\ \A f \in SingleFields(s), g \in MvFields(s) : f.column # MvColumn(s, g)
         /\ \A l, m \in Locals(s) : LocalColumn(s, l) = LocalColumn(s, m) => l = m
         /\ \A l \in Locals(s), g \in MvFields(s) : LocalColumn(s, l) # MvColumn(s, g)
         /\ \A f, g \in MvFields(s) : MvColumn(s, f) = MvColumn(s, g) => f = g
<1> DEFINE names == SingleColumns(s)
           used  == names \cup {LocalColumn(s, l) : l \in Locals(s)}
<1>1. /\ \A f, g \in s.fields : f.column = g.column => f = g
      /\ \A f \in s.fields : f.column[2] \in {"", "P"}
      /\ \A f \in s.fields : f.column[2] = "" => f.column = <<f.column[1], "", 0>>
  BY FieldColumns
<1>2. /\ \A l \in s.locals : l.column[2] = ""
      /\ \A l, m \in s.locals : l.column[1] = m.column[1] => l = m
  BY LocalColumns
<1>3. /\ SingleFields(s) \subseteq s.fields /\ MvFields(s) \subseteq s.fields
      /\ SingleFields(s) \cap MvFields(s) = {} /\ Locals(s) \subseteq s.locals
  BY DEF SingleFields, MvFields, Locals
<1>4. \A f \in SingleFields(s) : f.column \in names
  BY DEF SingleColumns
<1>5. ASSUME NEW l \in Locals(s)
      PROVE  /\ LocalColumn(s, l) \notin names /\ LocalColumn(s, l) \in used
             /\ LocalColumn(s, l)[1] = l.column[1]
             /\ LocalColumn(s, l)[2] \in {"", "lr"}
  <2>1. CASE l.column \in names
    <3>1. LocalColumn(s, l)[1] = l.column[1] /\ LocalColumn(s, l)[2] = "lr"
      BY <2>1, MarkedParts DEF LocalColumn
    <3>2. \A c \in names : c[2] # "lr"
      BY <1>1, <1>3 DEF SingleColumns
    <3> QED BY <3>1, <3>2
  <2>2. CASE l.column \notin names
    <3>1. LocalColumn(s, l) = l.column
      BY <2>2, MarkedParts DEF LocalColumn
    <3>2. l.column[2] = ""
      BY <1>2, <1>3
    <3> QED BY <2>2, <3>1, <3>2
  <2> QED BY <2>1, <2>2
<1>6. ASSUME NEW g \in MvFields(s)
      PROVE  /\ MvColumn(s, g) \notin used
             /\ \/ /\ MvColumn(s, g)[1] = g.column[1] /\ MvColumn(s, g)[2] = "mv"
                   /\ g.column = <<g.column[1], "", 0>>
                \/ MvColumn(s, g) = g.column /\ g.column[2] \in {"", "P"}
  <2>1. CASE g.column \in used
    <3>1. MvColumn(s, g)[1] = g.column[1] /\ MvColumn(s, g)[2] = "mv"
      BY <2>1, MarkedParts DEF MvColumn
    <3>2. \A c \in used : c[2] # "mv"
      BY <1>1, <1>3, <1>5 DEF SingleColumns
    <3>3. g.column \notin names
      BY <1>1, <1>3 DEF SingleColumns
    <3>4. PICK l \in Locals(s) : g.column = LocalColumn(s, l)
      BY <2>1, <3>3
    <3>5. g.column[2] = ""
      BY <1>1, <1>3, <1>5, <3>4
    <3> QED BY <1>1, <1>3, <3>1, <3>2, <3>5
  <2>2. CASE g.column \notin used
    <3>1. MvColumn(s, g) = g.column
      BY <2>2, MarkedParts DEF MvColumn
    <3> QED BY <1>1, <1>3, <2>2, <3>1
  <2> QED BY <2>1, <2>2
<1>7. \A f, g \in SingleFields(s) : f.column = g.column => f = g
  BY <1>1, <1>3
<1>8. \A f \in SingleFields(s), l \in Locals(s) : f.column # LocalColumn(s, l)
  BY <1>4, <1>5
<1>9. \A f \in SingleFields(s), g \in MvFields(s) : f.column # MvColumn(s, g)
  BY <1>4, <1>6
<1>10. ASSUME NEW l \in Locals(s), NEW m \in Locals(s), LocalColumn(s, l) = LocalColumn(s, m)
       PROVE  l = m
  <2>1. LocalColumn(s, l)[1] = l.column[1] /\ LocalColumn(s, m)[1] = m.column[1]
    BY <1>5
  <2>2. l.column[1] = m.column[1]
    BY <1>10, <2>1, Zenon
  <2> QED BY <1>2, <1>3, <2>2
<1>11. \A l \in Locals(s), g \in MvFields(s) : LocalColumn(s, l) # MvColumn(s, g)
  BY <1>5, <1>6
<1>12. ASSUME NEW f \in MvFields(s), NEW g \in MvFields(s), MvColumn(s, f) = MvColumn(s, g)
       PROVE  f = g
  <2>1. f.column = g.column
    <3>1. CASE MvColumn(s, f)[2] = "mv"
      <4>1. /\ f.column = <<f.column[1], "", 0>> /\ g.column = <<g.column[1], "", 0>>
            /\ f.column[1] = g.column[1]
        BY <1>6, <1>12, <3>1
      <4> QED BY <4>1, Zenon
    <3>2. CASE MvColumn(s, f)[2] # "mv"
      BY <1>6, <1>12, <3>2
    <3> QED BY <3>1, <3>2
  <2> QED BY <1>1, <1>3, <2>1
<1> HIDE DEF names, used
<1> QED BY <1>7, <1>8, <1>9, <1>10, <1>11, <1>12

-----------------------------------------------------------------------------
(* The values of a row under its columns.                                   *)

LEMMA OneUnder ==
  ASSUME NEW row, NEW column, NEW value, <<column, value>> \in row,
         \A v \in row : v[1] = column => v[2] = value
  PROVE  Under(row, column) = {value}
<1>1. <<column, value>>[1] = column /\ <<column, value>>[2] = value
  OBVIOUS
<1>2. value \in Under(row, column)
  BY <1>1, Zenon DEF Under
<1>3. \A w \in Under(row, column) : w = value
  BY Zenon DEF Under
<1> QED BY <1>2, <1>3

(* A row holds the three kinds of columns and nothing else.                 *)
LEMMA RowParts ==
  ASSUME NEW s, NEW xml, NEW v \in MainRow(s, xml)
  PROVE  \/ \E f \in SingleFields(s) : v[1] = f.column /\ v[2] = CellOf(xml, <<f.pos, 1, 1>>)
         \/ \E l \in Locals(s) :
              v[1] = LocalColumn(s, l) /\ v[2] = CellOf(xml, <<LocalRefPos(s), l.mv, 1>>)
         \/ \E f \in MvFields(s) : v[1] = MvColumn(s, f) /\ v[2] = DenseArray(xml, f.pos)
<1>1. \A x, y : <<x, y>>[1] = x /\ <<x, y>>[2] = y
  OBVIOUS
<1>2. \/ \E f \in SingleFields(s) : v = <<f.column, CellOf(xml, <<f.pos, 1, 1>>)>>
      \/ \E l \in Locals(s) : v = <<LocalColumn(s, l), CellOf(xml, <<LocalRefPos(s), l.mv, 1>>)>>
      \/ \E f \in MvFields(s) : v = <<MvColumn(s, f), DenseArray(xml, f.pos)>>
  BY Zenon DEF MainRow
<1>3. ASSUME NEW f \in SingleFields(s), v = <<f.column, CellOf(xml, <<f.pos, 1, 1>>)>>
      PROVE  v[1] = f.column /\ v[2] = CellOf(xml, <<f.pos, 1, 1>>)
  BY <1>1, <1>3
<1>4. ASSUME NEW l \in Locals(s),
             v = <<LocalColumn(s, l), CellOf(xml, <<LocalRefPos(s), l.mv, 1>>)>>
      PROVE  v[1] = LocalColumn(s, l) /\ v[2] = CellOf(xml, <<LocalRefPos(s), l.mv, 1>>)
  BY <1>1, <1>4
<1>5. ASSUME NEW f \in MvFields(s), v = <<MvColumn(s, f), DenseArray(xml, f.pos)>>
      PROVE  v[1] = MvColumn(s, f) /\ v[2] = DenseArray(xml, f.pos)
  BY <1>1, <1>5
<1> QED BY <1>2, <1>3, <1>4, <1>5, Zenon

LEMMA SingleValue ==
  ASSUME NEW ss, IsLayout(ss), NEW s, s = BuildSpec(ss), NEW xml, NEW f \in SingleFields(s)
  PROVE  Under(MainRow(s, xml), f.column) = {CellOf(xml, <<f.pos, 1, 1>>)}
<1>1. <<f.column, CellOf(xml, <<f.pos, 1, 1>>)>> \in MainRow(s, xml)
  BY DEF MainRow
<1>2. ASSUME NEW v \in MainRow(s, xml), v[1] = f.column
      PROVE  v[2] = CellOf(xml, <<f.pos, 1, 1>>)
  <2>1. \A l \in Locals(s) : v[1] # LocalColumn(s, l)
    BY <1>2, RowColumns
  <2>2. \A g \in MvFields(s) : v[1] # MvColumn(s, g)
    BY <1>2, RowColumns
  <2>3. \A g \in SingleFields(s) : v[1] = g.column => g = f
    BY <1>2, RowColumns
  <2>4. \/ \E h \in SingleFields(s) : v[1] = h.column /\ v[2] = CellOf(xml, <<h.pos, 1, 1>>)
        \/ \E m \in Locals(s) :
             v[1] = LocalColumn(s, m) /\ v[2] = CellOf(xml, <<LocalRefPos(s), m.mv, 1>>)
        \/ \E g \in MvFields(s) : v[1] = MvColumn(s, g) /\ v[2] = DenseArray(xml, g.pos)
    BY RowParts
  <2> QED BY <2>1, <2>2, <2>3, <2>4, Zenon
<1> QED BY <1>1, <1>2, OneUnder

LEMMA LocalValue ==
  ASSUME NEW ss, IsLayout(ss), NEW s, s = BuildSpec(ss), NEW xml, NEW l \in Locals(s)
  PROVE  Under(MainRow(s, xml), LocalColumn(s, l)) = {CellOf(xml, <<LocalRefPos(s), l.mv, 1>>)}
<1>1. <<LocalColumn(s, l), CellOf(xml, <<LocalRefPos(s), l.mv, 1>>)>> \in MainRow(s, xml)
  BY DEF MainRow
<1>2. ASSUME NEW v \in MainRow(s, xml), v[1] = LocalColumn(s, l)
      PROVE  v[2] = CellOf(xml, <<LocalRefPos(s), l.mv, 1>>)
  <2>1. \A m \in Locals(s) : v[1] = LocalColumn(s, m) => m = l
    BY <1>2, RowColumns
  <2>2. \A g \in MvFields(s) : v[1] # MvColumn(s, g)
    BY <1>2, RowColumns
  <2>3. \A g \in SingleFields(s) : v[1] # g.column
    BY <1>2, RowColumns
  <2>4. \/ \E h \in SingleFields(s) : v[1] = h.column /\ v[2] = CellOf(xml, <<h.pos, 1, 1>>)
        \/ \E m \in Locals(s) :
             v[1] = LocalColumn(s, m) /\ v[2] = CellOf(xml, <<LocalRefPos(s), m.mv, 1>>)
        \/ \E g \in MvFields(s) : v[1] = MvColumn(s, g) /\ v[2] = DenseArray(xml, g.pos)
    BY RowParts
  <2> QED BY <2>1, <2>2, <2>3, <2>4, Zenon
<1> QED BY <1>1, <1>2, OneUnder

LEMMA MvValue ==
  ASSUME NEW ss, IsLayout(ss), NEW s, s = BuildSpec(ss), NEW xml, NEW f \in MvFields(s)
  PROVE  Under(MainRow(s, xml), MvColumn(s, f)) = {DenseArray(xml, f.pos)}
<1>1. <<MvColumn(s, f), DenseArray(xml, f.pos)>> \in MainRow(s, xml)
  BY DEF MainRow
<1>2. ASSUME NEW v \in MainRow(s, xml), v[1] = MvColumn(s, f)
      PROVE  v[2] = DenseArray(xml, f.pos)
  <2>1. \A l \in Locals(s) : v[1] # LocalColumn(s, l)
    BY <1>2, RowColumns
  <2>2. \A g \in MvFields(s) : v[1] = MvColumn(s, g) => g = f
    BY <1>2, RowColumns
  <2>3. \A g \in SingleFields(s) : v[1] # g.column
    BY <1>2, RowColumns
  <2>4. \/ \E h \in SingleFields(s) : v[1] = h.column /\ v[2] = CellOf(xml, <<h.pos, 1, 1>>)
        \/ \E m \in Locals(s) :
             v[1] = LocalColumn(s, m) /\ v[2] = CellOf(xml, <<LocalRefPos(s), m.mv, 1>>)
        \/ \E g \in MvFields(s) : v[1] = MvColumn(s, g) /\ v[2] = DenseArray(xml, g.pos)
    BY RowParts
  <2> QED BY <2>1, <2>2, <2>3, <2>4, Zenon
<1> QED BY <1>1, <1>2, OneUnder

(* A value of a multi-value field is at its own number of the array.        *)
LEMMA ArrayValue ==
  ASSUME NEW xml, IsRecord(xml), NEW c \in DOMAIN xml, c[3] = 1
  PROVE  LET a == DenseArray(xml, c[1]) IN
           a # Null /\ c[2] \in DOMAIN a /\ a[c[2]] = Typed(xml[c])
<1> DEFINE mvs == Values(xml, c[1])
           n   == Max(mvs)
           a   == DenseArray(xml, c[1])
<1>1. \A d \in DOMAIN xml : d = <<d[1], d[2], d[3]>> /\ d[2] \in Nat \ {0}
  BY DEF IsRecord
<1>2. c[2] \in mvs /\ mvs \subseteq Nat \ {0}
  BY <1>1 DEF Values
<1>3. IsFiniteSet(mvs)
  <2> DEFINE cells == {d \in DOMAIN xml : d[1] = c[1] /\ d[3] = 1}
             number == [d \in cells |-> d[2]]
  <2>1. IsFiniteSet(cells)
    BY FS_Subset DEF IsRecord
  <2>2. number \in Surjection(cells, mvs)
    <3>1. \A d \in cells : number[d] = d[2] /\ d[2] \in mvs
      BY DEF Values
    <3>2. \A m \in mvs : \E d \in cells : d[2] = m
      BY DEF Values
    <3>3. number \in [cells -> mvs]
      BY <3>1
    <3> QED BY <3>1, <3>2, <3>3, Zenon DEF Surjection
  <2> QED BY <2>1, <2>2, FS_Surjection
<1>4. n \in Nat /\ c[2] \in 1..n
  <2> HIDE DEF mvs
  <2>1. mvs \subseteq Nat /\ mvs # {} /\ c[2] \in Nat /\ c[2] # 0
    BY <1>2
  <2>2. n \in mvs /\ \A y \in mvs : y <= n
    BY <1>3, <2>1, FiniteMax
  <2>3. \A m \in mvs : (\A y \in mvs : y <= m) => m \in Nat /\ c[2] \in 1..m
    BY <1>2, <2>1
  <2> HIDE DEF n
  <2> QED BY <2>2, <2>3
<1>5. a = [i \in 1..n |-> CellOf(xml, <<c[1], i, 1>>)]
  BY <1>2 DEF DenseArray
<1>6. a[c[2]] = Typed(xml[c])
  <2>1. c = <<c[1], c[2], 1>>
    BY <1>1
  <2>2. CellOf(xml, <<c[1], c[2], 1>>) = Typed(xml[c])
    BY <2>1, Zenon DEF CellOf
  <2> QED BY <1>4, <1>5, <2>2
<1>7. a # Null
  <2> DEFINE V == {Typed(xml[d]) : d \in DOMAIN xml} \cup {Null}
  <2>1. \A i \in 1..n : CellOf(xml, <<c[1], i, 1>>) \in V
    BY DEF CellOf
  <2> HIDE DEF V
  <2> HIDE DEF n
  <2>2. a \in Seq(V)
    <3> HIDE DEF a
    <3>1. [i \in 1..n |-> CellOf(xml, <<c[1], i, 1>>)] \in [1..n -> V]
      BY <2>1
    <3> QED BY <1>4, <1>5, <3>1
  <2> QED BY <2>2 DEF IsRecord, V
<1> HIDE DEF a
<1> QED BY <1>4, <1>5, <1>6, <1>7 DEF a

(* The three kinds of fields have no position in common.                    *)
LEMMA KindsApart ==
  ASSUME NEW ss, IsLayout(ss), NEW s, s = BuildSpec(ss)
  PROVE  /\ \A f \in SingleFields(s), g \in MvFields(s) : f.pos # g.pos
         /\ \A f \in SingleFields(s) \cup MvFields(s), l \in Locals(s) : f.pos # LocalRefPos(s)
<1>1. \A f, g \in s.fields : f.pos = g.pos => f = g
  BY FieldColumns
<1>2. Locals(s) # {} => \E lref \in LocalRefs(s) : LocalRefPos(s) = lref.pos
  BY DEF Locals, LocalRefPos
<1> QED BY <1>1, <1>2 DEF SingleFields, MvFields, LocalRefs

(* What a query finds of a declared cell is the value of the cell.          *)
LEMMA CellIsFound ==
  ASSUME NEW ss, IsLayout(ss), NEW s, s = BuildSpec(ss),
         NEW xml, IsRecord(xml), NEW c \in DOMAIN xml, Declared(s, c)
  PROVE  Found(s, MainRow(s, xml), c) = {Typed(xml[c])}
<1> DEFINE row == MainRow(s, xml)
           v   == Typed(xml[c])
<1>1. c[3] = 1 /\ c = <<c[1], c[2], 1>>
  <2>1. c = <<c[1], c[2], c[3]>>
    BY DEF IsRecord
  <2>2. c[3] = 1
    BY DEF Declared
  <2> QED BY <2>1, <2>2, Zenon
<1>2. CellOf(xml, <<c[1], c[2], 1>>) = v
  BY <1>1, Zenon DEF CellOf
<1>3. \A f \in SingleFields(s) : f.pos = c[1] /\ c[2] = 1 => Under(row, f.column) = {v}
  BY <1>2, SingleValue
<1>4. \A l \in Locals(s) : LocalRefPos(s) = c[1] /\ l.mv = c[2] => Under(row, LocalColumn(s, l)) = {v}
  BY <1>2, LocalValue
<1>5. ASSUME NEW f \in MvFields(s), f.pos = c[1]
      PROVE  {a[c[2]] : a \in {a \in Under(row, MvColumn(s, f)) : a # Null /\ c[2] \in DOMAIN a}} = {v}
  <2> DEFINE d == DenseArray(xml, c[1])
  <2>1. Under(row, MvColumn(s, f)) = {d}
    BY <1>5, MvValue
  <2>2. d # Null /\ c[2] \in DOMAIN d /\ d[c[2]] = v
    BY <1>1, ArrayValue
  <2> HIDE DEF d, row, v
  <2>3. {a \in Under(row, MvColumn(s, f)) : a # Null /\ c[2] \in DOMAIN a} = {d}
    BY <2>1, <2>2
  <2> QED BY <2>2, <2>3
<1> HIDE DEF row, v
<1>6. CASE c[2] = 1 /\ \E f \in SingleFields(s) : f.pos = c[1]
  <2>1. PICK f \in SingleFields(s) : f.pos = c[1]
    BY <1>6
  <2>2. FoundSingle(s, row, c) = {v}
    BY <1>3, <1>6, <2>1 DEF FoundSingle
  <2>3. FoundLocal(s, row, c) = {}
    BY <2>1, KindsApart DEF FoundLocal
  <2>4. FoundMv(s, row, c) = {}
    BY <2>1, KindsApart DEF FoundMv
  <2> QED BY <2>2, <2>3, <2>4 DEF Found, row, v
<1>7. CASE \E f \in MvFields(s) : f.pos = c[1]
  <2>1. PICK f \in MvFields(s) : f.pos = c[1]
    BY <1>7
  <2>2. FoundSingle(s, row, c) = {}
    BY <2>1, KindsApart DEF FoundSingle
  <2>3. FoundLocal(s, row, c) = {}
    BY <2>1, KindsApart DEF FoundLocal
  <2>4. FoundMv(s, row, c) = {v}
    BY <1>5, <2>1 DEF FoundMv
  <2> QED BY <2>2, <2>3, <2>4 DEF Found, row, v
<1>8. CASE \E l \in Locals(s) : LocalRefPos(s) = c[1] /\ l.mv = c[2]
  <2>1. PICK l \in Locals(s) : LocalRefPos(s) = c[1] /\ l.mv = c[2]
    BY <1>8
  <2>2. FoundSingle(s, row, c) = {}
    BY <2>1, KindsApart DEF FoundSingle
  <2>3. FoundLocal(s, row, c) = {v}
    BY <1>4, <2>1 DEF FoundLocal
  <2>4. FoundMv(s, row, c) = {}
    BY <2>1, KindsApart DEF FoundMv
  <2> QED BY <2>2, <2>3, <2>4 DEF Found, row, v
<1> QED BY <1>6, <1>7, <1>8 DEF Declared

-----------------------------------------------------------------------------
(* The events of a batch.                                                   *)

(* LastIn is the last event of a record in a range, 0 when there is none.   *)
LEMMA LastInIs ==
  ASSUME NEW r, NEW from \in Nat, NEW to \in Nat
  PROVE  /\ LastIn(r, from, to) \in Nat
         /\ LastIn(r, from, to) # 0 =>
              LastIn(r, from, to) \in from..to /\ events[LastIn(r, from, to)].rec = r
         /\ \A i \in from..to : events[i].rec = r => i <= LastIn(r, from, to)
<1> DEFINE own == {0} \cup {i \in from..to : events[i].rec = r}
<1>1. own \subseteq 0..to /\ own \subseteq Nat /\ own # {}
  OBVIOUS
<1>2. IsFiniteSet(own)
  <2> HIDE DEF own
  <2>1. IsFiniteSet(0..to)
    BY FS_Interval
  <2> QED BY <1>1, <2>1, FS_Subset
<1>3. Max(own) \in own /\ \A y \in own : y <= Max(own)
  <2> HIDE DEF own
  <2> QED BY <1>1, <1>2, FiniteMax
<1>4. LastIn(r, from, to) = Max(own)
  BY DEF LastIn
<1> QED BY <1>1, <1>3, <1>4

(* A number with these properties is LastIn.                                *)
LEMMA LastInUnique ==
  ASSUME NEW r, NEW from \in Nat, NEW to \in Nat, NEW n \in Nat,
         n # 0 => n \in from..to /\ events[n].rec = r,
         \A i \in from..to : events[i].rec = r => i <= n
  PROVE  LastIn(r, from, to) = n
<1> DEFINE m == LastIn(r, from, to)
<1>1. /\ m \in Nat
      /\ m # 0 => m \in from..to /\ events[m].rec = r
      /\ \A i \in from..to : events[i].rec = r => i <= m
  BY LastInIs
<1>2. n <= m
  BY <1>1
<1>3. m <= n
  BY <1>1
<1> HIDE DEF m
<1>4. m = n
  BY <1>1, <1>2, <1>3
<1> QED BY <1>4 DEF m

(* The newest event of a record in the batch, and what a set of the batch's *)
(* events touches.                                                          *)
LEMMA TouchedBy ==
  ASSUME RecTypes, BatchIsTail, NEW r \in Recs, NEW is, is \subseteq Latest
  PROVE  /\ r \in Touched(is) <=> InBatch(r) \in is
         /\ InBatch(r) \in is => NewestOf(is, r) = InBatch(r)
<1>1. done + 1 \in Nat /\ upto \in Nat
  BY DEF RecTypes
<1>2. \A q \in Recs : InBatch(q) # 0 => events[InBatch(q)].rec = q
  BY <1>1, LastInIs DEF InBatch
<1>3. \A i \in Latest : \E q \in Recs : i = InBatch(q) /\ i # 0
  BY DEF Latest, InBatch
<1>4. \A i \in Latest : i = InBatch(events[i].rec) /\ i # 0
  BY <1>2, <1>3
<1>5. ASSUME InBatch(r) \in is
      PROVE  r \in Touched(is) /\ NewestOf(is, r) = InBatch(r)
  <2>1. events[InBatch(r)].rec = r
    BY <1>2, <1>4, <1>5
  <2>2. \A i \in is : events[i].rec = r => i = InBatch(r)
    BY <1>4
  <2>3. r \in Touched(is)
    BY <1>5, <2>1 DEF Touched
  <2>4. NewestOf(is, r) = InBatch(r)
    BY <1>5, <2>1, <2>2 DEF NewestOf
  <2> QED BY <2>3, <2>4
<1>6. ASSUME r \in Touched(is) PROVE InBatch(r) \in is
  BY <1>4, <1>6 DEF Touched
<1> QED BY <1>5, <1>6

(* The kinds of a batch's events, and the batch's event of a record.        *)
LEMMA BatchKinds ==
  ASSUME RecTypes, BatchIsTail
  PROVE  /\ Deleted \subseteq Latest /\ Parsed \subseteq Latest
         /\ Errors \subseteq Latest /\ WithSv \subseteq Parsed
         /\ Parsed \cap Deleted = {} /\ 0 \notin Latest
         /\ \A r \in Recs : InBatch(r) # 0 => InBatch(r) \in Latest
         /\ \A r \in Recs : InBatch(r) \in Nat /\ InBatch(r) <= Len(events)
         /\ \A r \in Recs : NewestDone(r) \in Nat /\ NewestDone(r) <= Len(events)
<1>1. done \in Nat /\ done + 1 \in Nat /\ upto \in Nat /\ Len(events) \in Nat /\ 1 \in Nat
  BY DEF RecTypes
<1>2. done <= Len(events) /\ upto <= Len(events)
  BY <1>1 DEF BatchIsTail
<1>3. ASSUME NEW r \in Recs
      PROVE  InBatch(r) \in Nat /\ InBatch(r) <= Len(events)
  <2>1. InBatch(r) \in Nat /\ (InBatch(r) # 0 => InBatch(r) \in (done + 1)..upto)
    BY <1>1, LastInIs DEF InBatch
  <2> QED BY <1>1, <1>2, <2>1
<1>4. ASSUME NEW r \in Recs
      PROVE  NewestDone(r) \in Nat /\ NewestDone(r) <= Len(events)
  <2>1. NewestDone(r) \in Nat /\ (NewestDone(r) # 0 => NewestDone(r) \in 1..done)
    BY <1>1, LastInIs DEF NewestDone
  <2> QED BY <1>1, <1>2, <2>1
<1>5. \A r \in Recs : InBatch(r) # 0 => InBatch(r) \in Latest
  BY DEF InBatch, Latest
<1>6. 0 \notin Latest
  BY DEF Latest
<1>7. Deleted \subseteq Latest /\ Parsed \subseteq Latest /\ Errors \subseteq Latest
  BY DEF Deleted, Parsed, Errors
<1>8. WithSv \subseteq Parsed /\ Parsed \cap Deleted = {}
  BY DEF WithSv, Parsed
<1> QED BY <1>3, <1>4, <1>5, <1>6, <1>7, <1>8

-----------------------------------------------------------------------------
(* What a step leaves alone.                                                *)

Batch == <<layout, done, upto>>
KeepsEvents == \A i \in 1..Len(events) : events'[i] = events[i]

(* Events are only appended: the batch in flight and what was committed     *)
(* before it are the same after the step.                                   *)
LEMMA SameBatch ==
  ASSUME RecTypes, BatchIsTail, UNCHANGED Batch, KeepsEvents
  PROVE  /\ spec' = spec
         /\ \A r \in Recs : InBatch(r)' = InBatch(r) /\ NewestDone(r)' = NewestDone(r)
         /\ Latest' = Latest /\ Deleted' = Deleted /\ Parsed' = Parsed
         /\ Errors' = Errors /\ WithSv' = WithSv
         /\ \A i \in Latest : events'[i] = events[i]
<1>1. done \in Nat /\ upto \in Nat /\ Len(events) \in Nat /\ done' = done /\ upto' = upto /\ layout' = layout
  BY DEF RecTypes, Batch
<1>2. (\A i \in (done + 1)..upto : events'[i] = events[i]) /\ (\A i \in 1..done : events'[i] = events[i])
  BY <1>1 DEF KeepsEvents, BatchIsTail
<1>3. ASSUME NEW r \in Recs PROVE InBatch(r)' = InBatch(r)
  <2>1. {i \in (done + 1)..upto : events'[i].rec = r} = {i \in (done + 1)..upto : events[i].rec = r}
    BY <1>2
  <2> QED BY <1>1, <2>1 DEF InBatch, LastIn
<1>4. ASSUME NEW r \in Recs PROVE NewestDone(r)' = NewestDone(r)
  <2>1. {i \in 1..done : events'[i].rec = r} = {i \in 1..done : events[i].rec = r}
    BY <1>2
  <2> QED BY <1>1, <2>1 DEF NewestDone, LastIn
<1>5. Latest' = Latest
  <2>1. Latest = {InBatch(r) : r \in Recs} \ {0}
    BY DEF Latest, InBatch
  <2>2. Latest' = {InBatch(r)' : r \in Recs} \ {0}
    BY DEF Latest, InBatch
  <2> QED BY <1>3, <2>1, <2>2
<1>6. \A i \in Latest : events'[i] = events[i]
  <2>1. \A r \in Recs : InBatch(r) # 0 => InBatch(r) \in (done + 1)..upto
    BY <1>1, LastInIs DEF InBatch
  <2> QED BY <1>2, <2>1 DEF Latest, InBatch
<1>7. Deleted' = Deleted
  BY <1>5, <1>6 DEF Deleted
<1>8. Parsed' = Parsed /\ Errors' = Errors
  BY <1>5, <1>6, <1>7 DEF Parsed, Errors
<1>9. Parsed \subseteq Latest
  BY DEF Parsed
<1>10. WithSv' = WithSv
  BY <1>6, <1>8, <1>9 DEF WithSv
<1>11. spec' = spec
  BY <1>1 DEF spec
<1> QED BY <1>3, <1>4, <1>5, <1>6, <1>7, <1>8, <1>10, <1>11

(* A record whose tables the step leaves alone is still as event i left it. *)
LEMMA SameExact ==
  ASSUME NEW r \in Recs, NEW i, Exact(r, i), i # 0 => events'[i] = events[i],
         spec' = spec, main'[r] = main[r], sv'[r] = sv[r], BagIn(i, dlq) => BagIn(i, dlq')
  PROVE  Exact(r, i)'
<1>1. CASE i = 0 \/ events[i].op = "d"
  BY <1>1 DEF Exact
<1>2. CASE i # 0 /\ events[i].op # "d"
  BY <1>2 DEF Exact
<1> QED BY <1>1, <1>2

(* A commit of the batch: RecInv follows from what the commit does to the   *)
(* records the batch touches.                                               *)
LEMMA CommitKeeps ==
  ASSUME RecInv, NEW from \in BatchSteps, NEW to \in BatchSteps, Commit(from, to),
         main' = [r \in Recs |-> main'[r]], sv' = [r \in Recs |-> sv'[r]],
         \A i : BagIn(i, dlq) => BagIn(i, dlq'),
         \A r \in Recs : InBatch(r) = 0 => main'[r] = main[r] /\ sv'[r] = sv[r]
  PROVE  RecTypes' /\ BatchIsTail' /\ RestIsExact'
<1>1. UNCHANGED Batch /\ KeepsEvents /\ events' = events /\ step' = to
  BY DEF Commit, Batch, KeepsEvents
<1>2. RecTypes /\ BatchIsTail /\ RestIsExact
  BY DEF RecInv
<1>3. RecTypes'
  BY <1>1, <1>2 DEF RecTypes, Batch
<1>4. BatchIsTail'
  BY <1>1, <1>2 DEF BatchIsTail, Batch, BatchSteps
<1>5. ASSUME NEW r \in Recs, InBatch(r)' = 0
      PROVE  Exact(r, NewestDone(r))'
  <2>1. InBatch(r) = 0 /\ NewestDone(r)' = NewestDone(r) /\ spec' = spec
    BY <1>1, <1>2, <1>5, SameBatch
  <2>2. Exact(r, NewestDone(r))
    BY <1>2, <2>1 DEF RestIsExact
  <2> DEFINE n == NewestDone(r)
  <2> HIDE DEF n
  <2>3. Exact(r, n)'
    BY <1>1, <2>1, <2>2, SameExact DEF n
  <2> QED BY <2>1, <2>3 DEF n
<1> QED BY <1>3, <1>4, <1>5 DEF RestIsExact

-----------------------------------------------------------------------------
(* One commit after the other.                                              *)

(* Bags: the bag of a set, and what is in a sum.                            *)
LEMMA BagOfSet ==
  ASSUME NEW S
  PROVE  SetToBag(S) = SetToBag(BagToSet(SetToBag(S))) /\ EmptyBag (+) SetToBag(S) = SetToBag(S)
<1>1. BagToSet(SetToBag(S)) = S /\ DOMAIN EmptyBag = {} /\ DOMAIN SetToBag(S) = S
  BY DEF BagToSet, SetToBag, EmptyBag
<1>2. EmptyBag (+) SetToBag(S) = [e \in S |-> 0 + 1]
  <2>1. \A e \in S : SetToBag(S)[e] = 1
    BY DEF SetToBag
  <2> QED BY <1>1, <2>1 DEF (+)
<1>3. [e \in S |-> 0 + 1] = SetToBag(S)
  BY DEF SetToBag
<1> QED BY <1>1, <1>2, <1>3

LEMMA EmptyIsOnce == EmptyBag = SetToBag(BagToSet(EmptyBag))
BY BagOfSet DEF EmptyBag

LEMMA InSum ==
  ASSUME NEW B, NEW S, NEW i
  PROVE  BagIn(i, B (+) SetToBag(S)) <=> BagIn(i, B) \/ i \in S
BY DEF BagIn, BagToSet, (+), SetToBag

(* What every commit leaves alone, and the facts about the batch a commit's *)
(* proof uses.                                                              *)
LEMMA CommitFacts ==
  ASSUME RecInv, NEW from, NEW to, Commit(from, to)
  PROVE  /\ step = from /\ step' = to /\ events' = events /\ spec' = spec
         /\ \A r \in Recs : InBatch(r)' = InBatch(r)
         /\ Deleted' = Deleted /\ Parsed' = Parsed /\ Errors' = Errors /\ WithSv' = WithSv
         /\ Deleted \subseteq Latest /\ Parsed \subseteq Latest /\ Errors \subseteq Latest
         /\ WithSv \subseteq Parsed /\ Parsed \cap Deleted = {} /\ 0 \notin Latest
         /\ main = [r \in Recs |-> main[r]] /\ sv = [r \in Recs |-> sv[r]]
         /\ \A is \in SUBSET Latest : \A r \in Recs :
              /\ r \in Touched(is) <=> InBatch(r) \in is
              /\ InBatch(r) \in is => NewestOf(is, r) = InBatch(r)
         /\ \A r \in Recs : InBatch(r) # 0 => StepDone(r)
<1>1. RecTypes /\ BatchIsTail /\ StepsDone
  BY DEF RecInv
<1>2. UNCHANGED Batch /\ KeepsEvents /\ step = from /\ step' = to /\ events' = events
  BY DEF Commit, Batch, KeepsEvents
<1>3. /\ spec' = spec /\ \A r \in Recs : InBatch(r)' = InBatch(r)
      /\ Deleted' = Deleted /\ Parsed' = Parsed /\ Errors' = Errors /\ WithSv' = WithSv
  BY <1>1, <1>2, SameBatch
<1>4. /\ Deleted \subseteq Latest /\ Parsed \subseteq Latest /\ Errors \subseteq Latest
      /\ WithSv \subseteq Parsed /\ Parsed \cap Deleted = {} /\ 0 \notin Latest
  BY <1>1, BatchKinds
<1>5. main = [r \in Recs |-> main[r]] /\ sv = [r \in Recs |-> sv[r]]
  BY <1>1 DEF RecTypes
<1>6. ASSUME NEW is \in SUBSET Latest, NEW r \in Recs
      PROVE  /\ r \in Touched(is) <=> InBatch(r) \in is
             /\ InBatch(r) \in is => NewestOf(is, r) = InBatch(r)
  BY <1>1, TouchedBy
<1> QED BY <1>1, <1>2, <1>3, <1>4, <1>5, <1>6 DEF StepsDone

LEMMA MergeMainStep ==
  ASSUME RecInv, MergeMain
  PROVE  RecInv'
<1>1. Commit("merge", "clear") /\ sv' = sv /\ dlq' = dlq
  BY DEF MergeMain
<1>2. /\ step' = "clear" /\ events' = events /\ spec' = spec
      /\ \A r \in Recs : InBatch(r)' = InBatch(r)
      /\ Parsed' = Parsed /\ Parsed \subseteq Latest /\ 0 \notin Latest
      /\ sv = [r \in Recs |-> sv[r]]
      /\ \A r \in Recs : /\ r \in Touched(Parsed) <=> InBatch(r) \in Parsed
                         /\ InBatch(r) \in Parsed => NewestOf(Parsed, r) = InBatch(r)
  BY <1>1, CommitFacts
<1>3. main' = [r \in Recs |-> main'[r]]
  BY DEF MergeMain
<1>4. \A r \in Recs : InBatch(r) \in Parsed => main'[r] = MainRow(spec, events[InBatch(r)].xml)
  BY <1>2 DEF MergeMain
<1>5. \A r \in Recs : InBatch(r) = 0 => main'[r] = main[r] /\ sv'[r] = sv[r]
  BY <1>1, <1>2 DEF MergeMain
<1>6. RecTypes' /\ BatchIsTail' /\ RestIsExact'
  BY <1>1, <1>2, <1>3, <1>5, CommitKeeps DEF BatchSteps
<1>7. ChildrenOnce'
  BY <1>1 DEF RecInv, ChildrenOnce
<1>8. ASSUME NEW r \in Recs, InBatch(r)' # 0 PROVE StepDone(r)'
  BY <1>2, <1>4 DEF StepDone
<1>9. StepsDone'
  BY <1>8 DEF StepsDone
<1> QED BY <1>6, <1>7, <1>9 DEF RecInv

LEMMA ClearChildrenStep ==
  ASSUME RecInv, ClearChildren
  PROVE  RecInv'
<1>1. Commit("clear", "append") /\ main' = main /\ dlq' = dlq
  BY DEF ClearChildren
<1>2. /\ step = "clear" /\ step' = "append" /\ events' = events /\ spec' = spec
      /\ \A r \in Recs : InBatch(r)' = InBatch(r)
      /\ Parsed' = Parsed /\ WithSv' = WithSv
      /\ WithSv \subseteq Latest /\ 0 \notin Latest /\ main = [r \in Recs |-> main[r]]
      /\ \A r \in Recs : r \in Touched(WithSv) <=> InBatch(r) \in WithSv
      /\ \A r \in Recs : InBatch(r) # 0 => StepDone(r)
  BY <1>1, CommitFacts
<1>3. sv' = [r \in Recs |-> sv'[r]]
  BY DEF ClearChildren
<1>4. \A r \in Recs : sv'[r] = IF InBatch(r) \in WithSv THEN EmptyBag ELSE sv[r]
  BY <1>2 DEF ClearChildren
<1>5. \A r \in Recs : InBatch(r) = 0 => main'[r] = main[r] /\ sv'[r] = sv[r]
  BY <1>1, <1>2, <1>4
<1>6. RecTypes' /\ BatchIsTail' /\ RestIsExact'
  BY <1>1, <1>2, <1>3, <1>5, CommitKeeps DEF BatchSteps
<1>7. ChildrenOnce'
  BY <1>4, EmptyIsOnce DEF RecInv, ChildrenOnce
<1>8. ASSUME NEW r \in Recs, InBatch(r)' # 0 PROVE StepDone(r)'
  BY <1>1, <1>2, <1>4, <1>8 DEF StepDone, BatchSteps
<1>9. StepsDone'
  BY <1>8 DEF StepsDone
<1> QED BY <1>6, <1>7, <1>9 DEF RecInv

LEMMA AppendChildrenStep ==
  ASSUME RecInv, AppendChildren
  PROVE  RecInv'
<1>1. Commit("append", "delete") /\ main' = main /\ dlq' = dlq
  BY DEF AppendChildren
<1>2. /\ step = "append" /\ step' = "delete" /\ events' = events /\ spec' = spec
      /\ \A r \in Recs : InBatch(r)' = InBatch(r)
      /\ Parsed' = Parsed /\ WithSv' = WithSv
      /\ WithSv \subseteq Latest /\ 0 \notin Latest /\ main = [r \in Recs |-> main[r]]
      /\ \A r \in Recs : /\ r \in Touched(WithSv) <=> InBatch(r) \in WithSv
                         /\ InBatch(r) \in WithSv => NewestOf(WithSv, r) = InBatch(r)
      /\ \A r \in Recs : InBatch(r) # 0 => StepDone(r)
  BY <1>1, CommitFacts
<1>3. sv' = [r \in Recs |-> sv'[r]]
  BY DEF AppendChildren
<1>4. \A r \in Recs : InBatch(r) \notin WithSv => sv'[r] = sv[r]
  BY <1>2 DEF AppendChildren
<1>5. ASSUME NEW r \in Recs, InBatch(r) \in WithSv
      PROVE  sv'[r] = SetToBag(SvRows(events[InBatch(r)].xml))
  <2>1. sv[r] = EmptyBag
    BY <1>2, <1>5 DEF StepDone
  <2>2. sv'[r] = sv[r] (+) SetToBag(SvRows(events[InBatch(r)].xml))
    BY <1>2, <1>5 DEF AppendChildren
  <2> QED BY <2>1, <2>2, BagOfSet
<1>6. \A r \in Recs : InBatch(r) = 0 => main'[r] = main[r] /\ sv'[r] = sv[r]
  BY <1>1, <1>2, <1>4
<1>7. RecTypes' /\ BatchIsTail' /\ RestIsExact'
  BY <1>1, <1>2, <1>3, <1>6, CommitKeeps DEF BatchSteps
<1>8. ChildrenOnce'
  BY <1>4, <1>5, BagOfSet DEF RecInv, ChildrenOnce
<1>9. ASSUME NEW r \in Recs, InBatch(r)' # 0 PROVE StepDone(r)'
  BY <1>1, <1>2, <1>5, <1>9 DEF StepDone, BatchSteps
<1>10. StepsDone'
  BY <1>9 DEF StepsDone
<1> QED BY <1>7, <1>8, <1>10 DEF RecInv

LEMMA DeleteMainStep ==
  ASSUME RecInv, DeleteMain
  PROVE  RecInv'
<1>1. Commit("delete", "unchild") /\ sv' = sv /\ dlq' = dlq
  BY DEF DeleteMain
<1>2. /\ step = "delete" /\ step' = "unchild" /\ events' = events /\ spec' = spec
      /\ \A r \in Recs : InBatch(r)' = InBatch(r)
      /\ Parsed' = Parsed /\ WithSv' = WithSv /\ Deleted' = Deleted
      /\ Deleted \subseteq Latest /\ 0 \notin Latest /\ Parsed \cap Deleted = {}
      /\ sv = [r \in Recs |-> sv[r]]
      /\ \A r \in Recs : r \in Touched(Deleted) <=> InBatch(r) \in Deleted
      /\ \A r \in Recs : InBatch(r) # 0 => StepDone(r)
  BY <1>1, CommitFacts
<1>3. main' = [r \in Recs |-> main'[r]]
  BY DEF DeleteMain
<1>4. \A r \in Recs : main'[r] = IF InBatch(r) \in Deleted THEN {} ELSE main[r]
  BY <1>2 DEF DeleteMain
<1>5. \A r \in Recs : InBatch(r) = 0 => main'[r] = main[r] /\ sv'[r] = sv[r]
  BY <1>1, <1>2, <1>4
<1>6. RecTypes' /\ BatchIsTail' /\ RestIsExact'
  BY <1>1, <1>2, <1>3, <1>5, CommitKeeps DEF BatchSteps
<1>7. ChildrenOnce'
  BY <1>1 DEF RecInv, ChildrenOnce
<1>8. ASSUME NEW r \in Recs, InBatch(r)' # 0 PROVE StepDone(r)'
  BY <1>1, <1>2, <1>4, <1>8 DEF StepDone, BatchSteps
<1>9. StepsDone'
  BY <1>8 DEF StepsDone
<1> QED BY <1>6, <1>7, <1>9 DEF RecInv

LEMMA DeleteChildrenStep ==
  ASSUME RecInv, DeleteChildren
  PROVE  RecInv'
<1>1. Commit("unchild", "errors") /\ main' = main /\ dlq' = dlq
  BY DEF DeleteChildren
<1>2. /\ step = "unchild" /\ step' = "errors" /\ events' = events /\ spec' = spec
      /\ \A r \in Recs : InBatch(r)' = InBatch(r)
      /\ Parsed' = Parsed /\ WithSv' = WithSv /\ Deleted' = Deleted
      /\ Deleted \subseteq Latest /\ 0 \notin Latest /\ WithSv \cap Deleted = {}
      /\ main = [r \in Recs |-> main[r]]
      /\ \A r \in Recs : r \in Touched(Deleted) <=> InBatch(r) \in Deleted
      /\ \A r \in Recs : InBatch(r) # 0 => StepDone(r)
  BY <1>1, CommitFacts
<1>3. sv' = [r \in Recs |-> sv'[r]]
  BY DEF DeleteChildren
<1>4. \A r \in Recs : sv'[r] = IF InBatch(r) \in Deleted THEN EmptyBag ELSE sv[r]
  BY <1>2 DEF DeleteChildren
<1>5. \A r \in Recs : InBatch(r) = 0 => main'[r] = main[r] /\ sv'[r] = sv[r]
  BY <1>1, <1>2, <1>4
<1>6. RecTypes' /\ BatchIsTail' /\ RestIsExact'
  BY <1>1, <1>2, <1>3, <1>5, CommitKeeps DEF BatchSteps
<1>7. ChildrenOnce'
  BY <1>4, EmptyIsOnce DEF RecInv, ChildrenOnce
<1>8. ASSUME NEW r \in Recs, InBatch(r)' # 0 PROVE StepDone(r)'
  BY <1>1, <1>2, <1>4, <1>8 DEF StepDone, BatchSteps
<1>9. StepsDone'
  BY <1>8 DEF StepsDone
<1> QED BY <1>6, <1>7, <1>9 DEF RecInv

LEMMA AppendErrorsStep ==
  ASSUME RecInv, AppendErrors
  PROVE  RecInv'
<1>1. Commit("errors", "commit") /\ main' = main /\ sv' = sv /\ dlq' = dlq (+) SetToBag(Errors)
  BY DEF AppendErrors
<1>2. /\ step = "errors" /\ step' = "commit" /\ events' = events /\ spec' = spec
      /\ \A r \in Recs : InBatch(r)' = InBatch(r)
      /\ Parsed' = Parsed /\ WithSv' = WithSv /\ Deleted' = Deleted /\ Errors' = Errors
      /\ main = [r \in Recs |-> main[r]] /\ sv = [r \in Recs |-> sv[r]]
      /\ \A r \in Recs : InBatch(r) # 0 => StepDone(r)
  BY <1>1, CommitFacts
<1>3. \A i : BagIn(i, dlq') <=> BagIn(i, dlq) \/ i \in Errors
  BY <1>1, InSum
<1>4. RecTypes' /\ BatchIsTail' /\ RestIsExact'
  BY <1>1, <1>2, <1>3, CommitKeeps DEF BatchSteps
<1>5. ChildrenOnce'
  BY <1>1 DEF RecInv, ChildrenOnce
<1>6. ASSUME NEW r \in Recs, InBatch(r)' # 0 PROVE StepDone(r)'
  BY <1>1, <1>2, <1>3, <1>6 DEF StepDone, BatchSteps
<1>7. StepsDone'
  BY <1>6 DEF StepsDone
<1> QED BY <1>4, <1>5, <1>7 DEF RecInv

-----------------------------------------------------------------------------
(* The steps around a batch.                                                *)

LEMMA EmitStep ==
  ASSUME RecInv, NEW r \in Recs, NEW op \in {"u", "d"}, NEW xml \in Xmls, Emit(r, op, xml)
  PROVE  RecInv'
<1> DEFINE e == [rec |-> r, op |-> op, xml |-> xml]
<1>1. RecTypes /\ BatchIsTail /\ ChildrenOnce /\ RestIsExact /\ StepsDone
  BY DEF RecInv
<1>2. events' = Append(events, e) /\ UNCHANGED <<layout, done, upto, step, main, sv, dlq>>
  BY DEF Emit, tables
<1>3. e \in [rec : Recs, op : {"u", "d"}, xml : Xmls]
  OBVIOUS
<1>4. events \in Seq([rec : Recs, op : {"u", "d"}, xml : Xmls])
  BY <1>1 DEF RecTypes
<1> HIDE DEF e
<1>5. /\ events' \in Seq([rec : Recs, op : {"u", "d"}, xml : Xmls])
      /\ Len(events') = Len(events) + 1 /\ Len(events) \in Nat
      /\ \A i \in 1..Len(events) : events'[i] = events[i]
  BY <1>2, <1>3, <1>4
<1>6. UNCHANGED Batch /\ KeepsEvents
  BY <1>2, <1>5 DEF Batch, KeepsEvents
<1>7. RecTypes'
  BY <1>1, <1>2, <1>5 DEF RecTypes
<1>8. BatchIsTail'
  BY <1>1, <1>2, <1>5 DEF BatchIsTail, RecTypes
<1>9. ChildrenOnce'
  BY <1>1, <1>2 DEF ChildrenOnce
<1>10. /\ spec' = spec /\ \A q \in Recs : InBatch(q)' = InBatch(q) /\ NewestDone(q)' = NewestDone(q)
       /\ Deleted' = Deleted /\ Parsed' = Parsed /\ Errors' = Errors /\ WithSv' = WithSv
       /\ \A i \in Latest : events'[i] = events[i]
  BY <1>1, <1>6, SameBatch
<1>11. ASSUME NEW q \in Recs, InBatch(q)' = 0
       PROVE  Exact(q, NewestDone(q))'
  <2> DEFINE n == NewestDone(q)
  <2>1. Exact(q, n)
    BY <1>1, <1>10, <1>11 DEF RestIsExact
  <2>2. n \in Nat /\ n <= Len(events)
    BY <1>1, BatchKinds
  <2>3. n' = n
    BY <1>10
  <2> HIDE DEF n
  <2>4. n # 0 => events'[n] = events[n]
    BY <1>5, <2>2
  <2>5. Exact(q, n)'
    BY <1>2, <1>10, <2>1, <2>3, <2>4, SameExact
  <2> QED BY <2>5 DEF n
<1>12. RestIsExact'
  BY <1>11 DEF RestIsExact
<1>13. ASSUME NEW q \in Recs, InBatch(q)' # 0 PROVE StepDone(q)'
  <2>1. InBatch(q)' = InBatch(q) /\ InBatch(q) \in Latest /\ StepDone(q)
    BY <1>1, <1>10, <1>13, BatchKinds DEF StepsDone
  <2>2. events'[InBatch(q)] = events[InBatch(q)]
    BY <1>10, <2>1
  <2> QED BY <1>2, <1>10, <2>1, <2>2 DEF StepDone
<1>14. StepsDone'
  BY <1>13 DEF StepsDone
<1> QED BY <1>7, <1>8, <1>9, <1>12, <1>14 DEF RecInv

(* Nothing is in an empty range.                                            *)
LEMMA NoneIn ==
  ASSUME NEW r, NEW n \in Nat
  PROVE  LastIn(r, n + 1, n) = 0
<1>1. \A i \in (n + 1)..n : events[i].rec = r => i <= 0
  OBVIOUS
<1>2. n + 1 \in Nat /\ 0 \in Nat
  OBVIOUS
<1> QED BY <1>1, <1>2, LastInUnique

LEMMA PlanRecordsStep ==
  ASSUME RecInv, PlanRecords
  PROVE  RecInv'
<1>1. RecTypes /\ BatchIsTail /\ ChildrenOnce /\ RestIsExact
  BY DEF RecInv
<1>2. /\ step = "idle" /\ done < Len(events) /\ upto' = Len(events) /\ step' = "merge"
      /\ UNCHANGED <<layout, events, done, main, sv, dlq>>
  BY DEF PlanRecords, tables
<1>3. done = upto /\ done \in Nat /\ Len(events) \in Nat
  BY <1>1, <1>2 DEF RecTypes, BatchIsTail
<1>4. RecTypes'
  BY <1>1, <1>2, <1>3 DEF RecTypes, BatchSteps
<1>5. BatchIsTail'
  BY <1>2, <1>3 DEF BatchIsTail
<1>6. ChildrenOnce'
  BY <1>1, <1>2 DEF ChildrenOnce
<1>7. ASSUME NEW r \in Recs PROVE Exact(r, NewestDone(r))'
  <2> DEFINE n == NewestDone(r)
  <2>1. InBatch(r) = 0
    BY <1>3, NoneIn DEF InBatch
  <2>2. Exact(r, n)
    BY <1>1, <2>1 DEF RestIsExact
  <2>3. n' = n
    BY <1>2 DEF NewestDone, LastIn
  <2> HIDE DEF n
  <2>4. spec' = spec
    BY <1>2 DEF spec
  <2>5. Exact(r, n)'
    BY <1>2, <2>2, <2>3, <2>4, SameExact
  <2> QED BY <2>5 DEF n
<1>8. RestIsExact'
  BY <1>7 DEF RestIsExact
<1>9. StepsDone'
  BY <1>2 DEF StepsDone, StepDone
<1> QED BY <1>4, <1>5, <1>6, <1>8, <1>9 DEF RecInv

LEMMA CrashBatchStep ==
  ASSUME RecInv, CrashBatch
  PROVE  RecInv'
<1>1. RecTypes /\ BatchIsTail /\ ChildrenOnce /\ RestIsExact
  BY DEF RecInv
<1>2. step' = "merge" /\ UNCHANGED <<layout, events, done, upto, main, sv, dlq>>
  BY DEF CrashBatch, tables
<1>3. RecTypes'
  BY <1>1, <1>2 DEF RecTypes, BatchSteps
<1>4. BatchIsTail'
  BY <1>1, <1>2 DEF BatchIsTail
<1>5. ChildrenOnce'
  BY <1>1, <1>2 DEF ChildrenOnce
<1>6. RestIsExact'
  BY <1>1, <1>2 DEF RestIsExact, Exact, InBatch, NewestDone, LastIn, spec
<1>7. StepsDone'
  BY <1>2 DEF StepsDone, StepDone
<1> QED BY <1>3, <1>4, <1>5, <1>6, <1>7 DEF RecInv

(* The batch is committed: a record it touches is as the batch's event left *)
(* it, and that event is the newest.                                        *)
LEMMA EndBatchStep ==
  ASSUME RecInv, EndBatch
  PROVE  RecInv'
<1>1. RecTypes /\ BatchIsTail /\ ChildrenOnce /\ RestIsExact /\ StepsDone
  BY DEF RecInv
<1>2. /\ step = "commit" /\ step' = "idle" /\ done' = upto
      /\ UNCHANGED <<layout, events, upto, main, sv, dlq>>
  BY DEF EndBatch, tables
<1>3. done \in Nat /\ upto \in Nat /\ done <= upto /\ upto <= Len(events)
  BY <1>1 DEF RecTypes, BatchIsTail
<1>4. RecTypes'
  BY <1>1, <1>2 DEF RecTypes
<1>5. BatchIsTail'
  BY <1>2, <1>3 DEF BatchIsTail
<1>6. ChildrenOnce'
  BY <1>1, <1>2 DEF ChildrenOnce
<1>7. ASSUME NEW r \in Recs, InBatch(r) # 0 PROVE Exact(r, InBatch(r))
  <2> DEFINE i == InBatch(r)
  <2>1. i # 0 /\ i \in Latest /\ StepDone(r)
    BY <1>1, <1>7, BatchKinds DEF StepsDone
  <2>2. /\ i \in Parsed => main[r] = MainRow(spec, events[i].xml)
        /\ i \in WithSv => sv[r] = SetToBag(SvRows(events[i].xml))
        /\ i \in Deleted => main[r] = {} /\ sv[r] = EmptyBag
        /\ i \in Errors => BagIn(i, dlq)
    BY <1>2, <2>1 DEF StepDone, BatchSteps
  <2> HIDE DEF i
  <2>3. CASE events[i].op = "d"
    <3>1. i \in Deleted
      BY <2>1, <2>3 DEF Deleted
    <3> QED BY <2>2, <2>3, <3>1 DEF Exact, i
  <2>4. CASE events[i].op # "d" /\ events[i].xml = Malformed
    <3>1. i \in Errors
      BY <2>1, <2>4 DEF Errors, Deleted
    <3> QED BY <2>1, <2>2, <2>4, <3>1 DEF Exact, i
  <2>5. CASE events[i].op # "d" /\ events[i].xml # Malformed
    <3>1. i \in Parsed
      BY <2>1, <2>5 DEF Parsed, Deleted
    <3>2. SvRows(events[i].xml) # {} => i \in WithSv
      BY <3>1 DEF WithSv
    <3> QED BY <2>1, <2>2, <2>5, <3>1, <3>2 DEF Exact, i
  <2> QED BY <2>3, <2>4, <2>5
<1>8. ASSUME NEW r \in Recs
      PROVE  NewestDone(r)' = IF InBatch(r) # 0 THEN InBatch(r) ELSE NewestDone(r)
  <2> DEFINE i == InBatch(r)
             d == NewestDone(r)
             n == IF i # 0 THEN i ELSE d
  <2>1. /\ i \in Nat /\ (i # 0 => i \in (done + 1)..upto /\ events[i].rec = r)
        /\ \A k \in (done + 1)..upto : events[k].rec = r => k <= i
    BY <1>3, LastInIs DEF InBatch
  <2>2. /\ d \in Nat /\ (d # 0 => d \in 1..done /\ events[d].rec = r)
        /\ \A k \in 1..done : events[k].rec = r => k <= d
    BY <1>3, LastInIs DEF NewestDone
  <2>3. NewestDone(r)' = LastIn(r, 1, upto)
    BY <1>2 DEF NewestDone, LastIn
  <2> HIDE DEF i, d
  <2>4. n \in Nat /\ (n # 0 => n \in 1..upto /\ events[n].rec = r)
    BY <1>3, <2>1, <2>2
  <2>5. ASSUME NEW k \in 1..upto, events[k].rec = r PROVE k <= n
    <3>1. CASE k \in 1..done
      BY <1>3, <2>1, <2>2, <2>5, <3>1
    <3>2. CASE k \in (done + 1)..upto
      BY <1>3, <2>1, <2>5, <3>2
    <3> QED BY <1>3, <3>1, <3>2
  <2> HIDE DEF n
  <2>6. LastIn(r, 1, upto) = n
    BY <1>3, <2>4, <2>5, LastInUnique
  <2> QED BY <2>3, <2>6 DEF n, i, d
<1>9. ASSUME NEW r \in Recs PROVE Exact(r, NewestDone(r))'
  <2> DEFINE n == IF InBatch(r) # 0 THEN InBatch(r) ELSE NewestDone(r)
  <2>1. Exact(r, n)
    BY <1>1, <1>7 DEF RestIsExact
  <2>2. NewestDone(r)' = n
    BY <1>8
  <2>3. spec' = spec
    BY <1>2 DEF spec
  <2> HIDE DEF n
  <2> QED BY <1>2, <2>1, <2>2, <2>3 DEF Exact
<1>10. RestIsExact'
  BY <1>9 DEF RestIsExact
<1>11. ASSUME NEW r \in Recs PROVE InBatch(r)' = 0
  <2>1. InBatch(r)' = LastIn(r, upto + 1, upto)
    BY <1>2 DEF InBatch, LastIn
  <2> QED BY <1>3, <2>1, NoneIn
<1>12. StepsDone'
  BY <1>11 DEF StepsDone
<1> QED BY <1>4, <1>5, <1>6, <1>10, <1>12 DEF RecInv

-----------------------------------------------------------------------------
(* The theorems.                                                            *)

LEMMA InitRec == RecInit => RecInv
<1> SUFFICES ASSUME RecInit PROVE RecInv
  OBVIOUS
<1>1. RecTypes
  BY DEF RecInit, RecTypes
<1>2. BatchIsTail
  BY DEF RecInit, BatchIsTail
<1>3. ChildrenOnce
  BY EmptyIsOnce DEF RecInit, ChildrenOnce
<1>4. ASSUME NEW r \in Recs PROVE NewestDone(r) = 0 /\ InBatch(r) = 0
  <2>1. LastIn(r, 0 + 1, 0) = 0
    BY NoneIn
  <2>2. 0 + 1 = 1
    OBVIOUS
  <2> QED BY <2>1, <2>2 DEF RecInit, NewestDone, InBatch
<1>5. RestIsExact
  BY <1>4 DEF RecInit, RestIsExact, Exact
<1>6. StepsDone
  BY <1>4 DEF StepsDone
<1> QED BY <1>1, <1>2, <1>3, <1>5, <1>6 DEF RecInv

LEMMA NextRec == RecInv /\ [RecNext]_recVars => RecInv'
<1> SUFFICES ASSUME RecInv, [RecNext]_recVars PROVE RecInv'
  OBVIOUS
<1>1. CASE \E r \in Recs, xml \in Xmls : Emit(r, "u", xml)
  BY <1>1, EmitStep
<1>2. CASE \E r \in Recs : Emit(r, "d", Malformed)
  BY <1>2, EmitStep, RecordsAssumption
<1>3. CASE PlanRecords
  BY <1>3, PlanRecordsStep
<1>4. CASE MergeMain
  BY <1>4, MergeMainStep
<1>5. CASE ClearChildren
  BY <1>5, ClearChildrenStep
<1>6. CASE AppendChildren
  BY <1>6, AppendChildrenStep
<1>7. CASE DeleteMain
  BY <1>7, DeleteMainStep
<1>8. CASE DeleteChildren
  BY <1>8, DeleteChildrenStep
<1>9. CASE AppendErrors
  BY <1>9, AppendErrorsStep
<1>10. CASE CrashBatch
  BY <1>10, CrashBatchStep
<1>11. CASE EndBatch
  BY <1>11, EndBatchStep
<1>12. CASE UNCHANGED recVars
  <2>1. RecTypes' /\ BatchIsTail' /\ ChildrenOnce'
    BY <1>12 DEF RecInv, recVars, tables, RecTypes, BatchIsTail, ChildrenOnce
  <2>2. RestIsExact'
    BY <1>12 DEF RecInv, recVars, tables, RestIsExact, Exact, InBatch, NewestDone, LastIn, spec
  <2>3. UNCHANGED Batch /\ KeepsEvents
    BY <1>12 DEF recVars, tables, Batch, KeepsEvents
  <2>4. /\ spec' = spec /\ \A r \in Recs : InBatch(r)' = InBatch(r)
        /\ Deleted' = Deleted /\ Parsed' = Parsed /\ Errors' = Errors /\ WithSv' = WithSv
    BY <2>3, SameBatch DEF RecInv
  <2>5. ASSUME NEW r \in Recs, InBatch(r)' # 0 PROVE StepDone(r)'
    <3>1. UNCHANGED <<events, step, main, sv, dlq>> /\ StepDone(r)
      BY <1>12, <2>4, <2>5 DEF RecInv, recVars, tables, StepsDone
    <3> QED BY <2>4, <3>1 DEF StepDone
  <2>6. StepsDone'
    BY <2>5 DEF StepsDone
  <2> QED BY <2>1, <2>2, <2>6 DEF RecInv
<1> QED BY <1>1, <1>2, <1>3, <1>4, <1>5, <1>6, <1>7, <1>8, <1>9, <1>10, <1>11, <1>12 DEF RecNext

(* The invariant of the writer (write_bronze): whatever commits a batch is  *)
(* past have settled their part of every record it touches, and the records *)
(* it does not touch are as their newest committed event left them.         *)
THEOREM WriterInvariant == RecSpec => []RecInv
BY InitRec, NextRec, PTL DEF RecSpec

(* Between batches a record's row is the parse of its newest event, a       *)
(* deleted record has left nothing, and an event that does not parse is     *)
(* among the errors, whatever commits dead drivers had got to.              *)
THEOREM CommittedBatchIsExact == RecSpec => []CommittedIsExact
<1>1. RecInv => CommittedIsExact
  <2> SUFFICES ASSUME RecInv, step = "idle", NEW r \in Recs PROVE Exact(r, NewestDone(r))
    BY DEF CommittedIsExact
  <2>1. done = upto /\ done \in Nat
    BY DEF RecInv, RecTypes, BatchIsTail
  <2>2. InBatch(r) = 0
    BY <2>1, NoneIn DEF InBatch
  <2> QED BY <2>2 DEF RecInv, RestIsExact
<1> QED BY <1>1, WriterInvariant, PTL

(* A batch that runs again doubles no child row: what it appends finds the  *)
(* bag of the record cleared by the commit before.                          *)
THEOREM ReplayDoublesNothing == RecSpec => []ChildrenOnce
<1>1. RecInv => ChildrenOnce
  BY DEF RecInv
<1> QED BY <1>1, WriterInvariant, PTL

(* Every declared value of every record that parses is found under its own  *)
(* column and it alone, for every layout: aliases of a position, names that *)
(* collide once sanitised, local fields named like others, multi-values     *)
(* with numbers left out.                                                   *)
THEOREM EveryValueIsFound == RecSpec => []DeclaredIsFound
<1>1. ASSUME RecInv, NEW i \in DOMAIN events
      PROVE  IsLayout(layout) /\ events[i].xml \in Xmls
  <2> DEFINE Event == [rec : Recs, op : {"u", "d"}, xml : Xmls]
  <2>1. events \in Seq(Event) /\ layout \in Layouts
    BY <1>1 DEF RecInv, RecTypes
  <2>2. \A e \in Event : e.xml \in Xmls
    OBVIOUS
  <2> HIDE DEF Event
  <2>3. i \in 1..Len(events)
    BY <2>1
  <2>4. events[i] \in Event
    BY <2>1, <2>3
  <2> QED BY <2>1, <2>2, <2>4, RecordsAssumption
<1>2. RecInv => DeclaredIsFound
  <2> SUFFICES ASSUME RecInv, NEW i \in DOMAIN events, events[i].xml # Malformed,
                      NEW c \in DOMAIN events[i].xml, Declared(spec, c)
               PROVE  Found(spec, MainRow(spec, events[i].xml), c) = {Typed(events[i].xml[c])}
    BY DEF DeclaredIsFound
  <2>1. IsLayout(layout) /\ IsRecord(events[i].xml)
    BY <1>1, RecordsAssumption
  <2>2. spec = BuildSpec(layout)
    BY DEF spec
  <2> QED BY <2>1, <2>2, CellIsFound
<1> QED BY <1>2, WriterInvariant, PTL

-----------------------------------------------------------------------------
(* The copies of the errors.                                                *)

LEMMA CountAfterAppend ==
  ASSUME RecInv, ErrorsCounted, AppendErrors
  PROVE  ErrorsCounted'
<1>1. /\ dlq' = dlq (+) SetToBag(Errors) /\ step = "errors" /\ step' = "commit"
      /\ UNCHANGED <<events, done, upto, crashes>>
  BY DEF AppendErrors, Commit
<1>2. ASSUME NEW i \in Errors
      PROVE  i \in 1..upto /\ i > done /\ events[i].op = "u" /\ events[i].xml = Malformed
  <2>1. i \in Latest \ Deleted /\ events[i].xml = Malformed /\ events[i].op # "d"
    BY DEF Errors, Deleted
  <2>2. PICK r \in Recs : i = LastIn(r, done + 1, upto) /\ i # 0
    BY <2>1 DEF Latest
  <2> DEFINE Event == [rec : Recs, op : {"u", "d"}, xml : Xmls]
  <2>3. done \in Nat /\ upto \in Nat /\ upto <= Len(events) /\ events \in Seq(Event)
    BY DEF RecInv, RecTypes, BatchIsTail
  <2>4. i \in (done + 1)..upto
    BY <2>2, <2>3, LastInIs
  <2>5. i \in 1..Len(events)
    BY <2>3, <2>4
  <2>6. \A e \in Event : e.op \in {"u", "d"}
    OBVIOUS
  <2>7. events[i] \in Event
    <3> HIDE DEF Event
    <3> QED BY <2>3, <2>5
  <2> QED BY <2>1, <2>3, <2>4, <2>6, <2>7
<1>3. /\ DOMAIN dlq' = DOMAIN dlq \cup Errors
      /\ \A i \in DOMAIN dlq' : dlq'[i] = (IF i \in DOMAIN dlq THEN dlq[i] ELSE 0)
                                            + (IF i \in Errors THEN 1 ELSE 0)
  BY <1>1 DEF (+), SetToBag
<1>4. ASSUME NEW i \in DOMAIN dlq'
      PROVE  /\ i \in 1..upto /\ dlq'[i] \in Nat /\ dlq'[i] <= crashes + 1
             /\ events[i].op = "u" /\ events[i].xml = Malformed
  <2>1. CASE i \in Errors
    BY <1>1, <1>2, <1>3, <2>1 DEF ErrorsCounted
  <2>2. CASE i \notin Errors
    BY <1>3, <2>2 DEF ErrorsCounted
  <2> QED BY <2>1, <2>2
<1> QED BY <1>1, <1>4 DEF ErrorsCounted

LEMMA CountStep ==
  ASSUME RecInv, ErrorsCounted, [RecNext]_recVars
  PROVE  ErrorsCounted'
<1>0. /\ done \in Nat /\ upto \in Nat /\ done <= upto /\ upto <= Len(events)
      /\ step = "idle" => done = upto
  BY DEF RecInv, RecTypes, BatchIsTail
<1>1. ASSUME NEW r \in Recs, NEW op, NEW xml, Emit(r, op, xml)
      PROVE  ErrorsCounted'
  <2>1. \A i \in 1..Len(events) : events'[i] = events[i]
    BY <1>1 DEF Emit, RecInv, RecTypes
  <2>2. UNCHANGED <<done, upto, step, dlq, crashes>>
    BY <1>1 DEF Emit, tables
  <2> QED BY <1>0, <2>1, <2>2 DEF ErrorsCounted
<1>2. CASE PlanRecords
  <2>1. /\ UNCHANGED <<events, done, dlq, crashes>> /\ step = "idle" /\ upto' = Len(events)
    BY <1>2 DEF PlanRecords, tables
  <2>2. Len(events) \in Nat /\ upto <= upto' /\ done = upto
    BY <1>0, <2>1 DEF RecInv, RecTypes
  <2> QED BY <1>0, <2>1, <2>2 DEF ErrorsCounted
<1>3. CASE MergeMain \/ ClearChildren \/ AppendChildren \/ DeleteMain \/ DeleteChildren
  <2>1. UNCHANGED <<events, done, upto, dlq, crashes>> /\ step # "commit"
    BY <1>3 DEF MergeMain, ClearChildren, AppendChildren, DeleteMain, DeleteChildren, Commit
  <2> QED BY <2>1 DEF ErrorsCounted
<1>4. CASE CrashBatch
  <2>1. UNCHANGED <<events, done, upto, dlq>> /\ crashes' = crashes + 1
    BY <1>4 DEF CrashBatch, tables
  <2> QED BY <2>1 DEF ErrorsCounted
<1>5. CASE EndBatch
  <2>1. UNCHANGED <<events, upto, dlq, crashes>> /\ done' = upto
    BY <1>5 DEF EndBatch, tables
  <2> QED BY <1>0, <2>1 DEF ErrorsCounted
<1>6. CASE UNCHANGED recVars
  BY <1>6 DEF recVars, tables, ErrorsCounted
<1> QED BY <1>1, <1>2, <1>3, <1>4, <1>5, <1>6, CountAfterAppend DEF RecNext

(* A replayed batch appends its errors again (write_bronze): the dead-letter *)
(* files hold each event that does not parse once for each attempt at most.  *)
THEOREM ErrorsAreBounded == RecSpec => []ErrorsOncePerAttempt
<1>1. RecInit => ErrorsCounted
  <2>1. ASSUME RecInit PROVE DOMAIN dlq = {} /\ crashes = 0
    BY <2>1 DEF RecInit, EmptyBag, SetToBag
  <2> QED BY <2>1 DEF ErrorsCounted
<1>2. RecInv /\ ErrorsCounted /\ [RecNext]_recVars => ErrorsCounted'
  BY CountStep
<1>3. ErrorsCounted => ErrorsOncePerAttempt
  BY DEF ErrorsCounted, ErrorsOncePerAttempt, BagToSet
<1> QED BY <1>1, <1>2, <1>3, WriterInvariant, PTL DEF RecSpec
=============================================================================
