--------------------------- MODULE ReportsProofs ---------------------------
(***************************************************************************)
(* Proofs about the two report parsers, for reports of any length.         *)
(*                                                                         *)
(* GLReport: GLInv ties the pending code, last_result and every dict to    *)
(* the lines read so far; one lemma per pattern shows that a line keeps it. *)
(*                                                                         *)
(* CrbReport: CrbInv keeps books of the lines passed over, so that each    *)
(* total that was read balances what is missed of its sections against     *)
(* what was added to them; two lines are too few for both levels.          *)
(***************************************************************************)
EXTENDS GLReport, CrbReport, FiniteSetTheorems, WellFoundedInduction, TLAPS

-----------------------------------------------------------------------------
(* GLReport: one more line.                                                 *)

(* The lines before the new one are as they were, and so is what they are.  *)
LEMMA OneMoreLine ==
  ASSUME GLTypes, NEW s, Line(s), NEW n, n = Len(lines)
  PROVE  /\ n \in Nat /\ s \in Shapes /\ ~ended /\ lines' \in Seq(Shapes)
         /\ Len(lines') = n + 1 /\ DOMAIN lines = 1..n /\ DOMAIN lines' = 1..(n + 1)
         /\ \A i \in 1..n : lines'[i] = lines[i]
         /\ lines'[n + 1] = s
BY DEF GLTypes, Line

LEMMA SamePatterns ==
  ASSUME GLTypes, NEW s, Line(s), NEW n, n = Len(lines)
  PROVE  /\ \A i \in 1..n : /\ Cont(i)' <=> Cont(i)
                            /\ Is("desc", i)' <=> Is("desc", i)
                            /\ Code(i)' <=> Code(i)
                            /\ Plain(i)' <=> Plain(i)
                            /\ RowLine(i)' <=> RowLine(i)
         /\ Cont(n + 1)' <=> "cont" \in s
         /\ Is("desc", n + 1)' <=> "desc" \in s
         /\ Code(n + 1)' <=> "code" \in s /\ "cont" \notin s /\ "coded" \notin s
         /\ Plain(n + 1)' <=> "data" \in s /\ "coded" \notin s
         /\ RowLine(n + 1)' <=> "data" \in s \/ "header" \in s
<1>1. /\ n \in Nat /\ DOMAIN lines = 1..n /\ DOMAIN lines' = 1..(n + 1)
      /\ \A i \in 1..n : lines'[i] = lines[i]
      /\ lines'[n + 1] = s
  BY OneMoreLine
<1>2. n + 1 \in DOMAIN lines' /\ \A i \in 1..n : i \in DOMAIN lines /\ i \in DOMAIN lines'
  BY <1>1
<1>3. ASSUME NEW k, NEW i \in 1..n PROVE Is(k, i)' <=> Is(k, i)
  BY <1>1, <1>2 DEF Is
<1>4. ASSUME NEW k PROVE Is(k, n + 1)' <=> k \in s
  BY <1>1, <1>2 DEF Is
<1> QED BY <1>3, <1>4 DEF Cont, Code, Plain, RowLine

(* The text of a line depends on the lines before it.                       *)
LEMMA TextIsFixed ==
  ASSUME GLTypes, NEW s, Line(s), NEW n, n = Len(lines), NEW i \in 1..n
  PROVE  TextOf(i)' = TextOf(i)
<1>1. n \in Nat /\ i \in Nat /\ \A j \in 1..i : j \in 1..n
  BY OneMoreLine
<1>2. \A j \in 1..i : (Cont(j)' <=> Cont(j)) /\ (Code(j)' <=> Code(j)) /\ (Plain(j)' <=> Plain(j))
  BY <1>1, SamePatterns
<1>3. ASSUME NEW c \in 1..i PROVE CodeOf(c, i)' <=> CodeOf(c, i)
  <2>1. \A j \in c + 1 .. i - 1 : j \in 1..i
    BY <1>1
  <2>2. i \in 1..i
    BY <1>1
  <2> QED BY <1>2, <2>1, <2>2 DEF CodeOf
<1> QED BY <1>2, <1>3 DEF TextOf

(* The code that waits is the one a new data row answers.                   *)
LEMMA NewText ==
  ASSUME GLTypes, NEW s, Line(s), NEW n, n = Len(lines)
  PROVE  /\ ~Plain(n + 1)' => TextOf(n + 1)' = {n + 1}
         /\ Plain(n + 1)' =>
              TextOf(n + 1)' = {n + 1} \cup
                {j \in 1..n : \E c \in 1..n : Waits(c) /\ (j = c \/ (c < j /\ Cont(j)))}
<1>1. n \in Nat /\ n + 1 \in 1..n + 1 /\ \A j : j \in 1..n + 1 <=> j \in 1..n \/ j = n + 1
  BY OneMoreLine
<1>2. \A j \in 1..n : (Cont(j)' <=> Cont(j)) /\ (Code(j)' <=> Code(j)) /\ (Plain(j)' <=> Plain(j))
  BY SamePatterns
<1>3. ASSUME NEW c \in 1..n + 1 PROVE CodeOf(c, n + 1)' <=> c \in 1..n /\ Waits(c) /\ Plain(n + 1)'
  <2>1. CASE c = n + 1
    BY <1>1, <2>1 DEF CodeOf
  <2>2. CASE c \in 1..n
    <3>1. c < n + 1 /\ c + 1 .. (n + 1) - 1 = c + 1 .. n
      BY <1>1, <2>2
    <3>2. \A j \in c + 1 .. n : j \in 1..n
      BY <1>1, <2>2
    <3> QED BY <1>2, <2>2, <3>1, <3>2 DEF CodeOf, Waits
  <2> QED BY <1>1, <2>1, <2>2
<1>4. CASE ~Plain(n + 1)'
  BY <1>1, <1>3, <1>4 DEF TextOf
<1>5. CASE Plain(n + 1)'
  <2> DEFINE old == {j \in 1..n : \E c \in 1..n : Waits(c) /\ (j = c \/ (c < j /\ Cont(j)))}
  <2>1. ASSUME NEW j \in 1..n + 1, NEW c \in 1..n + 1,
               CodeOf(c, n + 1)', j = c \/ (c < j /\ j < n + 1 /\ Cont(j)')
        PROVE  j \in old
    BY <1>1, <1>2, <1>3, <2>1
  <2>2. ASSUME NEW j \in old
        PROVE  \E c \in 1..n + 1 : CodeOf(c, n + 1)' /\ (j = c \/ (c < j /\ j < n + 1 /\ Cont(j)'))
    BY <1>1, <1>2, <1>3, <1>5
  <2>3. TextOf(n + 1)' = {n + 1} \cup {j \in 1..n + 1 : \E c \in 1..n + 1 :
                            CodeOf(c, n + 1)' /\ (j = c \/ (c < j /\ j < n + 1 /\ Cont(j)'))}
    BY DEF TextOf
  <2>4. \A j \in old : j \in 1..n + 1
    BY <1>1
  <2> HIDE DEF old
  <2>5. TextOf(n + 1)' = {n + 1} \cup old
    BY <2>1, <2>2, <2>3, <2>4
  <2> QED BY <1>5, <2>5 DEF old
<1> QED BY <1>4, <1>5

LEMMA OneWaits ==
  ASSUME GLTypes, NEW c \in 1..Len(lines), NEW d \in 1..Len(lines), Waits(c), Waits(d)
  PROVE  c = d
<1>1. Len(lines) \in Nat /\ Code(c) /\ Code(d)
  BY DEF GLTypes, Waits
<1>2. ~ (c < d)
  BY <1>1 DEF Waits
<1>3. ~ (d < c)
  BY <1>1 DEF Waits
<1> QED BY <1>1, <1>2, <1>3

(* A text grows at its end.                                                 *)
LEMMA TextGrows ==
  ASSUME NEW desc \in Seq(Nat), NEW S, IsText(desc, S), NEW i \in Nat, \A j \in S : j < i
  PROVE  Append(desc, i) \in Seq(Nat) /\ IsText(Append(desc, i), S \cup {i})
<1> DEFINE new == Append(desc, i)
           m   == Len(desc)
<1>1. /\ new \in Seq(Nat) /\ m \in Nat /\ DOMAIN desc = 1..m /\ DOMAIN new = 1..m + 1
      /\ \A k \in 1..m : new[k] = desc[k] /\ desc[k] \in S
      /\ new[m + 1] = i
  BY DEF IsText, Range
<1>2. \A k : k \in 1..m + 1 <=> k \in 1..m \/ k = m + 1
  BY <1>1
<1>3. \A x \in S : \E k \in 1..m : desc[k] = x
  BY <1>1 DEF IsText, Range
<1> HIDE DEF new, m
<1>4. Range(new) = S \cup {i}
  <2>1. \A k \in DOMAIN new : new[k] \in S \cup {i}
    BY <1>1, <1>2
  <2>2. \A x \in S \cup {i} : \E k \in DOMAIN new : new[k] = x
    BY <1>1, <1>2, <1>3
  <2> QED BY <2>1, <2>2 DEF Range
<1>5. ASSUME NEW k \in DOMAIN new, NEW l \in DOMAIN new, k < l PROVE new[k] < new[l]
  <2>1. k \in 1..m
    BY <1>1, <1>5
  <2>2. CASE l \in 1..m
    BY <1>1, <1>5, <2>1, <2>2 DEF IsText
  <2>3. CASE l = m + 1
    BY <1>1, <2>1, <2>3
  <2> QED BY <1>1, <1>2, <2>2, <2>3
<1> QED BY <1>1, <1>4, <1>5 DEF IsText, new

LEMMA EmptyText == << >> \in Seq(Nat) /\ IsText(<< >>, {})
BY DEF IsText, Range

LEMMA OneText ==
  ASSUME NEW i \in Nat
  PROVE  <<i>> \in Seq(Nat) /\ IsText(<<i>>, {i})
<1>1. DOMAIN <<i>> = 1..1 /\ <<i>>[1] = i
  OBVIOUS
<1> QED BY <1>1 DEF IsText, Range

-----------------------------------------------------------------------------
(* GLReport: the rows after one more line.                                  *)

RowType == [seq : Nat, desc : Seq(Nat)]

LEMMA NoRowRead ==
  ASSUME GLInv, NEW s, Line(s), "data" \notin s, "header" \notin s, rows' = rows
  PROVE  RowsAreRead'
<1> SUFFICES ASSUME NEW n, n = Len(lines) PROVE RowsAreRead'
  OBVIOUS
<1>1. GLTypes /\ RowsAreRead
  BY DEF GLInv
<1>2. n \in Nat /\ DOMAIN lines = 1..n /\ DOMAIN lines' = 1..(n + 1)
  BY <1>1, OneMoreLine
<1>3. (\A i \in 1..n : RowLine(i)' <=> RowLine(i)) /\ ~RowLine(n + 1)'
  BY <1>1, SamePatterns
<1>4. {i \in DOMAIN lines' : RowLine(i)'} = {i \in DOMAIN lines : RowLine(i)}
  BY <1>2, <1>3
<1>5. \A k \in DOMAIN rows : rows[k].seq \in 1..n
  BY <1>1, <1>2 DEF RowsAreRead
<1>6. \A k \in DOMAIN rows : TextOf(rows[k].seq)' = TextOf(rows[k].seq)
  BY <1>1, <1>5, TextIsFixed
<1> QED BY <1>1, <1>4, <1>6 DEF RowsAreRead

LEMMA RowRead ==
  ASSUME GLInv, NEW s, Line(s), "data" \in s \/ "header" \in s, NEW n, n = Len(lines),
         NEW d \in Seq(Nat), rows' = Append(rows, [seq |-> n + 1, desc |-> d]),
         IsText(d, TextOf(n + 1)')
  PROVE  RowsAreRead'
<1> DEFINE m == Len(rows)
<1>1. GLTypes /\ RowsAreRead
  BY DEF GLInv
<1>2. n \in Nat /\ DOMAIN lines = 1..n /\ DOMAIN lines' = 1..(n + 1)
  BY <1>1, OneMoreLine
<1>3. (\A i \in 1..n : RowLine(i)' <=> RowLine(i)) /\ RowLine(n + 1)'
  BY <1>1, SamePatterns
<1>4. {i \in DOMAIN lines' : RowLine(i)'} = {i \in DOMAIN lines : RowLine(i)} \cup {n + 1}
  BY <1>2, <1>3
<1>5. rows \in Seq(RowType)
  BY <1>1 DEF GLTypes, RowType
<1>6. /\ m \in Nat /\ DOMAIN rows = 1..m /\ DOMAIN rows' = 1..m + 1
      /\ \A k \in 1..m : rows'[k] = rows[k]
      /\ rows'[m + 1] = [seq |-> n + 1, desc |-> d]
  BY <1>5
<1>7. \A k : k \in 1..m + 1 <=> k \in 1..m \/ k = m + 1
  BY <1>6
<1> HIDE DEF m
<1>8. rows'[m + 1].seq = n + 1 /\ rows'[m + 1].desc = d
  BY <1>6
<1>9. \A k \in 1..m : rows[k].seq \in 1..n
  BY <1>1, <1>2, <1>6 DEF RowsAreRead
<1>10. {rows'[k].seq : k \in DOMAIN rows'} = {rows[k].seq : k \in DOMAIN rows} \cup {n + 1}
  BY <1>6, <1>7, <1>8
<1>11. ASSUME NEW k \in DOMAIN rows', NEW l \in DOMAIN rows', k < l
       PROVE  rows'[k].seq < rows'[l].seq
  <2>1. k \in 1..m
    BY <1>6, <1>11
  <2>2. CASE l \in 1..m
    BY <1>1, <1>6, <1>11, <2>1, <2>2 DEF RowsAreRead
  <2>3. CASE l = m + 1
    BY <1>2, <1>6, <1>8, <1>9, <2>1, <2>3
  <2> QED BY <1>6, <1>7, <2>2, <2>3
<1>12. ASSUME NEW k \in DOMAIN rows' PROVE IsText(rows[k].desc, TextOf(rows[k].seq))'
  <2>1. CASE k \in 1..m
    <3>1. PICK i \in 1..n : i = rows[k].seq
      BY <1>9, <2>1
    <3>2. TextOf(i)' = TextOf(i)
      BY <1>1, TextIsFixed
    <3>3. rows'[k].seq = i /\ rows'[k].desc = rows[k].desc
      BY <1>6, <2>1, <3>1
    <3>4. IsText(rows[k].desc, TextOf(i))
      BY <1>1, <1>6, <2>1, <3>1 DEF RowsAreRead
    <3>5. TextOf(rows[k].seq)' = TextOf(i)'
      BY <3>3
    <3> QED BY <3>2, <3>3, <3>4, <3>5 DEF IsText
  <2>2. CASE k = m + 1
    <3>1. rows'[k].seq = n + 1 /\ rows'[k].desc = d
      BY <1>8, <2>2
    <3>2. TextOf(rows[k].seq)' = TextOf(n + 1)'
      BY <3>1
    <3> QED BY <3>1, <3>2 DEF IsText
  <2> QED BY <1>6, <1>7, <2>1, <2>2
<1> QED BY <1>1, <1>4, <1>10, <1>11, <1>12 DEF RowsAreRead

(* What a draft's description has beyond the row's.                         *)
Tail1(r, d) ==
  /\ IsPrefix(r.desc, d)
  /\ \A m \in Len(r.desc) + 1 .. Len(d) : \A j \in r.seq + 1 .. d[m] : Cont(j) \/ Is("desc", j)

LEMMA TailsAre == DraftsKeepTails <=> \A k \in DOMAIN rows : Tail1(rows[k], results[k].desc)
BY DEF DraftsKeepTails, Tail1

(* Lines are only appended, so a tail stays one.                            *)
LEMMA TailStays ==
  ASSUME GLTypes, NEW s, Line(s), NEW r, NEW d, Tail1(r, d)
  PROVE  Tail1(r, d)'
<1> SUFFICES ASSUME NEW n, n = Len(lines) PROVE Tail1(r, d)'
  OBVIOUS
<1>1. DOMAIN lines = 1..n
  BY OneMoreLine
<1>2. \A j \in 1..n : (Cont(j) => Cont(j)') /\ (Is("desc", j) => Is("desc", j)')
  BY SamePatterns
<1>3. \A j : (Cont(j) \/ Is("desc", j)) => j \in 1..n
  BY <1>1 DEF Cont, Is
<1>4. \A j : (Cont(j) \/ Is("desc", j)) => (Cont(j)' \/ Is("desc", j)')
  BY <1>2, <1>3
<1> QED BY <1>4 DEF Tail1

LEMMA TailsKept ==
  ASSUME GLInv, NEW s, Line(s), UNCHANGED <<rows, results>>
  PROVE  DraftsKeepTails'
<1>1. GLTypes /\ \A k \in DOMAIN rows : Tail1(rows[k], results[k].desc)
  BY TailsAre DEF GLInv
<1>2. ASSUME NEW k \in DOMAIN rows, NEW r, r = rows[k], NEW d, d = results[k].desc
      PROVE  Tail1(r, d)'
  BY <1>1, <1>2, TailStays
<1>3. ASSUME NEW k \in DOMAIN rows PROVE Tail1(rows[k], results[k].desc)'
  <2>1. PICK r, d : r = rows[k] /\ d = results[k].desc
    OBVIOUS
  <2>2. Tail1(r, d)'
    BY <1>2, <2>1
  <2> QED BY <2>1, <2>2 DEF Tail1
<1> QED BY <1>3 DEF DraftsKeepTails, Tail1

(* A new row and the dict it is a copy of begin as one.                     *)
LEMMA TailsOfNewRow ==
  ASSUME GLInv, NEW s, Line(s), NEW row \in RowType,
         rows' = Append(rows, row), results' = Append(results, row)
  PROVE  DraftsKeepTails'
<1> DEFINE m == Len(rows)
<1>1. GLTypes /\ \A k \in DOMAIN rows : Tail1(rows[k], results[k].desc)
  BY TailsAre DEF GLInv
<1>2. rows \in Seq(RowType) /\ results \in Seq(RowType) /\ Len(results) = m
  BY <1>1 DEF GLTypes, RowType
<1>3. /\ m \in Nat /\ DOMAIN rows = 1..m /\ DOMAIN rows' = 1..m + 1
      /\ \A k \in 1..m : rows'[k] = rows[k] /\ results'[k] = results[k]
      /\ rows'[m + 1] = row /\ results'[m + 1] = row
      /\ \A k : k \in 1..m + 1 <=> k \in 1..m \/ k = m + 1
  BY <1>2
<1> HIDE DEF m
<1>4. ASSUME NEW k \in DOMAIN rows' PROVE Tail1(rows[k], results[k].desc)'
  <2>1. CASE k \in 1..m
    <3>1. PICK r, d : r = rows[k] /\ d = results[k].desc
      OBVIOUS
    <3>2. Tail1(r, d)'
      BY <1>1, <1>3, <2>1, <3>1, TailStays
    <3>3. rows'[k] = r /\ results'[k].desc = d
      BY <1>3, <2>1, <3>1
    <3> QED BY <3>2, <3>3 DEF Tail1
  <2>2. CASE k = m + 1
    <3>1. rows'[k].desc = row.desc /\ results'[k].desc = row.desc /\ row.desc \in Seq(Nat)
      BY <1>3, <2>2 DEF RowType
    <3>2. IsPrefix(row.desc, row.desc) /\ Len(row.desc) + 1 .. Len(row.desc) = {}
      BY <3>1 DEF IsPrefix
    <3> QED BY <3>1, <3>2 DEF Tail1
  <2> QED BY <1>3, <2>1, <2>2
<1> QED BY <1>4 DEF DraftsKeepTails, Tail1

LEMMA PrefixGrows ==
  ASSUME NEW r \in Seq(Nat), NEW d \in Seq(Nat), NEW i \in Nat, IsPrefix(r, d)
  PROVE  /\ IsPrefix(r, Append(d, i)) /\ Len(Append(d, i)) = Len(d) + 1
         /\ Append(d, i)[Len(d) + 1] = i /\ \A m \in 1..Len(d) : Append(d, i)[m] = d[m]
<1>1. Len(r) \in Nat /\ Len(d) \in Nat /\ Len(r) <= Len(d) /\ SubSeq(r, 1, Len(r)) = SubSeq(d, 1, Len(r))
  BY DEF IsPrefix
<1>2. /\ Append(d, i) \in Seq(Nat) /\ Len(Append(d, i)) = Len(d) + 1
      /\ Append(d, i)[Len(d) + 1] = i /\ \A m \in 1..Len(d) : Append(d, i)[m] = d[m]
  OBVIOUS
<1>3. SubSeq(Append(d, i), 1, Len(r)) = SubSeq(d, 1, Len(r))
  BY <1>1, <1>2
<1> QED BY <1>1, <1>2, <1>3 DEF IsPrefix

LEMMA ItemOf ==
  ASSUME NEW S, NEW q \in Seq(S), NEW i \in DOMAIN q
  PROVE  q[i] \in S
OBVIOUS

LEMMA AppendIs ==
  ASSUME NEW S, NEW q \in Seq(S), NEW x \in S
  PROVE  /\ Append(q, x) \in Seq(S) /\ Len(Append(q, x)) = Len(q) + 1
         /\ Append(q, x)[Len(q) + 1] = x /\ Append(q, x) # << >>
OBVIOUS

(* A continuation of the newest dict, with only descriptive text since.     *)
LEMMA TailGrows ==
  ASSUME GLInv, NEW s, Line(s), "cont" \in s, wasData, NEW n, n = Len(lines), rows' = rows,
         results' = [results EXCEPT ![Len(results)].desc = Append(@, n + 1)]
  PROVE  /\ DraftsKeepTails' /\ Len(results') = Len(rows)
         /\ results' \in Seq(RowType)
<1> DEFINE m == Len(rows)
<1>1. GLTypes /\ \A k \in DOMAIN rows : Tail1(rows[k], results[k].desc)
  BY TailsAre DEF GLInv
<1>2. rows \in Seq(RowType) /\ results \in Seq(RowType) /\ Len(results) = m
  BY <1>1 DEF GLTypes, RowType
<1>3. /\ rows # << >>
      /\ \A j \in rows[Len(rows)].seq + 1 .. n : Cont(j) \/ Is("desc", j)
  BY DEF GLInv, LastIsData, Line
<1>4. m \in Nat /\ m # 0 /\ DOMAIN rows = 1..m /\ DOMAIN results = 1..m /\ m \in 1..m
  BY <1>2, <1>3
<1>5. n \in Nat /\ DOMAIN lines = 1..n
  BY <1>1, OneMoreLine
<1>6. /\ results[m] \in RowType /\ rows[m] \in RowType
      /\ results[m].desc \in Seq(Nat) /\ rows[m].desc \in Seq(Nat) /\ rows[m].seq \in Nat
  <2>1. results[m] \in RowType /\ rows[m] \in RowType
    BY <1>2, <1>4, ItemOf
  <2> QED BY <2>1 DEF RowType
<1>7. Append(results[m].desc, n + 1) \in Seq(Nat)
  <2>1. PICK d \in Seq(Nat) : d = results[m].desc
    BY <1>6
  <2>2. n + 1 \in Nat
    BY <1>5
  <2>3. Append(d, n + 1) \in Seq(Nat)
    BY <2>2
  <2> QED BY <2>1, <2>3
<1>8. /\ results' \in Seq(RowType) /\ Len(results') = m
      /\ \A k \in 1..m : k # m => results'[k] = results[k]
      /\ results'[m].desc = Append(results[m].desc, n + 1)
  <2>1. results' = [results EXCEPT ![m] = [results[m] EXCEPT !.desc = Append(results[m].desc, n + 1)]]
    BY <1>2, <1>4
  <2>2. [results[m] EXCEPT !.desc = Append(results[m].desc, n + 1)] \in RowType
    BY <1>6, <1>7 DEF RowType
  <2>3. [results[m] EXCEPT !.desc = Append(results[m].desc, n + 1)].desc = Append(results[m].desc, n + 1)
    BY <1>6 DEF RowType
  <2> QED BY <1>2, <1>4, <2>1, <2>2, <2>3
<1>9. ASSUME NEW k \in DOMAIN rows, k # m PROVE Tail1(rows[k], results[k].desc)'
  <2>1. PICK r, d : r = rows[k] /\ d = results[k].desc
    OBVIOUS
  <2>2. Tail1(r, d)'
    BY <1>1, <2>1, TailStays
  <2>3. rows'[k] = r /\ results'[k].desc = d
    BY <1>4, <1>8, <1>9, <2>1
  <2> QED BY <2>2, <2>3 DEF Tail1
<1>10. Tail1(rows[m], results[m].desc)'
  <2>1. PICK r, d : r = rows[m] /\ d = results[m].desc
    OBVIOUS
  <2>2. Tail1(r, d) /\ Tail1(r, d)'
    BY <1>1, <1>4, <2>1, TailStays
  <2>3. r.desc \in Seq(Nat) /\ d \in Seq(Nat) /\ r.seq \in Nat
    BY <1>6, <2>1
  <2>4. PICK e : e = Append(d, n + 1)
    OBVIOUS
  <2>5. /\ IsPrefix(r.desc, e) /\ Len(e) = Len(d) + 1 /\ e[Len(d) + 1] = n + 1
        /\ \A i \in 1..Len(d) : e[i] = d[i]
    <3>1. IsPrefix(r.desc, d) /\ n + 1 \in Nat
      BY <1>5, <2>2 DEF Tail1
    <3>2. PICK a \in Seq(Nat) : a = r.desc
      BY <2>3
    <3>3. /\ IsPrefix(a, e) /\ Len(e) = Len(d) + 1 /\ e[Len(d) + 1] = n + 1
          /\ \A i \in 1..Len(d) : e[i] = d[i]
      BY <2>3, <2>4, <3>1, <3>2, PrefixGrows
    <3> QED BY <3>2, <3>3
  <2>6. \A j \in r.seq + 1 .. n + 1 : Cont(j)' \/ Is("desc", j)'
    <3>1. \A j \in 1..n : (Cont(j)' <=> Cont(j)) /\ (Is("desc", j)' <=> Is("desc", j))
      BY <1>1, SamePatterns
    <3>2. Cont(n + 1)'
      BY <1>1, SamePatterns
    <3>3. ASSUME NEW j \in r.seq + 1 .. n PROVE Cont(j)' \/ Is("desc", j)'
      <4>1. Cont(j) \/ Is("desc", j)
        BY <1>3, <2>1
      <4>2. j \in 1..n
        BY <1>5, <2>3
      <4> QED BY <3>1, <4>1, <4>2
    <3>4. \A j \in r.seq + 1 .. n + 1 : j \in r.seq + 1 .. n \/ j = n + 1
      BY <1>5, <2>3
    <3> QED BY <3>2, <3>3, <3>4
  <2>7. ASSUME NEW i \in Len(r.desc) + 1 .. Len(e), NEW j \in r.seq + 1 .. e[i]
        PROVE  Cont(j)' \/ Is("desc", j)'
    <3>1. Len(d) \in Nat /\ Len(r.desc) \in Nat
      BY <2>3
    <3>2. CASE i = Len(d) + 1
      BY <2>5, <2>6, <3>2
    <3>3. CASE i # Len(d) + 1
      <4>1. i \in Len(r.desc) + 1 .. Len(d) /\ i \in 1..Len(d)
        BY <2>5, <3>1, <3>3
      <4>2. e[i] = d[i]
        BY <2>5, <4>1
      <4> QED BY <2>2, <2>7, <4>1, <4>2 DEF Tail1
    <3> QED BY <3>2, <3>3
  <2>8. rows'[m] = r /\ results'[m].desc = e
    BY <1>8, <2>1, <2>4
  <2>9. /\ IsPrefix(r.desc, e)
        /\ \A i \in Len(r.desc) + 1 .. Len(e) : \A j \in r.seq + 1 .. e[i] : Cont(j)' \/ Is("desc", j)'
    BY <2>5, <2>7
  <2>10. m' = m
    OBVIOUS
  <2> QED BY <2>8, <2>9, <2>10 DEF Tail1
<1>11. ASSUME NEW k \in DOMAIN rows PROVE Tail1(rows[k], results[k].desc)'
  <2>1. CASE k = m
    BY <1>10, <2>1
  <2>2. CASE k # m
    BY <1>9, <2>2
  <2> QED BY <2>1, <2>2
<1> QED BY <1>8, <1>11 DEF DraftsKeepTails, Tail1

-----------------------------------------------------------------------------
(* GLReport: the code that waits, and the newest row, after one more line.  *)

LEMMA ShapeIs ==
  ASSUME NEW s \in Shapes
  PROVE  /\ "end" \in s => s = {"end"}
         /\ "blank" \in s \/ "page" \in s => s \cap {"data", "header", "code", "cont", "coded"} = {}
         /\ "desc" \in s => s = {"desc"}
         /\ "cont" \in s => s \cap {"data", "header", "coded"} = {}
         /\ "coded" \in s => s = {"coded", "code", "data"}
         /\ "code" \in s /\ "cont" \notin s /\ "coded" \notin s => s = {"code"}
         /\ "data" \in s /\ "coded" \notin s => "code" \notin s /\ "cont" \notin s
         /\ "header" \in s /\ "data" \notin s => s = {"header"}
BY DEF Shapes

LEMMA WaitsNext ==
  ASSUME GLTypes, NEW s, Line(s), NEW n, n = Len(lines), NEW c \in 1..n + 1
  PROVE  Waits(c)' <=> IF c = n + 1 THEN Code(n + 1)'
                         ELSE Waits(c) /\ ~Code(n + 1)' /\ ~Plain(n + 1)'
<1>1. n \in Nat /\ Len(lines)' = n + 1
  BY OneMoreLine
<1>2. \A j \in 1..n : (Code(j)' <=> Code(j)) /\ (Plain(j)' <=> Plain(j))
  BY SamePatterns
<1>3. Waits(c)' <=> Code(c)' /\ \A j \in c + 1 .. n + 1 : ~Code(j)' /\ ~Plain(j)'
  BY <1>1 DEF Waits
<1>4. CASE c = n + 1
  BY <1>1, <1>3, <1>4
<1>5. CASE c # n + 1
  <2>1. c \in 1..n /\ \A j : j \in c + 1 .. n + 1 <=> j \in c + 1 .. n \/ j = n + 1
    BY <1>1, <1>5
  <2>2. \A j \in c + 1 .. n : j \in 1..n
    BY <1>1, <2>1
  <2>3. Waits(c) <=> Code(c) /\ \A j \in c + 1 .. n : ~Code(j) /\ ~Plain(j)
    BY DEF Waits
  <2> QED BY <1>2, <1>3, <1>5, <2>1, <2>2, <2>3
<1> QED BY <1>4, <1>5

(* Nothing that starts, ends or continues a code.                           *)
LEMMA PendingStays ==
  ASSUME GLInv, NEW s, Line(s), "cont" \in s => pending = << >>,
         "code" \notin s \/ "cont" \in s \/ "coded" \in s, "data" \notin s \/ "coded" \in s,
         pending' = pending
  PROVE  PendingWaits'
<1> SUFFICES ASSUME NEW n, n = Len(lines) PROVE PendingWaits'
  OBVIOUS
<1>1. GLTypes /\ PendingWaits
  BY DEF GLInv
<1>2. n \in Nat /\ Len(lines)' = n + 1 /\ \A j : j \in 1..n + 1 <=> j \in 1..n \/ j = n + 1
  BY <1>1, OneMoreLine
<1>3. ~Code(n + 1)' /\ ~Plain(n + 1)' /\ (Cont(n + 1)' <=> "cont" \in s)
  BY <1>1, SamePatterns
<1>4. \A c \in 1..n + 1 : Waits(c)' <=> c \in 1..n /\ Waits(c)
  BY <1>1, <1>2, <1>3, WaitsNext
<1>5. CASE pending = << >>
  BY <1>1, <1>2, <1>4, <1>5 DEF PendingWaits
<1>6. CASE pending # << >>
  <2>1. PICK c \in 1..n : Waits(c) /\ IsText(pending, {c} \cup {j \in c + 1 .. n : Cont(j)})
    BY <1>1, <1>6 DEF PendingWaits
  <2>2. \A j \in c + 1 .. n : j \in 1..n
    BY <1>2, <2>1
  <2>3. \A j : j \in c + 1 .. n + 1 <=> j \in c + 1 .. n \/ j = n + 1
    BY <1>2, <2>1
  <2>4. \A j \in 1..n : Cont(j)' <=> Cont(j)
    BY <1>1, SamePatterns
  <2>5. {j \in c + 1 .. n + 1 : Cont(j)'} = {j \in c + 1 .. n : Cont(j)}
    BY <1>3, <1>6, <2>2, <2>3, <2>4
  <2>6. IsText(pending', {c} \cup {j \in c + 1 .. n + 1 : Cont(j)'})
    BY <2>1, <2>5
  <2>7. c \in 1..n + 1 /\ Waits(c)'
    BY <1>2, <1>4, <2>1
  <2>8. {c} \cup {j \in c + 1 .. Len(lines) : Cont(j)}' = {c} \cup {j \in c + 1 .. n + 1 : Cont(j)'}
    BY <1>2
  <2> QED BY <1>2, <1>6, <2>6, <2>7, <2>8 DEF PendingWaits, IsText
<1> QED BY <1>5, <1>6

LEMMA PendingContinues ==
  ASSUME GLInv, NEW s, Line(s), "cont" \in s, pending # << >>,
         NEW n, n = Len(lines), pending' = Append(pending, n + 1)
  PROVE  pending' \in Seq(Nat) /\ PendingWaits'
<1>1. GLTypes /\ PendingWaits /\ pending \in Seq(Nat)
  BY DEF GLInv, GLTypes
<1>2. n \in Nat /\ Len(lines)' = n + 1 /\ \A j : j \in 1..n + 1 <=> j \in 1..n \/ j = n + 1
  BY <1>1, OneMoreLine
<1>3. s \in Shapes /\ "data" \notin s
  BY <1>1, OneMoreLine, ShapeIs
<1>4. ~Code(n + 1)' /\ ~Plain(n + 1)' /\ Cont(n + 1)'
  BY <1>1, <1>3, SamePatterns
<1>5. PICK c \in 1..n : Waits(c) /\ IsText(pending, {c} \cup {j \in c + 1 .. n : Cont(j)})
  BY <1>1 DEF PendingWaits
<1>6. c \in 1..n + 1 /\ Waits(c)'
  <2>1. c \in 1..n + 1 /\ c # n + 1
    BY <1>2, <1>5
  <2> QED BY <1>1, <1>4, <1>5, <2>1, WaitsNext
<1>7. \A j \in 1..n : Cont(j)' <=> Cont(j)
  BY <1>1, SamePatterns
<1>8. /\ \A j \in c + 1 .. n : j \in 1..n
      /\ \A j : j \in c + 1 .. n + 1 <=> j \in c + 1 .. n \/ j = n + 1
  BY <1>2, <1>5
<1>9. {j \in c + 1 .. n + 1 : Cont(j)'} = {j \in c + 1 .. n : Cont(j)} \cup {n + 1}
  BY <1>4, <1>7, <1>8
<1>10. PICK S : S = {c} \cup {j \in c + 1 .. n : Cont(j)}
  OBVIOUS
<1>11. \A j \in S : j < n + 1
  BY <1>2, <1>5, <1>10
<1>12. Append(pending, n + 1) \in Seq(Nat) /\ IsText(Append(pending, n + 1), S \cup {n + 1})
  <2>1. IsText(pending, S) /\ pending \in Seq(Nat) /\ n + 1 \in Nat
    BY <1>1, <1>2, <1>5, <1>10
  <2> QED BY <1>11, <2>1, TextGrows
<1>13. S \cup {n + 1} = {c} \cup {j \in c + 1 .. n + 1 : Cont(j)'}
  BY <1>9, <1>10
<1>14. {c} \cup {j \in c + 1 .. Len(lines) : Cont(j)}' = S \cup {n + 1}
  BY <1>2, <1>13
<1>15. pending' # << >>
  BY <1>1, <1>2
<1> QED BY <1>2, <1>6, <1>12, <1>14, <1>15 DEF PendingWaits, IsText

LEMMA PendingIsNew ==
  ASSUME GLInv, NEW s, Line(s), "code" \in s, "cont" \notin s, "coded" \notin s,
         NEW n, n = Len(lines), pending' = <<n + 1>>
  PROVE  pending' \in Seq(Nat) /\ PendingWaits'
<1>1. GLTypes
  BY DEF GLInv
<1>2. n \in Nat /\ Len(lines)' = n + 1 /\ n + 1 \in 1..n + 1
  <2>1. n \in Nat /\ Len(lines)' = n + 1
    BY <1>1, OneMoreLine
  <2> QED BY <2>1
<1>3. Code(n + 1)'
  BY <1>1, SamePatterns
<1>4. Waits(n + 1)'
  BY <1>1, <1>2, <1>3, WaitsNext
<1>5. <<n + 1>> \in Seq(Nat) /\ IsText(<<n + 1>>, {n + 1})
  BY <1>2, OneText
<1>6. {j \in (n + 1) + 1 .. Len(lines) : Cont(j)}' = {}
  BY <1>2
<1>7. IsText(pending', {n + 1} \cup {j \in (n + 1) + 1 .. Len(lines) : Cont(j)}')
  BY <1>5, <1>6
<1>8. pending' # << >>
  OBVIOUS
<1> QED BY <1>2, <1>4, <1>5, <1>7, <1>8 DEF PendingWaits, IsText

(* The amounts have come.                                                   *)
LEMMA PendingIsDone ==
  ASSUME GLInv, NEW s, Line(s), "data" \in s, "coded" \notin s, pending' = << >>
  PROVE  PendingWaits'
<1> SUFFICES ASSUME NEW n, n = Len(lines) PROVE PendingWaits'
  OBVIOUS
<1>1. GLTypes
  BY DEF GLInv
<1>2. n \in Nat /\ Len(lines)' = n + 1 /\ s \in Shapes
  BY <1>1, OneMoreLine
<1>3. Plain(n + 1)' /\ ~Code(n + 1)'
  BY <1>1, <1>2, SamePatterns, ShapeIs
<1>4. \A c \in 1..n + 1 : ~Waits(c)'
  BY <1>1, <1>3, WaitsNext
<1> QED BY <1>2, <1>4 DEF PendingWaits

(* The text of a row line with its amounts: the code that waits, and it.    *)
LEMMA TextOfAmounts ==
  ASSUME GLInv, NEW s, Line(s), "data" \in s, "coded" \notin s, NEW n, n = Len(lines)
  PROVE  Append(pending, n + 1) \in Seq(Nat) /\ IsText(Append(pending, n + 1), TextOf(n + 1)')
<1>1. GLTypes /\ PendingWaits /\ pending \in Seq(Nat)
  BY DEF GLInv, GLTypes
<1>2. n \in Nat
  BY <1>1, OneMoreLine
<1>3. Plain(n + 1)'
  BY <1>1, SamePatterns
<1> DEFINE old == {j \in 1..n : \E c \in 1..n : Waits(c) /\ (j = c \/ (c < j /\ Cont(j)))}
<1>4. TextOf(n + 1)' = {n + 1} \cup old
  BY <1>1, <1>3, NewText
<1>5. IsText(pending, old)
  <2>1. CASE pending = << >> /\ \A c \in 1..n : ~Waits(c)
    <3>1. old = {}
      BY <2>1
    <3> QED BY <2>1, <3>1, EmptyText
  <2>2. CASE pending # << >>
    <3>1. PICK c \in 1..n : Waits(c) /\ IsText(pending, {c} \cup {j \in c + 1 .. n : Cont(j)})
      BY <1>1, <2>2 DEF PendingWaits
    <3>2. \A d \in 1..n : Waits(d) <=> d = c
      BY <1>1, <3>1, OneWaits
    <3>3. old = {j \in 1..n : j = c \/ (c < j /\ Cont(j))}
      BY <3>1, <3>2
    <3>4. \A j : j \in c + 1 .. n <=> j \in 1..n /\ c < j
      BY <1>2, <3>1
    <3>5. old = {c} \cup {j \in c + 1 .. n : Cont(j)}
      BY <3>1, <3>3, <3>4
    <3> QED BY <3>1, <3>5
  <2> QED BY <1>1, <2>1, <2>2 DEF PendingWaits
<1>6. \A j \in old : j < n + 1
  BY <1>2
<1> HIDE DEF old
<1>7. Append(pending, n + 1) \in Seq(Nat) /\ IsText(Append(pending, n + 1), old \cup {n + 1})
  BY <1>1, <1>2, <1>5, <1>6, TextGrows
<1>8. old \cup {n + 1} = {n + 1} \cup old
  OBVIOUS
<1> QED BY <1>4, <1>7, <1>8

LEMMA TextOfLine ==
  ASSUME GLInv, NEW s, Line(s), "data" \notin s \/ "coded" \in s, NEW n, n = Len(lines)
  PROVE  <<n + 1>> \in Seq(Nat) /\ IsText(<<n + 1>>, TextOf(n + 1)')
<1>1. GLTypes
  BY DEF GLInv
<1>2. n \in Nat /\ n + 1 \in Nat
  BY <1>1, OneMoreLine
<1>3. ~Plain(n + 1)'
  BY <1>1, SamePatterns
<1>4. TextOf(n + 1)' = {n + 1}
  BY <1>1, <1>3, NewText
<1>5. <<n + 1>> \in Seq(Nat) /\ IsText(<<n + 1>>, {n + 1})
  BY <1>2, OneText
<1> QED BY <1>4, <1>5

LEMMA LastStays ==
  ASSUME GLInv, NEW s, Line(s), "cont" \in s \/ "desc" \in s,
         UNCHANGED <<wasData, rows, ended>>
  PROVE  LastIsData'
<1> SUFFICES ASSUME NEW n, n = Len(lines), wasData, ~ended PROVE LastIsData'
  BY DEF LastIsData
<1>1. GLTypes /\ LastIsData /\ rows # << >> /\ rows \in Seq(RowType)
  BY DEF GLInv, GLTypes, RowType, LastIsData
<1>2. n \in Nat /\ Len(lines)' = n + 1
  BY <1>1, OneMoreLine
<1>3. /\ \A j \in 1..n : (Cont(j)' <=> Cont(j)) /\ (Is("desc", j)' <=> Is("desc", j))
      /\ Cont(n + 1)' \/ Is("desc", n + 1)'
  BY <1>1, SamePatterns
<1>4. Len(rows) \in DOMAIN rows
  BY <1>1
<1>5. PICK q : q = rows[Len(rows)].seq
  OBVIOUS
<1>6. q \in Nat
  <2>1. rows[Len(rows)] \in RowType
    BY <1>1, <1>4, ItemOf
  <2> QED BY <1>5, <2>1 DEF RowType
<1>7. \A j \in q + 1 .. n : Cont(j) \/ Is("desc", j)
  BY <1>1, <1>5 DEF LastIsData
<1>8. ASSUME NEW j \in q + 1 .. n + 1 PROVE Cont(j)' \/ Is("desc", j)'
  <2>1. CASE j = n + 1
    BY <1>3, <2>1
  <2>2. CASE j # n + 1
    <3>1. j \in q + 1 .. n /\ j \in 1..n
      BY <1>2, <1>6, <2>2
    <3> QED BY <1>3, <1>7, <3>1
  <2> QED BY <2>1, <2>2
<1>9. (rows[Len(rows)].seq)' = q
  BY <1>5
<1> QED BY <1>1, <1>2, <1>8, <1>9 DEF LastIsData

LEMMA LastIsNew ==
  ASSUME GLInv, NEW s, Line(s), NEW n, n = Len(lines), NEW d \in Seq(Nat),
         rows' = Append(rows, [seq |-> n + 1, desc |-> d])
  PROVE  LastIsData' /\ rows' \in Seq(RowType) /\ Len(rows') = Len(rows) + 1
<1>1. GLTypes /\ rows \in Seq(RowType)
  BY DEF GLInv, GLTypes, RowType
<1>2. n \in Nat /\ Len(lines)' = n + 1
  BY <1>1, OneMoreLine
<1>3. PICK row \in RowType : row = [seq |-> n + 1, desc |-> d] /\ row.seq = n + 1
  BY <1>2 DEF RowType
<1>4. /\ Append(rows, row) \in Seq(RowType) /\ Len(Append(rows, row)) = Len(rows) + 1
      /\ Append(rows, row)[Len(rows) + 1] = row /\ Append(rows, row) # << >>
  BY <1>1, AppendIs
<1>5. (rows[Len(rows)].seq)' = n + 1
  BY <1>3, <1>4
<1>6. (n + 1) + 1 .. n + 1 = {}
  BY <1>2
<1> QED BY <1>2, <1>3, <1>4, <1>5, <1>6 DEF LastIsData

-----------------------------------------------------------------------------
(* GLReport: one lemma for each kind of line.                               *)

LEMMA TypesStay ==
  ASSUME GLInv, NEW s, Line(s), pending' \in Seq(Nat), wasData' \in BOOLEAN,
         rows' \in Seq(RowType), results' \in Seq(RowType), Len(results') = Len(rows')
  PROVE  GLTypes'
BY OneMoreLine DEF GLInv, GLTypes, RowType

LEMMA TypesAre ==
  ASSUME GLInv
  PROVE  /\ pending \in Seq(Nat) /\ wasData \in BOOLEAN
         /\ rows \in Seq(RowType) /\ results \in Seq(RowType) /\ Len(results) = Len(rows)
BY DEF GLInv, GLTypes, RowType

(* A line that is no row and leaves pending and the rows alone.             *)
LEMMA QuietLine ==
  ASSUME GLInv, NEW s, Line(s), "cont" \in s => pending = << >>,
         "code" \notin s \/ "cont" \in s, "data" \notin s, "header" \notin s,
         wasData' \in BOOLEAN, LastIsData', UNCHANGED <<pending, rows, results>>
  PROVE  GLInv'
<1>1. GLTypes'
  BY TypesAre, TypesStay
<1>2. PendingWaits'
  BY PendingStays
<1>3. RowsAreRead' /\ DraftsKeepTails'
  BY NoRowRead, TailsKept
<1> QED BY <1>1, <1>2, <1>3 DEF GLInv

LEMMA EndOfReportKeeps == GLInv /\ EndOfReport => GLInv'
<1> SUFFICES ASSUME GLInv, EndOfReport PROVE GLInv'
  OBVIOUS
<1>1. Line({"end"}) /\ ended' /\ UNCHANGED <<pending, wasData, rows, results>>
  BY DEF EndOfReport
<1>2. LastIsData'
  BY <1>1 DEF LastIsData
<1>3. wasData' \in BOOLEAN
  BY <1>1, TypesAre
<1>4. PICK s : s = {"end"}
  OBVIOUS
<1>5. s \cap {"cont", "code", "data", "header"} = {} /\ Line(s)
  BY <1>1, <1>4
<1>6. "cont" \notin s /\ "code" \notin s /\ "data" \notin s /\ "header" \notin s
  BY <1>5
<1> QED BY <1>1, <1>2, <1>3, <1>5, <1>6, QuietLine

LEMMA BlankOrPageKeeps ==
  ASSUME GLInv, NEW s \in Shapes, BlankOrPage(s) PROVE GLInv'
<1>1. Line(s) /\ ~wasData' /\ wasData' \in BOOLEAN /\ UNCHANGED <<pending, rows, results>>
  BY DEF BlankOrPage
<1>2. "cont" \notin s /\ "code" \notin s /\ "data" \notin s /\ "header" \notin s
  BY ShapeIs DEF BlankOrPage
<1>3. LastIsData'
  BY <1>1 DEF LastIsData
<1> QED BY <1>1, <1>2, <1>3, QuietLine

LEMMA OtherLineKeeps ==
  ASSUME GLInv, NEW s \in Shapes, Other(s) PROVE GLInv'
<1>1. Line(s) /\ ~wasData' /\ wasData' \in BOOLEAN /\ UNCHANGED <<pending, rows, results>>
  BY DEF Other
<1>2. "cont" \notin s /\ "code" \notin s /\ "data" \notin s /\ "header" \notin s
  BY DEF Other
<1>3. LastIsData'
  BY <1>1 DEF LastIsData
<1> QED BY <1>1, <1>2, <1>3, QuietLine

LEMMA DescriptionOnlyKeeps ==
  ASSUME GLInv, NEW s \in Shapes, DescriptionOnly(s) PROVE GLInv'
<1>1. Line(s) /\ "desc" \in s /\ UNCHANGED <<pending, wasData, rows, results, ended>>
  BY DEF DescriptionOnly
<1>2. s = {"desc"}
  BY <1>1, ShapeIs
<1>3. "cont" \notin s /\ "code" \notin s /\ "data" \notin s /\ "header" \notin s
  BY <1>2
<1>4. LastIsData' /\ wasData' \in BOOLEAN
  BY <1>1, LastStays, TypesAre
<1> QED BY <1>1, <1>3, <1>4, QuietLine

LEMMA ContinuationKeeps ==
  ASSUME GLInv, NEW s \in Shapes, Continuation(s) PROVE GLInv'
<1> SUFFICES ASSUME NEW n, n = Len(lines) PROVE GLInv'
  OBVIOUS
<1>1. Line(s) /\ "cont" \in s /\ UNCHANGED <<wasData, rows, ended>>
  BY DEF Continuation
<1>2. "data" \notin s /\ "header" \notin s
  BY <1>1, ShapeIs
<1>3. LastIsData' /\ wasData' \in BOOLEAN
  BY <1>1, LastStays, TypesAre
<1>4. RowsAreRead'
  BY <1>1, <1>2, NoRowRead
<1>5. CASE pending # << >>
  <2>1. pending' = Append(pending, n + 1) /\ results' = results
    BY <1>5 DEF Continuation, Here
  <2>2. pending' \in Seq(Nat) /\ PendingWaits'
    BY <1>1, <1>5, <2>1, PendingContinues
  <2>3. DraftsKeepTails'
    BY <1>1, <2>1, TailsKept
  <2>4. GLTypes'
    BY <1>1, <1>3, <2>1, <2>2, TypesAre, TypesStay
  <2> QED BY <1>3, <1>4, <2>2, <2>3, <2>4 DEF GLInv
<1>6. CASE pending = << >> /\ ~wasData
  <2>1. UNCHANGED <<pending, results>>
    BY <1>6 DEF Continuation
  <2> QED BY <1>1, <1>2, <1>3, <1>6, <2>1, QuietLine
<1>7. CASE pending = << >> /\ wasData
  <2>1. pending' = pending /\ results' = [results EXCEPT ![Len(results)].desc = Append(@, n + 1)]
    BY <1>7 DEF Continuation, Here
  <2>2. DraftsKeepTails' /\ Len(results') = Len(rows) /\ results' \in Seq(RowType)
    BY <1>1, <1>7, <2>1, TailGrows
  <2>3. PendingWaits'
    BY <1>1, <1>2, <1>7, <2>1, PendingStays
  <2>4. GLTypes'
    BY <1>1, <1>3, <2>1, <2>2, TypesAre, TypesStay
  <2> QED BY <1>3, <1>4, <2>2, <2>3, <2>4 DEF GLInv
<1> QED BY <1>5, <1>6, <1>7

LEMMA AccountCodeKeeps ==
  ASSUME GLInv, NEW s \in Shapes, AccountCode(s) PROVE GLInv'
<1> SUFFICES ASSUME NEW n, n = Len(lines) PROVE GLInv'
  OBVIOUS
<1>1. /\ Line(s) /\ "code" \in s /\ "cont" \notin s /\ "coded" \notin s
      /\ pending' = <<n + 1>> /\ ~wasData' /\ wasData' \in BOOLEAN
      /\ UNCHANGED <<rows, results>>
  BY DEF AccountCode, Here
<1>2. s = {"code"}
  BY <1>1, ShapeIs
<1>3. "data" \notin s /\ "header" \notin s
  BY <1>2
<1>4. pending' \in Seq(Nat) /\ PendingWaits'
  BY <1>1, PendingIsNew
<1>5. RowsAreRead' /\ DraftsKeepTails'
  BY <1>1, <1>3, NoRowRead, TailsKept
<1>6. LastIsData'
  BY <1>1 DEF LastIsData
<1>7. GLTypes'
  BY <1>1, <1>4, TypesAre, TypesStay
<1> QED BY <1>4, <1>5, <1>6, <1>7 DEF GLInv

(* A line that makes a row, whose text is d.                                *)
LEMMA RowLineKeeps ==
  ASSUME GLInv, NEW s, Line(s), "data" \in s \/ "header" \in s, NEW n, n = Len(lines),
         NEW d \in Seq(Nat), IsText(d, TextOf(n + 1)'), Emit(d), wasData' \in BOOLEAN,
         pending' \in Seq(Nat), PendingWaits'
  PROVE  GLInv'
<1>1. n \in Nat
  BY OneMoreLine DEF GLInv
<1>2. PICK row \in RowType : row = [seq |-> n + 1, desc |-> d]
  <2>1. n + 1 \in Nat
    BY <1>1
  <2>2. [seq |-> n + 1, desc |-> d] \in RowType
    BY <2>1 DEF RowType
  <2> QED BY <2>2
<1>3. rows' = Append(rows, row) /\ results' = Append(results, row)
  BY <1>2 DEF Emit, Here
<1>4. RowsAreRead'
  BY <1>2, <1>3, RowRead
<1>5. DraftsKeepTails'
  BY <1>3, TailsOfNewRow
<1>6. LastIsData' /\ rows' \in Seq(RowType) /\ Len(rows') = Len(rows) + 1
  BY <1>2, <1>3, LastIsNew
<1>7. results' \in Seq(RowType) /\ Len(results') = Len(results) + 1
  BY <1>3, TypesAre, AppendIs
<1>8. GLTypes'
  BY <1>6, <1>7, TypesAre, TypesStay
<1> QED BY <1>4, <1>5, <1>6, <1>8 DEF GLInv

LEMMA DataRowKeeps ==
  ASSUME GLInv, NEW s \in Shapes, DataRow(s) PROVE GLInv'
<1> SUFFICES ASSUME NEW n, n = Len(lines) PROVE GLInv'
  OBVIOUS
<1>1. /\ Line(s) /\ "data" \in s /\ "coded" \notin s /\ Emit(Append(pending, n + 1))
      /\ wasData' \in BOOLEAN /\ pending' = << >>
  BY DEF DataRow, Here
<1>2. Append(pending, n + 1) \in Seq(Nat) /\ IsText(Append(pending, n + 1), TextOf(n + 1)')
  BY <1>1, TextOfAmounts
<1>3. pending' \in Seq(Nat) /\ PendingWaits'
  BY <1>1, PendingIsDone
<1> QED BY <1>1, <1>2, <1>3, RowLineKeeps

LEMMA AccountWithDataKeeps ==
  ASSUME GLInv, NEW s \in Shapes, AccountWithData(s) PROVE GLInv'
<1> SUFFICES ASSUME NEW n, n = Len(lines) PROVE GLInv'
  OBVIOUS
<1>1. Line(s) /\ "coded" \in s /\ Emit(<<n + 1>>) /\ wasData' \in BOOLEAN /\ pending' = pending
  BY DEF AccountWithData, Here
<1>2. s = {"coded", "code", "data"}
  BY <1>1, ShapeIs
<1>3. "data" \in s /\ "cont" \notin s
  BY <1>2
<1>4. <<n + 1>> \in Seq(Nat) /\ IsText(<<n + 1>>, TextOf(n + 1)')
  BY <1>1, TextOfLine
<1>5. pending' \in Seq(Nat) /\ PendingWaits'
  BY <1>1, <1>3, TypesAre, PendingStays
<1> QED BY <1>1, <1>3, <1>4, <1>5, RowLineKeeps

LEMMA HeaderKeeps ==
  ASSUME GLInv, NEW s \in Shapes, Header(s) PROVE GLInv'
<1> SUFFICES ASSUME NEW n, n = Len(lines) PROVE GLInv'
  OBVIOUS
<1>1. /\ Line(s) /\ "header" \in s /\ "data" \notin s /\ Emit(<<n + 1>>)
      /\ wasData' \in BOOLEAN /\ pending' = pending
  BY DEF Header, Here
<1>2. s = {"header"}
  BY <1>1, ShapeIs
<1>3. "cont" \notin s /\ "code" \notin s
  BY <1>2
<1>4. <<n + 1>> \in Seq(Nat) /\ IsText(<<n + 1>>, TextOf(n + 1)')
  BY <1>1, TextOfLine
<1>5. pending' \in Seq(Nat) /\ PendingWaits'
  BY <1>1, <1>3, TypesAre, PendingStays
<1> QED BY <1>1, <1>4, <1>5, RowLineKeeps

LEMMA GLStepInv == GLInv /\ [GLNext]_glVars => GLInv'
<1> SUFFICES ASSUME GLInv, [GLNext]_glVars PROVE GLInv'
  OBVIOUS
<1>1. CASE EndOfReport
  BY <1>1, EndOfReportKeeps
<1>2. ASSUME NEW s \in Shapes,
             \/ BlankOrPage(s) \/ DescriptionOnly(s) \/ Continuation(s)
             \/ AccountWithData(s) \/ AccountCode(s) \/ DataRow(s) \/ Header(s) \/ Other(s)
      PROVE  GLInv'
  BY <1>2, BlankOrPageKeeps, DescriptionOnlyKeeps, ContinuationKeeps, AccountWithDataKeeps,
     AccountCodeKeeps, DataRowKeeps, HeaderKeeps, OtherLineKeeps
<1>3. CASE UNCHANGED glVars
  <2>1. UNCHANGED <<lines, pending, wasData, rows, results, ended>>
    BY <1>3 DEF glVars
  <2>2. GLTypes'
    BY <2>1 DEF GLInv, GLTypes
  <2>3. /\ \A k, i : Is(k, i)' <=> Is(k, i)
        /\ \A i : (Cont(i)' <=> Cont(i)) /\ (Code(i)' <=> Code(i))
        /\ \A i : (Plain(i)' <=> Plain(i)) /\ (RowLine(i)' <=> RowLine(i))
    BY <2>1 DEF Is, Cont, Code, Plain, RowLine
  <2>4. \A c, i : (CodeOf(c, i)' <=> CodeOf(c, i)) /\ (Waits(c)' <=> Waits(c))
    BY <2>1, <2>3 DEF CodeOf, Waits
  <2>5. \A i : TextOf(i)' = TextOf(i)
    BY <2>3, <2>4 DEF TextOf
  <2>6. PendingWaits'
    BY <2>1, <2>3, <2>4 DEF GLInv, PendingWaits
  <2>7. LastIsData'
    BY <2>1, <2>3 DEF GLInv, LastIsData
  <2>8. RowsAreRead'
    BY <2>1, <2>3, <2>5 DEF GLInv, RowsAreRead
  <2>9. DraftsKeepTails'
    BY <2>1, <2>3 DEF GLInv, DraftsKeepTails
  <2> QED BY <2>2, <2>6, <2>7, <2>8, <2>9 DEF GLInv
<1> QED BY <1>1, <1>2, <1>3 DEF GLNext

LEMMA GLInitInv == GLInit => GLInv
<1> SUFFICES ASSUME GLInit PROVE GLInv
  OBVIOUS
<1>1. /\ lines = << >> /\ pending = << >> /\ ~wasData /\ rows = << >> /\ results = << >>
      /\ wasData \in BOOLEAN
  BY DEF GLInit
<1>2. Len(lines) = 0 /\ DOMAIN lines = {} /\ DOMAIN rows = {}
  BY <1>1
<1>3. GLTypes
  BY <1>1 DEF GLTypes
<1>4. PendingWaits
  BY <1>1, <1>2 DEF PendingWaits
<1>5. LastIsData
  BY <1>1 DEF LastIsData
<1>6. RowsAreRead /\ DraftsKeepTails
  BY <1>2 DEF RowsAreRead, DraftsKeepTails
<1> QED BY <1>3, <1>4, <1>5, <1>6 DEF GLInv

(* The invariant of the line machine, for files of any length.              *)
THEOREM LineMachineInvariant == GLSpec => []GLInv
<1>1. GLInit => GLInv
  BY GLInitInv
<1>2. GLInv /\ [GLNext]_glVars => GLInv'
  BY GLStepInv
<1> QED BY <1>1, <1>2, PTL DEF GLSpec

(* Every row line of a report is a bronze row, in order, with the code that *)
(* waits for it and its continuations, each once and in order.              *)
THEOREM ReportIsReadWhole == GLSpec => []RowsAreRead
<1>1. GLInv => RowsAreRead
  BY DEF GLInv
<1> QED BY <1>1, LineMachineInvariant, PTL

(* A draft's description is the row's and a tail of continuations with only *)
(* descriptive text between: it never takes in another line's text.         *)
THEOREM DraftTailsAreText == GLSpec => []DraftsKeepTails
<1>1. GLInv => DraftsKeepTails
  BY DEF GLInv
<1> QED BY <1>1, LineMachineInvariant, PTL
-----------------------------------------------------------------------------
(* CrbReport: the sums of its reconciliation.                               *)

(* Induction over the naturals, by the least counterexample.                *)
LEMMA LeastOf ==
  ASSUME NEW S, S \subseteq Nat, S # {}
  PROVE  \E n \in S : \A m \in S : n <= m
<1>1. PICK n \in S : \A m \in S : <<m, n>> \notin OpToRel(<, Nat)
  BY WFMin, NatLessThanWellFounded
<1>2. \A m \in S : <<m, n>> \in Nat \X Nat
  OBVIOUS
<1>3. \A m \in S : ~(m < n)
  BY <1>1, <1>2 DEF OpToRel
<1>4. \A m \in S : m \in Nat /\ n \in Nat
  OBVIOUS
<1> QED BY <1>3, <1>4

(* What a row counts in S.                                                  *)
Counts(r, S) == IF r.gl \in S THEN r.amt ELSE 0

(* The sums of the beginnings of rs.                                        *)
Sums(f, rs, S, m) == f = [n \in 0..m |-> IF n = 0 THEN 0 ELSE f[n - 1] + Counts(rs[n], S)]

LEMMA SumsExist ==
  ASSUME NEW rs, NEW S, NEW m \in Nat
  PROVE  \E f : Sums(f, rs, S, m)
<1> DEFINE bad == {n \in Nat : ~\E f : Sums(f, rs, S, n)}
<1> SUFFICES ASSUME bad # {} PROVE FALSE
  OBVIOUS
<1>1. PICK n \in bad : \A k \in bad : n <= k
  BY LeastOf
<1>2. CASE n = 0
  <2> DEFINE f == [k \in 0..0 |-> 0]
  <2>1. f = [k \in 0..0 |-> IF k = 0 THEN 0 ELSE f[k - 1] + Counts(rs[k], S)]
    OBVIOUS
  <2>2. \E g : Sums(g, rs, S, 0)
    BY <2>1 DEF Sums
  <2> QED BY <1>2, <2>2
<1>3. CASE n # 0
  <2>1. n - 1 \in Nat /\ n - 1 \notin bad
    BY <1>1, <1>3
  <2>2. PICK f : Sums(f, rs, S, n - 1)
    BY <2>1
  <2> DEFINE g == [k \in 0..n |-> IF k = n THEN f[n - 1] + Counts(rs[n], S) ELSE f[k]]
  <2>3. \A k \in 0..n - 1 : f[k] = IF k = 0 THEN 0 ELSE f[k - 1] + Counts(rs[k], S)
    BY <2>2 DEF Sums
  <2>4. \A k \in 0..n : k # 0 => k - 1 \in 0..n /\ k - 1 # n /\ (k # n => k \in 0..n - 1)
    BY <2>1
  <2>5. \A k \in 0..n : g[k] = IF k = 0 THEN 0 ELSE g[k - 1] + Counts(rs[k], S)
    <3> SUFFICES ASSUME NEW k \in 0..n
                 PROVE  g[k] = IF k = 0 THEN 0 ELSE g[k - 1] + Counts(rs[k], S)
      OBVIOUS
    <3>1. CASE k = 0
      BY <1>3, <2>1, <2>3, <3>1
    <3>2. CASE k = n
      BY <1>3, <2>4, <3>2
    <3>3. CASE k # 0 /\ k # n
      BY <2>3, <2>4, <3>3
    <3> QED BY <3>1, <3>2, <3>3
  <2>6. g = [k \in 0..n |-> g[k]]
    OBVIOUS
  <2> HIDE DEF g
  <2>7. g = [k \in 0..n |-> IF k = 0 THEN 0 ELSE g[k - 1] + Counts(rs[k], S)]
    BY <2>5, <2>6
  <2> QED BY <2>7 DEF Sums
<1> QED BY <1>2, <1>3

LEMMA SumIs ==
  ASSUME NEW R, NEW rs \in Seq(R), NEW S
  PROVE  \E f : Sums(f, rs, S, Len(rs)) /\ Sum(rs, S) = f[Len(rs)]
<1>1. Len(rs) \in Nat
  OBVIOUS
<1>2. \E f : f = [n \in 0..Len(rs) |-> IF n = 0 THEN 0 ELSE f[n - 1] + (IF rs[n].gl \in S THEN rs[n].amt ELSE 0)]
  <2>1. PICK f : Sums(f, rs, S, Len(rs))
    BY <1>1, SumsExist
  <2> QED BY <2>1 DEF Sums, Counts
<1> QED BY <1>2 DEF Sum, Sums, Counts

LEMMA SumsAgree ==
  ASSUME NEW rs, NEW qs, NEW S, NEW m \in Nat, NEW l \in Nat, m <= l,
         \A k \in 1..m : qs[k] = rs[k],
         NEW f, NEW g, Sums(f, rs, S, m), Sums(g, qs, S, l)
  PROVE  f[m] = g[m]
<1> DEFINE bad == {n \in 0..m : f[n] # g[n]}
<1> SUFFICES ASSUME bad # {} PROVE FALSE
  OBVIOUS
<1>1. bad \subseteq Nat
  OBVIOUS
<1>2. PICK n \in bad : \A k \in bad : n <= k
  BY <1>1, LeastOf
<1>3. \A k \in 0..m : f[k] = (IF k = 0 THEN 0 ELSE f[k - 1] + Counts(rs[k], S)) /\ k \in 0..l
  BY DEF Sums
<1>4. \A k \in 0..l : g[k] = IF k = 0 THEN 0 ELSE g[k - 1] + Counts(qs[k], S)
  BY DEF Sums
<1>5. CASE n = 0
  BY <1>3, <1>4, <1>5
<1>6. CASE n # 0
  <2>1. n \in 1..m /\ n - 1 \in 0..m /\ n - 1 \notin bad
    BY <1>2, <1>6
  <2>2. f[n - 1] = g[n - 1] /\ qs[n] = rs[n]
    BY <2>1
  <2> QED BY <1>3, <1>4, <1>6, <2>1, <2>2
<1> QED BY <1>5, <1>6

LEMMA SumOfNothing == \A S : Sum(<< >>, S) = 0
<1> SUFFICES ASSUME NEW S PROVE Sum(<< >>, S) = 0
  OBVIOUS
<1>1. PICK f : Sums(f, << >>, S, Len(<< >>)) /\ Sum(<< >>, S) = f[Len(<< >>)]
  <2>1. << >> \in Seq({})
    OBVIOUS
  <2> QED BY <2>1, SumIs
<1>2. Len(<< >>) = 0
  OBVIOUS
<1> QED BY <1>1, <1>2 DEF Sums

(* One more row.                                                            *)
LEMMA SumOfMore ==
  ASSUME NEW R, NEW rs \in Seq(R), NEW r \in R, NEW S
  PROVE  Sum(Append(rs, r), S) = Sum(rs, S) + Counts(r, S)
<1> DEFINE m  == Len(rs)
           qs == Append(rs, r)
<1>1. m \in Nat /\ m + 1 \in Nat /\ qs \in Seq(R) /\ Len(qs) = m + 1 /\ qs[m + 1] = r
  OBVIOUS
<1>2. \A k \in 1..m : qs[k] = rs[k]
  OBVIOUS
<1>3. PICK f : Sums(f, rs, S, m) /\ Sum(rs, S) = f[m]
  BY SumIs
<1> HIDE DEF m, qs
<1>4. PICK g : Sums(g, qs, S, m + 1) /\ Sum(qs, S) = g[m + 1]
  BY <1>1, SumIs
<1>5. f[m] = g[m]
  BY <1>1, <1>2, <1>3, <1>4, SumsAgree
<1>6. m + 1 \in 0..m + 1 /\ m + 1 # 0 /\ (m + 1) - 1 = m
  BY <1>1
<1>7. g[m + 1] = g[m] + Counts(r, S)
  BY <1>1, <1>4, <1>6 DEF Sums
<1> QED BY <1>3, <1>4, <1>5, <1>7 DEF qs

(* A sum has every row's amount in it, and nothing else.                    *)
LEMMA SumBounds ==
  ASSUME NEW R, \A r \in R : r.amt \in Nat, NEW rs \in Seq(R), NEW S
  PROVE  /\ Sum(rs, S) \in Nat
         /\ (\A i \in DOMAIN rs : rs[i].gl \notin S) => Sum(rs, S) = 0
         /\ \A i \in DOMAIN rs : rs[i].gl \in S => rs[i].amt <= Sum(rs, S)
<1> DEFINE m == Len(rs)
<1>1. m \in Nat /\ DOMAIN rs = 1..m /\ \A i \in 1..m : rs[i] \in R
  OBVIOUS
<1>2. \A i \in 1..m : rs[i].amt \in Nat
  BY <1>1
<1>3. PICK f : Sums(f, rs, S, m) /\ Sum(rs, S) = f[m]
  BY SumIs
<1> HIDE DEF m
<1>4. f[0] = 0 /\ \A n \in 1..m : f[n] = f[n - 1] + Counts(rs[n], S)
  BY <1>1, <1>3 DEF Sums
<1> DEFINE good(n) == /\ f[n] \in Nat
                      /\ (\A i \in 1..n : rs[i].gl \notin S) => f[n] = 0
                      /\ \A i \in 1..n : rs[i].gl \in S => rs[i].amt <= f[n]
           bad == {n \in 0..m : ~good(n)}
<1>5. bad = {}
  <2> SUFFICES ASSUME bad # {} PROVE FALSE
    OBVIOUS
  <2>1. bad \subseteq Nat
    OBVIOUS
  <2> HIDE DEF good
  <2>2. PICK n \in bad : \A k \in bad : n <= k
    BY <2>1, LeastOf
  <2>3. CASE n = 0
    <3>1. good(0)
      BY <1>4 DEF good
    <3> QED BY <2>3, <3>1
  <2>4. CASE n # 0
    <3>1. n \in 1..m /\ n - 1 \in 0..m /\ n - 1 \notin bad
      BY <1>1, <2>2, <2>4
    <3>2. good(n - 1)
      BY <3>1
    <3>3. f[n] = f[n - 1] + Counts(rs[n], S) /\ rs[n].amt \in Nat
      BY <1>2, <1>4, <3>1
    <3>4. f[n - 1] \in Nat /\ Counts(rs[n], S) \in Nat
      BY <3>2, <3>3 DEF good, Counts
    <3>5. f[n] \in Nat /\ f[n - 1] <= f[n] /\ (rs[n].gl \in S => rs[n].amt <= f[n])
      BY <3>3, <3>4 DEF Counts
    <3>6. \A i : i \in 1..n <=> i \in 1..n - 1 \/ i = n
      BY <3>1
    <3>7. (\A i \in 1..n : rs[i].gl \notin S) => f[n] = 0
      BY <3>2, <3>3, <3>6 DEF good, Counts
    <3>8. ASSUME NEW i \in 1..n, rs[i].gl \in S PROVE rs[i].amt <= f[n]
      <4>1. CASE i = n
        BY <3>5, <3>8, <4>1
      <4>2. CASE i \in 1..n - 1
        <5>1. i \in 1..m
          BY <3>1, <4>2, <1>1
        <5>2. rs[i].amt <= f[n - 1] /\ rs[i].amt \in Nat
          BY <1>2, <3>2, <3>8, <4>2, <5>1 DEF good
        <5> QED BY <3>4, <3>5, <5>2
      <4> QED BY <3>6, <4>1, <4>2
    <3>9. good(n)
      BY <3>5, <3>7, <3>8 DEF good
    <3> QED BY <3>9
  <2> QED BY <2>3, <2>4
<1>6. good(m)
  BY <1>1, <1>5
<1> QED BY <1>1, <1>3, <1>6

-----------------------------------------------------------------------------
(* CrbReport: the books of what was passed over.                            *)

Sections == Targets \cup Others
Positive == Nat \ {0}

PrintedRow == [gl : Sections, amt : Positive]
ParsedRow  == [gl : Targets, amt : Positive, line : Nat]
MissedRow  == [gl : Targets, amt : Positive]
AddedRow   == [gl : Targets, amt : Positive, from : Sections]

(* What Recon compares.                                                     *)
Agree ==
  /\ \A g \in Targets : total[g] \in {None, Sum(parsed, {g})}
  /\ \A t \in Groups : group[t] \in {None, Sum(parsed, SectionsOf(t))}

CrbTypes ==
  /\ section \in Sections \cup {None} /\ opened \subseteq Sections
  /\ printed \in Seq(PrintedRow) /\ parsed \in Seq(ParsedRow)
  /\ current \in Targets \cup {None}
  /\ total \in [Targets -> Nat \cup {None}] /\ group \in [Groups -> Nat \cup {None}]
  /\ misread \in 0..MaxMisread
  /\ verdict \in {"reading", "totals", "passed", "failed"}
  /\ section # None => section \in opened
  /\ current # None => current \in opened
  /\ \A i \in DOMAIN printed : printed[i].gl \in opened
  /\ \A k \in DOMAIN parsed : parsed[k].gl \in opened /\ parsed[k].line \in DOMAIN printed

Verdicts ==
  /\ verdict # "reading" =>
       section = None /\ \A t \in Groups : group[t] \in {None, Sum(printed, SectionsOf(t))}
  /\ verdict = "passed" => Agree
  /\ verdict = "failed" => ~Agree

(* H: the sections whose head was passed over; L: how many rows were; T: the *)
(* sections whose total was.                                                *)
Cost(H, L, T) ==
  /\ H \subseteq opened /\ T \subseteq opened \ {section} /\ L \in Nat
  /\ IsFiniteSet(H) /\ IsFiniteSet(T)
  /\ Cardinality(H) + L + Cardinality(T)
       + (IF verdict = "reading" THEN 0 ELSE Cardinality({t \in Groups : group[t] = None})) <= misread

(* m: the rows of targets that are not parsed as their section's.           *)
Missed(H, L, m) ==
  /\ m \in Seq(MissedRow)
  /\ \A i \in DOMAIN m : m[i].gl \in opened /\ (m[i].gl \in H \/ L # 0)

(* a: the rows that are parsed as another section's.                        *)
Added(H, m, a) ==
  /\ a \in Seq(AddedRow)
  /\ \A i \in DOMAIN a :
       /\ a[i].gl \in opened /\ a[i].gl \notin H /\ a[i].from \in H
       /\ a[i].from \in Targets => \E j \in DOMAIN m : m[j].gl = a[i].from
       /\ \E k \in DOMAIN parsed : printed[parsed[k].line].gl = a[i].from

Balanced(m, a) ==
  \A S \in SUBSET Targets : Sum(parsed, S) + Sum(m, S) = Sum(printed, S) + Sum(a, S)

Reads(H) ==
  /\ current # None => current \notin H
  /\ section \in Targets \ H => current = section
  /\ section \in Others \ H => current = None

ParsedFrom(H, a) ==
  \A k \in DOMAIN parsed :
    /\ parsed[k].gl \notin H
    /\ \/ printed[parsed[k].line].gl = parsed[k].gl
       \/ \E i \in DOMAIN a : a[i].from = printed[parsed[k].line].gl

PrintedTo(m) ==
  \A i \in DOMAIN printed : printed[i].gl \in Targets =>
    \/ \E k \in DOMAIN parsed : parsed[k].line = i
    \/ \E j \in DOMAIN m : m[j].gl = printed[i].gl

Totals(T) ==
  \A g \in Targets :
    /\ g \notin opened \/ g = section => total[g] = None
    /\ g \in opened /\ g # section => total[g] = Sum(printed, {g}) \/ (total[g] = None /\ g \in T)

Books(H, L, T, m, a) ==
  /\ Cost(H, L, T) /\ Missed(H, L, m) /\ Added(H, m, a) /\ Balanced(m, a) /\ Reads(H)
  /\ ParsedFrom(H, a) /\ PrintedTo(m) /\ Totals(T)

CrbInv == CrbTypes /\ Verdicts /\ \E H, L, T, m, a : Books(H, L, T, m, a)

-----------------------------------------------------------------------------
(* What the books say of a file that passed, and of one read whole.         *)

LEMMA SumAmounts ==
  /\ (\A r \in PrintedRow : r.amt \in Nat) /\ (\A r \in ParsedRow : r.amt \in Nat)
  /\ \A r \in MissedRow : r.amt \in Nat /\ r.amt > 0
  /\ \A r \in AddedRow : r.amt \in Nat /\ r.amt > 0
BY DEF PrintedRow, ParsedRow, MissedRow, AddedRow, Positive

LEMMA BookRows ==
  ASSUME NEW H, NEW L, NEW T, NEW m, NEW a, Books(H, L, T, m, a)
  PROVE  (\A i \in DOMAIN m : m[i].gl \in Targets) /\ \A i \in DOMAIN a : a[i].gl \in Targets
<1>1. m \in Seq(MissedRow) /\ a \in Seq(AddedRow)
  BY DEF Books, Missed, Added
<1>2. (\A i \in DOMAIN m : m[i] \in MissedRow) /\ \A i \in DOMAIN a : a[i] \in AddedRow
  BY <1>1, ItemOf
<1> QED BY <1>2 DEF MissedRow, AddedRow

(* The sums of the books are numbers, and none but an empty one is zero.    *)
LEMMA BookSums ==
  ASSUME CrbTypes, NEW H, NEW L, NEW T, NEW m, NEW a, Books(H, L, T, m, a), NEW S \in SUBSET Targets
  PROVE  /\ Sum(parsed, S) \in Nat /\ Sum(printed, S) \in Nat /\ Sum(m, S) \in Nat /\ Sum(a, S) \in Nat
         /\ Sum(parsed, S) + Sum(m, S) = Sum(printed, S) + Sum(a, S)
         /\ Sum(m, S) > 0 <=> \E i \in DOMAIN m : m[i].gl \in S
         /\ Sum(a, S) > 0 <=> \E i \in DOMAIN a : a[i].gl \in S
         /\ S \subseteq H => Sum(parsed, S) = 0
<1>1. /\ printed \in Seq(PrintedRow) /\ parsed \in Seq(ParsedRow)
      /\ m \in Seq(MissedRow) /\ a \in Seq(AddedRow)
  BY DEF CrbTypes, Books, Missed, Added
<1>2. Sum(printed, S) \in Nat
  BY <1>1, SumAmounts, SumBounds
<1>3. Sum(parsed, S) \in Nat /\ ((\A k \in DOMAIN parsed : parsed[k].gl \notin S) => Sum(parsed, S) = 0)
  BY <1>1, SumAmounts, SumBounds
<1>4. /\ Sum(m, S) \in Nat
      /\ (\A i \in DOMAIN m : m[i].gl \notin S) => Sum(m, S) = 0
      /\ \A i \in DOMAIN m : m[i].gl \in S => m[i].amt <= Sum(m, S)
  BY <1>1, SumAmounts, SumBounds
<1>5. /\ Sum(a, S) \in Nat
      /\ (\A i \in DOMAIN a : a[i].gl \notin S) => Sum(a, S) = 0
      /\ \A i \in DOMAIN a : a[i].gl \in S => a[i].amt <= Sum(a, S)
  BY <1>1, SumAmounts, SumBounds
<1>6. /\ \A i \in DOMAIN m : m[i].amt \in Nat /\ m[i].amt > 0
      /\ \A i \in DOMAIN a : a[i].amt \in Nat /\ a[i].amt > 0
  <2>1. (\A i \in DOMAIN m : m[i] \in MissedRow) /\ \A i \in DOMAIN a : a[i] \in AddedRow
    BY <1>1
  <2> QED BY <2>1, SumAmounts
<1>7. Sum(m, S) > 0 <=> \E i \in DOMAIN m : m[i].gl \in S
  BY <1>4, <1>6
<1>8. Sum(a, S) > 0 <=> \E i \in DOMAIN a : a[i].gl \in S
  BY <1>5, <1>6
<1>9. Sum(parsed, S) + Sum(m, S) = Sum(printed, S) + Sum(a, S)
  BY DEF Books, Balanced
<1>10. S \subseteq H => Sum(parsed, S) = 0
  BY <1>3 DEF Books, ParsedFrom
<1> QED BY <1>2, <1>3, <1>4, <1>5, <1>7, <1>8, <1>9, <1>10

LEMMA SectionsOfAre == \A t \in Groups : SectionsOf(t) \in SUBSET Targets
BY DEF SectionsOf

(* Nothing was passed over: nothing is missed, nothing added.               *)
LEMMA WholeFileAgrees ==
  ASSUME CrbInv, misread = 0, verdict # "reading"
  PROVE  Agree
<1>1. CrbTypes /\ Verdicts
  BY DEF CrbInv
<1>2. PICK H, L, T, m, a : Books(H, L, T, m, a)
  BY DEF CrbInv
<1>3. /\ H \subseteq opened /\ IsFiniteSet(H) /\ IsFiniteSet(T) /\ L \in Nat
      /\ Cardinality(H) + L + Cardinality(T)
           + Cardinality({t \in Groups : group[t] = None}) <= 0
  BY <1>2 DEF Books, Cost
<1>4. IsFiniteSet({t \in Groups : group[t] = None})
  BY FS_Subset, CrbAssumption
<1>5. /\ Cardinality(H) \in Nat /\ Cardinality(T) \in Nat
      /\ Cardinality({t \in Groups : group[t] = None}) \in Nat
  BY <1>3, <1>4, FS_CardinalityType
<1>6. L = 0 /\ Cardinality(H) = 0
  BY <1>3, <1>5
<1>7. H = {}
  BY <1>3, <1>6, FS_EmptySet
<1>8. DOMAIN m = {} /\ DOMAIN a = {}
  BY <1>2, <1>6, <1>7 DEF Books, Missed, Added
<1>9. \A S \in SUBSET Targets : Sum(parsed, S) = Sum(printed, S)
  <2> SUFFICES ASSUME NEW S \in SUBSET Targets PROVE Sum(parsed, S) = Sum(printed, S)
    OBVIOUS
  <2>1. /\ Sum(parsed, S) \in Nat /\ Sum(printed, S) \in Nat /\ Sum(m, S) \in Nat /\ Sum(a, S) \in Nat
        /\ Sum(parsed, S) + Sum(m, S) = Sum(printed, S) + Sum(a, S)
        /\ ~(Sum(m, S) > 0) /\ ~(Sum(a, S) > 0)
    BY <1>1, <1>2, <1>8, BookSums
  <2> QED BY <2>1
<1>10. section = None /\ \A t \in Groups : group[t] \in {None, Sum(printed, SectionsOf(t))}
  BY <1>1 DEF Verdicts
<1>11. \A g \in Targets : total[g] \in {None, Sum(printed, {g})}
  BY <1>2 DEF Books, Totals
<1> QED BY <1>9, <1>10, <1>11, SectionsOfAre DEF Agree

LEMMA OneOf ==
  ASSUME NEW S, IsFiniteSet(S)
  PROVE  /\ Cardinality(S) \in Nat
         /\ \A x \in S : Cardinality(S) >= 1 /\ (Cardinality(S) <= 1 => S = {x})
         /\ Cardinality(S) = 0 => S = {}
<1>1. Cardinality(S) \in Nat
  BY FS_CardinalityType
<1>2. Cardinality(S) = 0 => S = {}
  BY FS_EmptySet
<1>3. ASSUME NEW x \in S PROVE Cardinality(S) >= 1 /\ (Cardinality(S) <= 1 => S = {x})
  <2>1. Cardinality(S) # 0
    BY <1>2
  <2>2. Cardinality(S) >= 1
    BY <1>1, <2>1
  <2>3. Cardinality(S) <= 1 => Cardinality(S) = 1
    BY <1>1, <2>2
  <2>4. Cardinality(S) = 1 => \E y : S = {y}
    BY FS_Singleton
  <2> QED BY <2>2, <2>3, <2>4
<1> QED BY <1>1, <1>2, <1>3

(* What the books cost a file whose lines are all printed.                  *)
LEMMA CostOf ==
  ASSUME CrbTypes, verdict # "reading", misread <= 2,
         NEW H, NEW L, NEW T, NEW m, NEW a, Books(H, L, T, m, a)
  PROVE  LET M == {t \in Groups : group[t] = None} IN
         /\ L \in Nat /\ IsFiniteSet(H) /\ IsFiniteSet(T) /\ IsFiniteSet(M)
         /\ Cardinality(H) \in Nat /\ Cardinality(T) \in Nat /\ Cardinality(M) \in Nat
         /\ Cardinality(H) + L + Cardinality(T) + Cardinality(M) <= 2
<1>1. IsFiniteSet({t \in Groups : group[t] = None})
  BY FS_Subset, CrbAssumption
<1>2. /\ L \in Nat /\ IsFiniteSet(H) /\ IsFiniteSet(T)
      /\ Cardinality(H) + L + Cardinality(T) + Cardinality({t \in Groups : group[t] = None}) <= misread
  BY DEF Books, Cost
<1>3. /\ Cardinality(H) \in Nat /\ Cardinality(T) \in Nat
      /\ Cardinality({t \in Groups : group[t] = None}) \in Nat
  BY <1>1, <1>2, FS_CardinalityType
<1>4. misread \in Nat
  BY DEF CrbTypes
<1> QED BY <1>1, <1>2, <1>3, <1>4

(* A total that was read agrees only if what is missed of the section is    *)
(* what was added to it.                                                    *)
LEMMA TotalBalances ==
  ASSUME CrbTypes, Verdicts, verdict = "passed",
         NEW H, NEW L, NEW T, NEW m, NEW a, Books(H, L, T, m, a),
         NEW g \in Targets, g \in opened
  PROVE  g \in T \/ (Sum(parsed, {g}) = Sum(printed, {g}) /\ Sum(m, {g}) = Sum(a, {g}))
<1>1. section = None /\ Agree /\ g # None
  BY CrbAssumption DEF Verdicts
<1>2. total[g] = Sum(printed, {g}) \/ (total[g] = None /\ g \in T)
  BY <1>1 DEF Books, Totals
<1>3. total[g] \in {None, Sum(parsed, {g})}
  BY <1>1 DEF Agree
<1>4. /\ Sum(parsed, {g}) \in Nat /\ Sum(printed, {g}) \in Nat /\ Sum(m, {g}) \in Nat /\ Sum(a, {g}) \in Nat
      /\ Sum(parsed, {g}) + Sum(m, {g}) = Sum(printed, {g}) + Sum(a, {g})
  BY BookSums
<1>5. Sum(printed, {g}) # None
  BY <1>4, CrbAssumption
<1>6. g \notin T => Sum(parsed, {g}) = Sum(printed, {g})
  BY <1>2, <1>3, <1>5
<1> QED BY <1>4, <1>6

LEMMA GroupBalances ==
  ASSUME CrbTypes, Verdicts, verdict = "passed",
         NEW H, NEW L, NEW T, NEW m, NEW a, Books(H, L, T, m, a),
         NEW t \in Groups, group[t] # None
  PROVE  Sum(m, SectionsOf(t)) = Sum(a, SectionsOf(t))
<1>1. group[t] = Sum(printed, SectionsOf(t)) /\ group[t] = Sum(parsed, SectionsOf(t))
  BY DEF Verdicts, Agree
<1>2. /\ Sum(parsed, SectionsOf(t)) \in Nat /\ Sum(printed, SectionsOf(t)) \in Nat
      /\ Sum(m, SectionsOf(t)) \in Nat /\ Sum(a, SectionsOf(t)) \in Nat
      /\ Sum(parsed, SectionsOf(t)) + Sum(m, SectionsOf(t)) = Sum(printed, SectionsOf(t)) + Sum(a, SectionsOf(t))
  BY BookSums, SectionsOfAre
<1> QED BY <1>1, <1>2

(* A section whose head was passed over and whose rows are missed: its      *)
(* total was passed over too.                                               *)
LEMMA HeadAndTotal ==
  ASSUME CrbTypes, Verdicts, verdict = "passed",
         NEW H, NEW L, NEW T, NEW m, NEW a, Books(H, L, T, m, a),
         NEW i \in DOMAIN m, m[i].gl \in H
  PROVE  m[i].gl \in T
<1> DEFINE g == m[i].gl
<1>1. g \in Targets /\ g \in opened
  BY BookRows DEF Books, Missed
<1>2. Sum(m, {g}) > 0 /\ Sum(m, {g}) \in Nat
  BY <1>1, BookSums
<1>3. ~(Sum(a, {g}) > 0) /\ Sum(a, {g}) \in Nat
  <2>1. \A j \in DOMAIN a : a[j].gl # g
    BY DEF Books, Added
  <2> QED BY <1>1, <2>1, BookSums
<1>4. Sum(m, {g}) # Sum(a, {g})
  BY <1>2, <1>3
<1> QED BY <1>1, <1>4, TotalBalances

LEMMA NothingMissed ==
  ASSUME CrbTypes, Verdicts, verdict = "passed", misread <= 2, Strays = {},
         NEW H, NEW L, NEW T, NEW m, NEW a, Books(H, L, T, m, a)
  PROVE  DOMAIN m = {}
<1> DEFINE M == {t \in Groups : group[t] = None}
<1> SUFFICES ASSUME NEW i \in DOMAIN m PROVE FALSE
  OBVIOUS
<1> DEFINE g == m[i].gl
           t == GroupOf[g]
           S == SectionsOf(t)
<1>1. /\ L \in Nat /\ IsFiniteSet(H) /\ IsFiniteSet(T) /\ IsFiniteSet(M)
      /\ Cardinality(H) \in Nat /\ Cardinality(T) \in Nat /\ Cardinality(M) \in Nat
      /\ Cardinality(H) + L + Cardinality(T) + Cardinality(M) <= 2
  BY CostOf
<1>2. g \in Targets /\ g \in opened /\ (g \in H \/ L # 0)
  BY BookRows DEF Books, Missed
<1>3. t \in Groups /\ g \in S /\ S \in SUBSET Targets
  BY <1>2, CrbAssumption DEF SectionsOf
<1>4. Sum(m, S) > 0
  BY <1>3, BookSums
<1>5. M = {} => Sum(a, S) > 0
  BY <1>3, <1>4, GroupBalances
<1> HIDE DEF M
<1>6. \A j \in DOMAIN a :
        /\ a[j].gl \in Targets /\ a[j].gl \in opened /\ a[j].gl \notin H
        /\ a[j].from \in H
        /\ a[j].from \in Targets => \E n \in DOMAIN m : m[n].gl = a[j].from
        /\ \E k \in DOMAIN parsed : printed[parsed[k].line].gl = a[j].from
  BY BookRows DEF Books, Added
<1>7. CASE g \in H
  <2>1. g \in T
    BY <1>7, HeadAndTotal
  <2>2. Cardinality(H) >= 1 /\ Cardinality(T) >= 1
    BY <1>1, <1>7, <2>1, OneOf
  <2>3. Cardinality(H) <= 1 /\ Cardinality(T) <= 1 /\ L = 0 /\ Cardinality(M) = 0
    BY <1>1, <2>2
  <2>4. H = {g} /\ T = {g} /\ M = {}
    BY <1>1, <1>7, <2>1, <2>3, OneOf
  <2>5. PICK j \in DOMAIN a : a[j].gl \in S
    BY <1>3, <1>5, <2>4, BookSums
  <2> DEFINE h == a[j].gl
  <2>6. h \in Targets /\ h \in opened /\ h \notin T
    BY <1>6, <2>4
  <2>7. Sum(m, {h}) = Sum(a, {h})
    BY <2>6, TotalBalances
  <2>8. Sum(a, {h}) > 0
    BY <2>6, BookSums
  <2>9. PICK n \in DOMAIN m : m[n].gl = h
    BY <2>6, <2>7, <2>8, BookSums
  <2>10. h \in H \/ L # 0
    BY <2>9 DEF Books, Missed
  <2> QED BY <1>6, <2>3, <2>10
<1>8. CASE g \notin H
  <2>1. L >= 1
    BY <1>1, <1>2, <1>8
  <2>2. CASE g \in T
    <3>1. Cardinality(T) >= 1
      BY <1>1, <2>2, OneOf
    <3>2. Cardinality(H) = 0 /\ Cardinality(M) = 0
      BY <1>1, <2>1, <3>1
    <3>3. H = {} /\ M = {}
      BY <1>1, <3>2, OneOf
    <3>4. PICK j \in DOMAIN a : a[j].gl \in S
      BY <1>3, <1>5, <3>3, BookSums
    <3> QED BY <1>6, <3>3, <3>4
  <2>3. CASE g \notin T
    <3>1. Sum(m, {g}) = Sum(a, {g}) /\ Sum(m, {g}) > 0
      BY <1>2, <2>3, TotalBalances, BookSums
    <3>2. PICK j \in DOMAIN a : a[j].gl = g
      BY <1>2, <3>1, BookSums
    <3>3. a[j].from \in H /\ a[j].from \in Targets
      BY <1>6, <3>2 DEF Strays
    <3>4. PICK n \in DOMAIN m : m[n].gl = a[j].from
      BY <1>6, <3>3
    <3>5. m[n].gl \in T
      BY <3>3, <3>4, HeadAndTotal
    <3>6. Cardinality(H) >= 1 /\ Cardinality(T) >= 1
      BY <1>1, <3>3, <3>5, OneOf
    <3> QED BY <1>1, <2>1, <3>6
  <2> QED BY <2>2, <2>3
<1> QED BY <1>7, <1>8

LEMMA InvImpliesLostRow ==
  ASSUME CrbInv, MaxMisread <= 2
  PROVE  LostRowIsCaught
<1> SUFFICES ASSUME verdict = "passed", Strays = {}
             PROVE  /\ {parsed[k].line : k \in DOMAIN parsed} = TargetRows
                    /\ \A k \in DOMAIN parsed : parsed[k].gl = printed[parsed[k].line].gl
  BY DEF LostRowIsCaught
<1>1. CrbTypes /\ Verdicts
  BY DEF CrbInv
<1>2. PICK H, L, T, m, a : Books(H, L, T, m, a)
  BY DEF CrbInv
<1>3. misread <= 2
  BY <1>1, CrbAssumption DEF CrbTypes
<1>4. DOMAIN m = {}
  BY <1>1, <1>2, <1>3, NothingMissed
<1>5. \A k \in DOMAIN parsed : parsed[k].line \in TargetRows
  BY <1>1 DEF Strays, TargetRows, CrbTypes
<1>6. \A i \in TargetRows : \E k \in DOMAIN parsed : parsed[k].line = i
  BY <1>2, <1>4 DEF TargetRows, Books, PrintedTo
<1>7. \A i \in DOMAIN a : a[i].from \notin Targets
  BY <1>2, <1>4 DEF Books, Added
<1>8. \A k \in DOMAIN parsed : parsed[k].gl = printed[parsed[k].line].gl
  BY <1>2, <1>5, <1>7 DEF Books, ParsedFrom, TargetRows
<1> QED BY <1>5, <1>6, <1>8

-----------------------------------------------------------------------------
(* The steps.                                                               *)

LEMMA InitBooks == CrbInit => CrbInv
<1> SUFFICES ASSUME CrbInit PROVE CrbInv
  OBVIOUS
<1>1. CrbTypes /\ Verdicts
  BY CrbAssumption DEF CrbInit, CrbTypes, Verdicts
<1>2. IsFiniteSet({}) /\ Cardinality({}) = 0
  BY FS_EmptySet
<1>3. Cost({}, 0, {})
  BY <1>2, CrbAssumption DEF CrbInit, Cost
<1>4. Missed({}, 0, << >>) /\ Added({}, << >>, << >>) /\ Totals({})
  BY DEF CrbInit, Missed, Added, Totals
<1>5. Reads({})
  BY CrbAssumption DEF CrbInit, Reads
<1>6. Balanced(<< >>, << >>) /\ ParsedFrom({}, << >>) /\ PrintedTo(<< >>)
  BY DEF CrbInit, Balanced, ParsedFrom, PrintedTo
<1>7. Books({}, 0, {}, << >>, << >>)
  BY <1>3, <1>4, <1>5, <1>6 DEF Books
<1> QED BY <1>1, <1>7 DEF CrbInv

(* Neither the sections nor the rows change: the books do not, but for what *)
(* they cost.                                                               *)
LEMMA SameBooks ==
  ASSUME UNCHANGED <<section, printed, opened, current, parsed, total>>,
         NEW H, NEW L, NEW T, NEW m, NEW a, Books(H, L, T, m, a), Cost(H, L, T)'
  PROVE  Books(H, L, T, m, a)'
<1>1. /\ Missed(H, L, m) /\ Added(H, m, a) /\ Balanced(m, a) /\ Reads(H)
      /\ ParsedFrom(H, a) /\ PrintedTo(m) /\ Totals(T)
  BY DEF Books
<1>2. Missed(H, L, m)' /\ Added(H, m, a)' /\ Balanced(m, a)' /\ Reads(H)'
  BY <1>1 DEF Missed, Added, Balanced, Reads
<1>3. ParsedFrom(H, a)' /\ PrintedTo(m)' /\ Totals(T)'
  BY <1>1 DEF ParsedFrom, PrintedTo, Totals
<1> QED BY <1>2, <1>3 DEF Books

LEMMA ReconStep ==
  ASSUME CrbInv, Recon
  PROVE  CrbInv'
<1>1. CrbTypes /\ Verdicts
  BY DEF CrbInv
<1>2. PICK H, L, T, m, a : Books(H, L, T, m, a)
  BY DEF CrbInv
<1>3. /\ verdict = "totals" /\ verdict' = (IF Agree THEN "passed" ELSE "failed")
      /\ UNCHANGED <<section, printed, opened, current, parsed, total, group, misread>>
  BY DEF Recon, Agree
<1>4. CrbTypes'
  BY <1>1, <1>3 DEF CrbTypes
<1>5. Agree' <=> Agree
  BY <1>3 DEF Agree
<1>6. Verdicts'
  <2>1. section' = None /\ \A t \in Groups : group'[t] \in {None, Sum(printed', SectionsOf(t))}
    BY <1>1, <1>3 DEF Verdicts
  <2>2. (verdict' = "passed" => Agree) /\ (verdict' = "failed" => ~Agree)
    BY <1>3
  <2> QED BY <1>5, <2>1, <2>2 DEF Verdicts
<1>7. Cost(H, L, T)'
  <2>1. verdict # "reading" /\ verdict' # "reading"
    BY <1>3
  <2> QED BY <1>2, <1>3, <2>1 DEF Books, Cost
<1>8. Books(H, L, T, m, a)'
  BY <1>2, <1>3, <1>7, SameBooks
<1> QED BY <1>4, <1>6, <1>8 DEF CrbInv

LEMMA GroupTotalsStep ==
  ASSUME CrbInv, GroupTotals
  PROVE  CrbInv'
<1>1. CrbTypes /\ Verdicts
  BY DEF CrbInv
<1>2. PICK H, L, T, m, a : Books(H, L, T, m, a)
  BY DEF CrbInv
<1>3. /\ verdict = "reading" /\ section = None /\ verdict' = "totals"
      /\ UNCHANGED <<section, printed, opened, current, parsed, total>>
  BY DEF GroupTotals, Printing
<1>4. PICK missed \in SUBSET Groups :
        /\ misread + Cardinality(missed) <= MaxMisread
        /\ misread' = misread + Cardinality(missed)
        /\ group' = [t \in Groups |-> IF t \in missed THEN None ELSE Sum(printed, SectionsOf(t))]
  BY DEF GroupTotals
<1>5. \A t \in Groups : Sum(printed, SectionsOf(t)) \in Nat /\ Sum(printed, SectionsOf(t)) # None
  BY <1>1, <1>2, BookSums, SectionsOfAre, CrbAssumption
<1>6. Cardinality(missed) \in Nat
  BY CrbAssumption, FS_Subset, FS_CardinalityType
<1>7. CrbTypes'
  <2>1. group' \in [Groups -> Nat \cup {None}]
    BY <1>4, <1>5
  <2>2. misread' \in 0..MaxMisread
    BY <1>1, <1>4, <1>6, CrbAssumption DEF CrbTypes
  <2> QED BY <1>1, <1>3, <2>1, <2>2 DEF CrbTypes
<1>8. Verdicts'
  BY <1>3, <1>4 DEF Verdicts
<1>9. {t \in Groups : group'[t] = None} = missed
  BY <1>4, <1>5
<1>10. Cost(H, L, T)'
  <2>1. /\ H \subseteq opened /\ T \subseteq opened \ {section} /\ L \in Nat
        /\ IsFiniteSet(H) /\ IsFiniteSet(T)
        /\ Cardinality(H) + L + Cardinality(T) + 0 <= misread
    BY <1>2, <1>3 DEF Books, Cost
  <2>2. Cardinality(H) \in Nat /\ Cardinality(T) \in Nat /\ misread \in Nat
    BY <1>1, <2>1, FS_CardinalityType DEF CrbTypes
  <2>3. Cardinality(H) + L + Cardinality(T) + Cardinality(missed) <= misread'
    BY <1>4, <1>6, <2>1, <2>2
  <2> QED BY <1>3, <1>9, <2>1, <2>3 DEF Cost
<1>11. Books(H, L, T, m, a)'
  BY <1>2, <1>3, <1>10, SameBooks
<1> QED BY <1>7, <1>8, <1>11 DEF CrbInv

LEMMA SectionHeadStep ==
  ASSUME CrbInv, NEW g \in Sections, SectionHead(g)
  PROVE  CrbInv'
<1>1. CrbTypes /\ Verdicts
  BY DEF CrbInv
<1>2. PICK H, L, T, m, a : Books(H, L, T, m, a)
  BY DEF CrbInv
<1>3. /\ verdict = "reading" /\ section = None /\ g \notin opened
      /\ section' = g /\ opened' = opened \cup {g}
      /\ UNCHANGED <<printed, parsed, total, group, verdict>>
  BY DEF SectionHead, Printing
<1>4. \/ current' = (IF g \in Targets THEN g ELSE None) /\ misread' = misread
      \/ misread < MaxMisread /\ misread' = misread + 1 /\ current' = current
  BY DEF SectionHead, Misread
<1>5. g # None /\ None \notin Targets
  BY CrbAssumption DEF Sections
<1>6. CrbTypes'
  <2>1. misread' \in 0..MaxMisread
    BY <1>1, <1>4, CrbAssumption DEF CrbTypes
  <2>2. current' \in Targets \cup {None} /\ (current' # None => current' \in opened')
    BY <1>1, <1>3, <1>4 DEF CrbTypes
  <2> QED BY <1>1, <1>3, <2>1, <2>2 DEF CrbTypes
<1>7. Verdicts'
  BY <1>3 DEF Verdicts
<1>8. /\ H \subseteq opened /\ T \subseteq opened \ {section} /\ L \in Nat
      /\ IsFiniteSet(H) /\ IsFiniteSet(T)
      /\ Cardinality(H) + L + Cardinality(T) + 0 <= misread
  BY <1>2, <1>3 DEF Books, Cost
<1>9. Cardinality(H) \in Nat /\ Cardinality(T) \in Nat /\ misread \in Nat
  BY <1>1, <1>8, FS_CardinalityType DEF CrbTypes
<1>10. /\ Missed(H, L, m) /\ Added(H, m, a) /\ Balanced(m, a) /\ Reads(H)
       /\ ParsedFrom(H, a) /\ PrintedTo(m) /\ Totals(T)
  BY <1>2 DEF Books
<1>11. ASSUME NEW G, G = H \/ G = H \cup {g}, Cost(G, L, T)', Reads(G)'
       PROVE  CrbInv'
  <2>1. Missed(G, L, m)'
    BY <1>3, <1>10, <1>11 DEF Missed
  <2>2. Added(G, m, a)'
    BY <1>3, <1>10, <1>11 DEF Added
  <2>3. Balanced(m, a)' /\ PrintedTo(m)'
    BY <1>3, <1>10 DEF Balanced, PrintedTo
  <2>4. ParsedFrom(G, a)'
    BY <1>1, <1>3, <1>10, <1>11 DEF ParsedFrom, CrbTypes
  <2>5. Totals(T)'
    BY <1>3, <1>5, <1>10 DEF Totals
  <2>6. Books(G, L, T, m, a)'
    BY <1>11, <2>1, <2>2, <2>3, <2>4, <2>5 DEF Books
  <2> QED BY <1>6, <1>7, <2>6 DEF CrbInv
<1>12. CASE current' = (IF g \in Targets THEN g ELSE None) /\ misread' = misread
  <2>1. Cost(H, L, T)'
    BY <1>3, <1>8, <1>12 DEF Cost
  <2>2. Reads(H)'
    BY <1>3, <1>5, <1>8, <1>12, CrbAssumption DEF Reads
  <2> QED BY <1>11, <2>1, <2>2
<1>13. CASE misread < MaxMisread /\ misread' = misread + 1 /\ current' = current
  <2>1. Cardinality(H \cup {g}) = Cardinality(H) + 1 /\ IsFiniteSet(H \cup {g})
    BY <1>3, <1>8, FS_AddElement
  <2>2. Cardinality(H \cup {g}) + L + Cardinality(T) + 0 <= misread'
    BY <1>8, <1>9, <1>13, <2>1
  <2>3. Cost(H \cup {g}, L, T)'
    BY <1>3, <1>8, <2>1, <2>2 DEF Cost
  <2>4. Reads(H \cup {g})'
    BY <1>1, <1>3, <1>10, <1>13 DEF Reads, CrbTypes
  <2> QED BY <1>11, <2>3, <2>4
<1> QED BY <1>4, <1>12, <1>13

LEMMA TotalForStep ==
  ASSUME CrbInv, TotalFor
  PROVE  CrbInv'
<1>1. CrbTypes /\ Verdicts
  BY DEF CrbInv
<1>2. PICK H, L, T, m, a : Books(H, L, T, m, a)
  BY DEF CrbInv
<1>3. /\ verdict = "reading" /\ section # None /\ section' = None
      /\ UNCHANGED <<printed, opened, current, parsed, group, verdict>>
  BY DEF TotalFor, Printing
<1>4. \/ /\ total' = IF section \in Targets
                       THEN [total EXCEPT ![section] = Sum(printed, {section})] ELSE total
         /\ misread' = misread
      \/ misread < MaxMisread /\ misread' = misread + 1 /\ total' = total
  BY DEF TotalFor, Misread
<1>5. None \notin Sections /\ None \notin Targets
  BY CrbAssumption DEF Sections
<1>6. section \in Targets => Sum(printed, {section}) \in Nat
  BY <1>1, <1>2, BookSums
<1>7. CrbTypes'
  <2>1. misread' \in 0..MaxMisread
    BY <1>1, <1>4, CrbAssumption DEF CrbTypes
  <2>2. total' \in [Targets -> Nat \cup {None}]
    BY <1>1, <1>4, <1>6 DEF CrbTypes
  <2> QED BY <1>1, <1>3, <2>1, <2>2 DEF CrbTypes
<1>8. Verdicts'
  BY <1>3 DEF Verdicts
<1>9. /\ H \subseteq opened /\ T \subseteq opened \ {section} /\ L \in Nat
      /\ IsFiniteSet(H) /\ IsFiniteSet(T)
      /\ Cardinality(H) + L + Cardinality(T) + 0 <= misread
  BY <1>2, <1>3 DEF Books, Cost
<1>10. /\ Cardinality(H) \in Nat /\ Cardinality(T) \in Nat /\ misread \in Nat
       /\ opened \subseteq Sections /\ section \in opened
  BY <1>1, <1>3, <1>9, FS_CardinalityType DEF CrbTypes
<1>11. /\ Missed(H, L, m) /\ Added(H, m, a) /\ Balanced(m, a) /\ Reads(H)
       /\ ParsedFrom(H, a) /\ PrintedTo(m) /\ Totals(T)
  BY <1>2 DEF Books
<1>12. Missed(H, L, m)' /\ Added(H, m, a)' /\ Balanced(m, a)'
  BY <1>3, <1>11 DEF Missed, Added, Balanced
<1>13. Reads(H)' /\ ParsedFrom(H, a)' /\ PrintedTo(m)'
  BY <1>3, <1>5, <1>11 DEF Reads, ParsedFrom, PrintedTo, Sections
<1>14. CASE /\ total' = IF section \in Targets
                          THEN [total EXCEPT ![section] = Sum(printed, {section})] ELSE total
            /\ misread' = misread
  <2>1. Cost(H, L, T)'
    BY <1>3, <1>5, <1>9, <1>10, <1>14 DEF Cost
  <2>2. Totals(T)'
    <3>1. \A g \in Targets : total'[g] = IF g = section THEN Sum(printed, {g}) ELSE total[g]
      BY <1>1, <1>14 DEF CrbTypes
    <3> QED BY <1>3, <1>5, <1>10, <1>11, <3>1 DEF Totals
  <2>3. Books(H, L, T, m, a)'
    BY <1>12, <1>13, <2>1, <2>2 DEF Books
  <2> QED BY <1>7, <1>8, <2>3 DEF CrbInv
<1>15. CASE misread < MaxMisread /\ misread' = misread + 1 /\ total' = total
  <2>0. PICK U : U = T \cup {section}
    OBVIOUS
  <2>1. Cardinality(U) = Cardinality(T) + 1 /\ IsFiniteSet(U)
    BY <1>9, <2>0, FS_AddElement
  <2>2. Cardinality(H) + L + Cardinality(U) + 0 <= misread'
    BY <1>9, <1>10, <1>15, <2>1
  <2>3. Cost(H, L, U)'
    BY <1>3, <1>5, <1>9, <1>10, <2>0, <2>1, <2>2 DEF Cost
  <2>4. Totals(U)'
    BY <1>3, <1>5, <1>10, <1>11, <1>15, <2>0 DEF Totals
  <2>5. Books(H, L, U, m, a)'
    BY <1>12, <1>13, <2>3, <2>4 DEF Books
  <2> QED BY <1>7, <1>8, <2>5 DEF CrbInv
<1> QED BY <1>4, <1>14, <1>15

LEMMA RowAppended ==
  ASSUME NEW R, NEW s \in Seq(R), NEW r \in R, NEW q, q = Append(s, r)
  PROVE  /\ q \in Seq(R) /\ Len(s) \in Nat /\ Len(s) + 1 \notin DOMAIN s
         /\ DOMAIN q = DOMAIN s \cup {Len(s) + 1} /\ q[Len(s) + 1] = r
         /\ \A i \in DOMAIN s : q[i] = s[i]
OBVIOUS

(* A row is printed.  It is passed over, or parsed as a row of another      *)
(* section because its own section's head was passed over, or parsed as it  *)
(* should be.                                                               *)
RowIs(amt, H, L, K, m, n, a, b) ==
  LET parse == /\ current # None
               /\ parsed' = Append(parsed, [gl |-> current, amt |-> amt, line |-> Len(printed) + 1])
      miss  == \/ section \notin Targets /\ n = m
               \/ /\ section \in Targets /\ (section \in H \/ K # 0)
                  /\ n = Append(m, [gl |-> section, amt |-> amt])
  IN  /\ verdict = "reading" /\ section # None /\ amt \in Amounts
      /\ printed' = Append(printed, [gl |-> section, amt |-> amt])
      /\ UNCHANGED <<section, opened, current, total, group, verdict>>
      /\ \/ K = L /\ misread' = misread
         \/ K = L + 1 /\ misread' = misread + 1 /\ misread < MaxMisread
      /\ \/ miss /\ parsed' = parsed /\ b = a
         \/ miss /\ parse /\ section \in H /\ b = Append(a, [gl |-> current, amt |-> amt, from |-> section])
         \/ parse /\ current = section /\ n = m /\ b = a

(* What RowIs appends.                                                      *)
RowGrows(amt, m, n, a, b) ==
  /\ printed' \in Seq(PrintedRow) /\ parsed' \in Seq(ParsedRow) /\ n \in Seq(MissedRow) /\ b \in Seq(AddedRow)
  /\ Len(printed) + 1 \notin DOMAIN printed
  /\ DOMAIN printed' = DOMAIN printed \cup {Len(printed) + 1}
  /\ printed'[Len(printed) + 1].gl = section
  /\ \A i \in DOMAIN printed : printed'[i] = printed[i]
  /\ \A k \in DOMAIN parsed : k \in DOMAIN parsed' /\ parsed'[k] = parsed[k]
  /\ \A k \in DOMAIN parsed' \ DOMAIN parsed :
       parsed'[k].gl = current /\ parsed'[k].line = Len(printed) + 1 /\ current # None
  /\ parsed' # parsed => \E k \in DOMAIN parsed' : k \notin DOMAIN parsed
  /\ \A i \in DOMAIN m : i \in DOMAIN n /\ n[i] = m[i]
  /\ \A i \in DOMAIN n \ DOMAIN m : n[i].gl = section /\ section \in Targets
  /\ n # m => \E i \in DOMAIN n : n[i].gl = section
  /\ \A i \in DOMAIN a : i \in DOMAIN b /\ b[i] = a[i]
  /\ \A i \in DOMAIN b \ DOMAIN a : b[i].gl = current /\ b[i].from = section /\ current # None
  /\ b # a => \E i \in DOMAIN b : b[i].from = section

LEMMA RowTypes ==
  ASSUME CrbTypes, NEW H, NEW L, NEW K, NEW m \in Seq(MissedRow), NEW n, NEW a \in Seq(AddedRow), NEW b,
         NEW amt, RowIs(amt, H, L, K, m, n, a, b)
  PROVE  RowGrows(amt, m, n, a, b)
<1>1. printed \in Seq(PrintedRow) /\ parsed \in Seq(ParsedRow) /\ Len(printed) \in Nat
  BY DEF CrbTypes
<1>2. amt \in Positive /\ section \in Sections /\ (current # None => current \in Targets)
  BY CrbAssumption DEF RowIs, CrbTypes, Positive
<1> DEFINE p == [gl |-> section, amt |-> amt]
           r == [gl |-> current, amt |-> amt, line |-> Len(printed) + 1]
           c == [gl |-> current, amt |-> amt, from |-> section]
<1>3. /\ p \in PrintedRow /\ (section \in Targets => p \in MissedRow)
      /\ current # None => r \in ParsedRow /\ c \in AddedRow
  BY <1>1, <1>2 DEF PrintedRow, MissedRow, ParsedRow, AddedRow
<1>4. /\ p.gl = section /\ r.gl = current /\ r.line = Len(printed) + 1
      /\ c.gl = current /\ c.from = section
  OBVIOUS
<1>5. /\ printed' = Append(printed, p)
      /\ parsed' = parsed \/ (current # None /\ parsed' = Append(parsed, r))
      /\ n = m \/ (section \in Targets /\ n = Append(m, p))
      /\ b = a \/ (current # None /\ b = Append(a, c))
  BY DEF RowIs
<1> HIDE DEF p, r, c
<1>6. /\ printed' \in Seq(PrintedRow)
      /\ Len(printed) + 1 \notin DOMAIN printed
      /\ DOMAIN printed' = DOMAIN printed \cup {Len(printed) + 1}
      /\ printed'[Len(printed) + 1].gl = section
      /\ \A i \in DOMAIN printed : printed'[i] = printed[i]
  BY <1>1, <1>3, <1>4, <1>5, RowAppended
<1>7. /\ parsed' \in Seq(ParsedRow)
      /\ \A k \in DOMAIN parsed : k \in DOMAIN parsed' /\ parsed'[k] = parsed[k]
      /\ \A k \in DOMAIN parsed' \ DOMAIN parsed :
           parsed'[k].gl = current /\ parsed'[k].line = Len(printed) + 1 /\ current # None
      /\ parsed' # parsed => \E k \in DOMAIN parsed' : k \notin DOMAIN parsed
  <2>1. CASE parsed' = parsed
    BY <1>1, <2>1
  <2>2. CASE current # None /\ parsed' = Append(parsed, r)
    BY <1>1, <1>3, <1>4, <2>2, RowAppended
  <2> QED BY <1>5, <2>1, <2>2
<1>8. /\ n \in Seq(MissedRow)
      /\ \A i \in DOMAIN m : i \in DOMAIN n /\ n[i] = m[i]
      /\ \A i \in DOMAIN n \ DOMAIN m : n[i].gl = section /\ section \in Targets
      /\ n # m => \E i \in DOMAIN n : n[i].gl = section
  <2>1. CASE n = m
    BY <2>1
  <2>2. CASE section \in Targets /\ n = Append(m, p)
    BY <1>3, <1>4, <2>2, RowAppended
  <2> QED BY <1>5, <2>1, <2>2
<1>9. /\ b \in Seq(AddedRow)
      /\ \A i \in DOMAIN a : i \in DOMAIN b /\ b[i] = a[i]
      /\ \A i \in DOMAIN b \ DOMAIN a : b[i].gl = current /\ b[i].from = section /\ current # None
      /\ b # a => \E i \in DOMAIN b : b[i].from = section
  <2>1. CASE b = a
    BY <2>1
  <2>2. CASE current # None /\ b = Append(a, c)
    BY <1>3, <1>4, <2>2, RowAppended
  <2> QED BY <1>5, <2>1, <2>2
<1> QED BY <1>6, <1>7, <1>8, <1>9 DEF RowGrows

(* One row more on each side of the balance.                                *)
LEMMA Alike ==
  \A x, y, u, v, c, d \in Nat :
    x + u = y + v => /\ (x + c) + u = (y + c) + v
                     /\ x + (u + c) = (y + c) + v
                     /\ (x + d) + (u + c) = (y + c) + (v + d)
OBVIOUS

(* One row more on each side of the balance.                                *)
LEMMA RowBalances ==
  ASSUME CrbTypes, NEW H, NEW L, NEW K, NEW m \in Seq(MissedRow), NEW n, NEW a \in Seq(AddedRow), NEW b,
         NEW amt, RowIs(amt, H, L, K, m, n, a, b), Balanced(m, a)
  PROVE  Balanced(n, b)'
<1> SUFFICES ASSUME NEW S \in SUBSET Targets
             PROVE  Sum(parsed', S) + Sum(n, S) = Sum(printed', S) + Sum(b, S)
  BY DEF Balanced
<1>1. printed \in Seq(PrintedRow) /\ parsed \in Seq(ParsedRow) /\ Len(printed) \in Nat
  BY DEF CrbTypes
<1>2. amt \in Positive /\ amt \in Nat /\ section \in Sections /\ (current # None => current \in Targets)
  BY CrbAssumption DEF RowIs, CrbTypes, Positive
<1> DEFINE p == [gl |-> section, amt |-> amt]
           r == [gl |-> current, amt |-> amt, line |-> Len(printed) + 1]
           c == [gl |-> current, amt |-> amt, from |-> section]
<1>3. /\ p \in PrintedRow /\ (section \in Targets => p \in MissedRow)
      /\ current # None => r \in ParsedRow /\ c \in AddedRow
  BY <1>1, <1>2 DEF PrintedRow, MissedRow, ParsedRow, AddedRow
<1>4. /\ Counts(p, S) = (IF section \in S THEN amt ELSE 0)
      /\ Counts(r, S) = (IF current \in S THEN amt ELSE 0) /\ Counts(c, S) = Counts(r, S)
      /\ Counts(p, S) \in Nat /\ Counts(r, S) \in Nat
  BY <1>2 DEF Counts
<1>5. /\ printed' = Append(printed, p)
      /\ \/ current # None /\ current = section /\ n = m /\ b = a /\ parsed' = Append(parsed, r)
         \/ /\ (section \notin Targets /\ n = m) \/ (section \in Targets /\ n = Append(m, p))
            /\ \/ parsed' = parsed /\ b = a
               \/ current # None /\ parsed' = Append(parsed, r) /\ b = Append(a, c)
  BY DEF RowIs
<1> HIDE DEF p, r, c
<1>6. /\ Sum(parsed, S) \in Nat /\ Sum(printed, S) \in Nat /\ Sum(m, S) \in Nat /\ Sum(a, S) \in Nat
      /\ Sum(parsed, S) + Sum(m, S) = Sum(printed, S) + Sum(a, S)
  BY <1>1, SumAmounts, SumBounds DEF Balanced
<1>7. Sum(printed', S) = Sum(printed, S) + Counts(p, S)
  BY <1>1, <1>3, <1>5, SumOfMore
<1>8. current # None /\ parsed' = Append(parsed, r) => Sum(parsed', S) = Sum(parsed, S) + Counts(r, S)
  BY <1>1, <1>3, SumOfMore
<1>9. section \in Targets /\ n = Append(m, p) => Sum(n, S) = Sum(m, S) + Counts(p, S)
  BY <1>3, SumOfMore
<1>10. current # None /\ b = Append(a, c) => Sum(b, S) = Sum(a, S) + Counts(r, S)
  BY <1>3, <1>4, SumOfMore
<1>11. section \notin Targets => Counts(p, S) = 0
  BY <1>4
<1>12. /\ (Sum(parsed, S) + Counts(p, S)) + Sum(m, S) = (Sum(printed, S) + Counts(p, S)) + Sum(a, S)
       /\ Sum(parsed, S) + (Sum(m, S) + Counts(p, S)) = (Sum(printed, S) + Counts(p, S)) + Sum(a, S)
       /\ (Sum(parsed, S) + Counts(r, S)) + (Sum(m, S) + Counts(p, S))
            = (Sum(printed, S) + Counts(p, S)) + (Sum(a, S) + Counts(r, S))
  <2>1. PICK x, y, u, v, c1, d1 :
          /\ x = Sum(parsed, S) /\ y = Sum(printed, S) /\ u = Sum(m, S) /\ v = Sum(a, S)
          /\ c1 = Counts(p, S) /\ d1 = Counts(r, S)
    OBVIOUS
  <2>2. x \in Nat /\ y \in Nat /\ u \in Nat /\ v \in Nat /\ c1 \in Nat /\ d1 \in Nat /\ x + u = y + v
    BY <1>4, <1>6, <2>1
  <2>3. /\ (x + c1) + u = (y + c1) + v
        /\ x + (u + c1) = (y + c1) + v
        /\ (x + d1) + (u + c1) = (y + c1) + (v + d1)
    BY <2>2, Alike
  <2> QED BY <2>1, <2>3, Zenon
<1>13. CASE current # None /\ current = section /\ n = m /\ b = a /\ parsed' = Append(parsed, r)
  <2>1. Sum(parsed', S) = Sum(parsed, S) + Counts(p, S)
    BY <1>4, <1>8, <1>13
  <2>2. Sum(n, S) = Sum(m, S) /\ Sum(b, S) = Sum(a, S)
    BY <1>13
  <2> QED BY <1>7, <1>12, <2>1, <2>2, Zenon
<1>14. ASSUME (section \notin Targets /\ n = m) \/ (section \in Targets /\ n = Append(m, p)),
              \/ parsed' = parsed /\ b = a
              \/ current # None /\ parsed' = Append(parsed, r) /\ b = Append(a, c)
       PROVE  Sum(parsed', S) + Sum(n, S) = Sum(printed', S) + Sum(b, S)
  <2>1. Sum(n, S) = Sum(m, S) + Counts(p, S)
    BY <1>6, <1>9, <1>11, <1>14
  <2>2. \/ Sum(parsed', S) = Sum(parsed, S) /\ Sum(b, S) = Sum(a, S)
        \/ Sum(parsed', S) = Sum(parsed, S) + Counts(r, S) /\ Sum(b, S) = Sum(a, S) + Counts(r, S)
    BY <1>8, <1>10, <1>14
  <2> QED BY <1>7, <1>12, <2>1, <2>2, Zenon
<1> QED BY <1>5, <1>13, <1>14

LEMMA RowBooks ==
  ASSUME CrbTypes, NEW H, NEW L, NEW T, NEW m, NEW a, Books(H, L, T, m, a),
         NEW K, NEW n, NEW b, NEW amt, RowIs(amt, H, L, K, m, n, a, b)
  PROVE  Books(H, K, T, n, b)'
<1>1. /\ Cost(H, L, T) /\ Missed(H, L, m) /\ Added(H, m, a) /\ Balanced(m, a) /\ Reads(H)
      /\ ParsedFrom(H, a) /\ PrintedTo(m) /\ Totals(T)
  BY DEF Books
<1>2. m \in Seq(MissedRow) /\ a \in Seq(AddedRow)
  BY <1>1 DEF Missed, Added
<1>3. RowGrows(amt, m, n, a, b)
  BY <1>2, RowTypes
<1>4. /\ verdict = "reading" /\ section # None
      /\ UNCHANGED <<section, opened, current, total, group, verdict>>
      /\ \/ K = L /\ misread' = misread
         \/ K = L + 1 /\ misread' = misread + 1
  BY DEF RowIs
<1>5. /\ section \in opened /\ (current # None => current \in opened) /\ misread \in Nat
      /\ \A i \in DOMAIN parsed : parsed[i].line \in DOMAIN printed
  BY <1>4 DEF CrbTypes
<1>6. /\ current # None => current \notin H
      /\ parsed' # parsed => section \in H \/ current = section
      /\ n # m => section \in H \/ K # 0
      /\ b # a => section \in H /\ parsed' # parsed /\ (section \in Targets => n # m)
  <2>1. current # None => current \notin H
    BY <1>1 DEF Reads
  <2>2. \A q : Append(m, q) # m
    BY <1>2
  <2>3. \A q : Append(parsed, q) # parsed
    BY DEF CrbTypes
  <2> QED BY <2>1, <2>2, <2>3 DEF RowIs
<1>7. Cost(H, K, T)'
  <2>1. /\ H \subseteq opened /\ T \subseteq opened \ {section} /\ L \in Nat
        /\ IsFiniteSet(H) /\ IsFiniteSet(T)
        /\ Cardinality(H) + L + Cardinality(T) + 0 <= misread
    BY <1>1, <1>4 DEF Cost
  <2>2. Cardinality(H) \in Nat /\ Cardinality(T) \in Nat
    BY <2>1, FS_CardinalityType
  <2>3. K \in Nat /\ Cardinality(H) + K + Cardinality(T) + 0 <= misread'
    BY <1>4, <1>5, <2>1, <2>2
  <2> QED BY <1>4, <2>1, <2>3 DEF Cost
<1>8. Missed(H, K, n)'
  <2>1. L # 0 => K # 0
    BY <1>1, <1>4 DEF Cost
  <2>2. \A i \in DOMAIN n : n[i].gl \in opened /\ (n[i].gl \in H \/ K # 0)
    <3> SUFFICES ASSUME NEW i \in DOMAIN n PROVE n[i].gl \in opened /\ (n[i].gl \in H \/ K # 0)
      OBVIOUS
    <3>1. CASE i \in DOMAIN m
      BY <1>1, <1>3, <2>1, <3>1 DEF Missed, RowGrows
    <3>2. CASE i \notin DOMAIN m
      <4>1. n[i].gl = section /\ n # m
        BY <1>3, <3>2 DEF RowGrows
      <4> QED BY <1>5, <1>6, <4>1
    <3> QED BY <3>1, <3>2
  <2> QED BY <1>3, <1>4, <2>2 DEF Missed, RowGrows
<1>9. Added(H, n, b)'
  <2> SUFFICES ASSUME NEW i \in DOMAIN b
               PROVE  /\ b[i].gl \in opened /\ b[i].gl \notin H /\ b[i].from \in H
                      /\ b[i].from \in Targets => \E j \in DOMAIN n : n[j].gl = b[i].from
                      /\ \E k \in DOMAIN parsed' : printed'[parsed'[k].line].gl = b[i].from
    BY <1>3, <1>4 DEF Added, RowGrows
  <2>1. CASE i \in DOMAIN a
    <3>1. /\ b[i] = a[i] /\ a[i].gl \in opened /\ a[i].gl \notin H /\ a[i].from \in H
          /\ a[i].from \in Targets => \E j \in DOMAIN m : m[j].gl = a[i].from
      BY <1>1, <1>3, <2>1 DEF Added, RowGrows
    <3>2. PICK k \in DOMAIN parsed : printed[parsed[k].line].gl = a[i].from
      BY <1>1, <2>1 DEF Added
    <3>3. k \in DOMAIN parsed' /\ printed'[parsed'[k].line].gl = a[i].from
      BY <1>3, <1>5, <3>2 DEF RowGrows
    <3>4. a[i].from \in Targets => \E j \in DOMAIN n : n[j].gl = a[i].from
      BY <1>3, <3>1 DEF RowGrows
    <3> QED BY <3>1, <3>3, <3>4
  <2>2. CASE i \notin DOMAIN a
    <3>1. b[i].gl = current /\ b[i].from = section /\ current # None /\ b # a
      BY <1>3, <2>2 DEF RowGrows
    <3>2. PICK k \in DOMAIN parsed' : k \notin DOMAIN parsed
      BY <1>3, <1>6, <3>1 DEF RowGrows
    <3>3. printed'[parsed'[k].line].gl = section
      BY <1>3, <3>2 DEF RowGrows
    <3>4. section \in Targets => \E j \in DOMAIN n : n[j].gl = section
      BY <1>3, <1>6, <3>1 DEF RowGrows
    <3> QED BY <1>5, <1>6, <3>1, <3>3, <3>4
  <2> QED BY <2>1, <2>2
<1>10. Balanced(n, b)'
  BY <1>1, <1>2, RowBalances
<1>11. Reads(H)'
  BY <1>1, <1>4 DEF Reads
<1>12. ParsedFrom(H, b)'
  <2> SUFFICES ASSUME NEW k \in DOMAIN parsed'
               PROVE  /\ parsed'[k].gl \notin H
                      /\ \/ printed'[parsed'[k].line].gl = parsed'[k].gl
                         \/ \E i \in DOMAIN b : b[i].from = printed'[parsed'[k].line].gl
    BY DEF ParsedFrom
  <2>1. CASE k \in DOMAIN parsed
    <3>1. parsed'[k] = parsed[k] /\ printed'[parsed[k].line] = printed[parsed[k].line]
      BY <1>3, <1>5, <2>1 DEF RowGrows
    <3>2. parsed[k].gl \notin H
      BY <1>1, <2>1 DEF ParsedFrom
    <3>3. \/ printed[parsed[k].line].gl = parsed[k].gl
          \/ \E i \in DOMAIN b : b[i].from = printed[parsed[k].line].gl
      BY <1>1, <1>3, <2>1 DEF ParsedFrom, RowGrows
    <3> QED BY <3>1, <3>2, <3>3
  <2>2. CASE k \notin DOMAIN parsed
    <3>1. /\ parsed'[k].gl = current /\ current # None /\ parsed' # parsed
          /\ printed'[parsed'[k].line].gl = section
      BY <1>3, <2>2 DEF RowGrows
    <3>2. current # section => b # a
      <4>1. \A q : Append(a, q) # a
        BY <1>2
      <4> QED BY <3>1, <4>1 DEF RowIs
    <3>3. b # a => \E i \in DOMAIN b : b[i].from = section
      BY <1>3 DEF RowGrows
    <3> QED BY <1>6, <3>1, <3>2, <3>3
  <2> QED BY <2>1, <2>2
<1>13. PrintedTo(n)'
  <2> SUFFICES ASSUME NEW i \in DOMAIN printed', printed'[i].gl \in Targets
               PROVE  \/ \E k \in DOMAIN parsed' : parsed'[k].line = i
                      \/ \E j \in DOMAIN n : n[j].gl = printed'[i].gl
    BY DEF PrintedTo
  <2>1. CASE i \in DOMAIN printed
    <3>1. printed'[i] = printed[i]
      BY <1>3, <2>1 DEF RowGrows
    <3>2. \/ \E k \in DOMAIN parsed : parsed[k].line = i
          \/ \E j \in DOMAIN m : m[j].gl = printed[i].gl
      BY <1>1, <2>1, <3>1 DEF PrintedTo
    <3> QED BY <1>3, <3>1, <3>2 DEF RowGrows
  <2>2. CASE i = Len(printed) + 1
    <3>1. printed'[i].gl = section /\ section \in Targets
      BY <1>3, <2>2 DEF RowGrows
    <3>2. n # m \/ parsed' # parsed
      <4>1. (\A q : Append(m, q) # m) /\ \A q : Append(parsed, q) # parsed
        BY <1>2 DEF CrbTypes
      <4> QED BY <3>1, <4>1 DEF RowIs
    <3>3. n # m => \E j \in DOMAIN n : n[j].gl = section
      BY <1>3 DEF RowGrows
    <3>4. parsed' # parsed => \E k \in DOMAIN parsed' : parsed'[k].line = i
      BY <1>3, <2>2 DEF RowGrows
    <3> QED BY <3>1, <3>2, <3>3, <3>4
  <2> QED BY <1>3, <2>1, <2>2 DEF RowGrows
<1>14. Totals(T)'
  <2> SUFFICES ASSUME NEW g \in Targets, g \in opened, g # section
               PROVE  Sum(printed', {g}) = Sum(printed, {g})
    BY <1>1, <1>4 DEF Totals
  <2> DEFINE p == [gl |-> section, amt |-> amt]
  <2>1. amt \in Positive /\ section \in Sections /\ printed \in Seq(PrintedRow) /\ printed' = Append(printed, p)
    BY CrbAssumption DEF RowIs, CrbTypes, Positive
  <2>2. p \in PrintedRow /\ Counts(p, {g}) = 0
    BY <2>1 DEF PrintedRow, Counts
  <2> HIDE DEF p
  <2>3. Sum(printed', {g}) = Sum(printed, {g}) + 0
    BY <2>1, <2>2, SumOfMore
  <2>4. Sum(printed, {g}) \in Nat
    BY <2>1, SumAmounts, SumBounds
  <2> QED BY <2>3, <2>4
<1> QED BY <1>7, <1>8, <1>9, <1>10, <1>11, <1>12, <1>13, <1>14 DEF Books

LEMMA RowStep ==
  ASSUME CrbInv, NEW amt \in Amounts, Row(amt)
  PROVE  CrbInv'
<1>1. CrbTypes /\ Verdicts
  BY DEF CrbInv
<1>2. PICK H, L, T, m, a : Books(H, L, T, m, a)
  BY DEF CrbInv
<1> DEFINE r == [gl |-> current, amt |-> amt, line |-> Len(printed) + 1]
           p == [gl |-> section, amt |-> amt]
           c == [gl |-> current, amt |-> amt, from |-> section]
<1>3. /\ verdict = "reading" /\ section # None /\ printed' = Append(printed, p)
      /\ UNCHANGED <<section, opened, current, total, group, verdict>>
  BY DEF Row, Printing
<1>4. \/ parsed' = (IF current = None THEN parsed ELSE Append(parsed, r)) /\ misread' = misread
      \/ misread < MaxMisread /\ misread' = misread + 1 /\ parsed' = parsed
  BY DEF Row, Misread
<1>5. /\ section \in Targets \ H => current = section
      /\ section \in Others \ H => current = None
      /\ section \in Targets \cup Others /\ L \in Nat
  BY <1>1, <1>2, <1>3 DEF Books, Reads, CrbTypes, Sections, Cost
<1>6. Verdicts'
  BY <1>3 DEF Verdicts
<1> DEFINE n0 == IF section \in Targets THEN Append(m, p) ELSE m
<1>7. \E K, n, b : RowIs(amt, H, L, K, m, n, a, b)
  <2>1. CASE misread < MaxMisread /\ misread' = misread + 1 /\ parsed' = parsed
    <3>1. RowIs(amt, H, L, L + 1, m, n0, a, a)
      BY <1>3, <1>5, <2>1 DEF RowIs
    <3> QED BY <3>1
  <2>2. CASE current = None /\ parsed' = parsed /\ misread' = misread
    <3>1. section \in Targets => section \in H
      BY <1>3, <1>5, <2>2
    <3>2. RowIs(amt, H, L, L, m, n0, a, a)
      BY <1>3, <2>2, <3>1 DEF RowIs
    <3> QED BY <3>2
  <2>3. CASE current # None /\ current = section /\ parsed' = Append(parsed, r) /\ misread' = misread
    <3>1. RowIs(amt, H, L, L, m, m, a, a)
      BY <1>3, <2>3 DEF RowIs
    <3> QED BY <3>1
  <2>4. CASE current # None /\ current # section /\ parsed' = Append(parsed, r) /\ misread' = misread
    <3>1. section \in H
      BY <1>5, <2>4
    <3>2. RowIs(amt, H, L, L, m, n0, a, Append(a, c))
      BY <1>3, <2>4, <3>1 DEF RowIs
    <3> QED BY <3>2
  <2> QED BY <1>4, <2>1, <2>2, <2>3, <2>4
<1>8. PICK K, n, b : RowIs(amt, H, L, K, m, n, a, b)
  BY <1>7
<1>9. Books(H, K, T, n, b)'
  BY <1>1, <1>2, <1>8, RowBooks
<1>10. RowGrows(amt, m, n, a, b)
  <2>1. m \in Seq(MissedRow) /\ a \in Seq(AddedRow)
    BY <1>2 DEF Books, Missed, Added
  <2> QED BY <1>1, <1>8, <2>1, RowTypes
<1>11. CrbTypes'
  <2>1. misread' \in 0..MaxMisread
    BY <1>1, <1>4, CrbAssumption DEF CrbTypes
  <2>2. \A i \in DOMAIN printed' : printed'[i].gl \in opened
    BY <1>1, <1>3, <1>10 DEF CrbTypes, RowGrows
  <2>3. \A k \in DOMAIN parsed' : parsed'[k].gl \in opened /\ parsed'[k].line \in DOMAIN printed'
    <3>1. \A k \in DOMAIN parsed : parsed'[k].gl \in opened /\ parsed'[k].line \in DOMAIN printed'
      BY <1>1, <1>10 DEF CrbTypes, RowGrows
    <3>2. \A k \in DOMAIN parsed' \ DOMAIN parsed :
            parsed'[k].gl \in opened /\ parsed'[k].line \in DOMAIN printed'
      BY <1>1, <1>10 DEF CrbTypes, RowGrows
    <3> QED BY <3>1, <3>2
  <2>4. printed' \in Seq(PrintedRow) /\ parsed' \in Seq(ParsedRow)
    BY <1>10 DEF RowGrows
  <2> QED BY <1>1, <1>3, <2>1, <2>2, <2>3, <2>4 DEF CrbTypes
<1> QED BY <1>6, <1>9, <1>11 DEF CrbInv

LEMMA InvSteps ==
  ASSUME CrbInv, [CrbNext]_crbVars
  PROVE  CrbInv'
<1>1. CASE \E g \in Targets \cup Others : SectionHead(g)
  BY <1>1, SectionHeadStep DEF Sections
<1>2. CASE \E amt \in Amounts : Row(amt)
  BY <1>2, RowStep
<1>3. CASE TotalFor
  BY <1>3, TotalForStep
<1>4. CASE GroupTotals
  BY <1>4, GroupTotalsStep
<1>5. CASE Recon
  BY <1>5, ReconStep
<1>6. CASE UNCHANGED crbVars
  <2>1. CrbTypes' /\ Verdicts'
    BY <1>6 DEF CrbInv, CrbTypes, Verdicts, Agree, crbVars
  <2>2. PICK H, L, T, m, a : Books(H, L, T, m, a)
    BY DEF CrbInv
  <2>3. Cost(H, L, T)'
    BY <1>6, <2>2 DEF Books, Cost, crbVars
  <2>4. Books(H, L, T, m, a)'
    BY <1>6, <2>2, <2>3, SameBooks DEF crbVars
  <2> QED BY <2>1, <2>4 DEF CrbInv
<1> QED BY <1>1, <1>2, <1>3, <1>4, <1>5, <1>6 DEF CrbNext

(* Every file has books of what the parser passed over: the rows missed, the *)
(* rows that stand in for others, and the lines that account for them.      *)
THEOREM BooksAreKept == CrbSpec => []CrbInv
<1>1. CrbInv /\ [CrbNext]_crbVars => CrbInv'
  BY InvSteps
<1> QED BY InitBooks, <1>1, PTL DEF CrbSpec

(* A file that was read whole is not refused, whatever it holds.            *)
THEOREM WholeFileIsAccepted == CrbSpec => []WholeFilePasses
<1>1. CrbInv => WholeFilePasses
  <2> SUFFICES ASSUME CrbInv, verdict = "failed" PROVE misread > 0
    BY DEF WholeFilePasses
  <2>1. ~Agree /\ misread \in Nat
    BY DEF CrbInv, Verdicts, CrbTypes
  <2>2. misread # 0
    BY <2>1, WholeFileAgrees
  <2> QED BY <2>1, <2>2
<1> QED BY BooksAreKept, <1>1, PTL

(* Two lines passed over do not hide each other: a file that passes has     *)
(* every row of a target section under its section, unless another          *)
(* section's head was passed over and its rows stand in for those lost.     *)
THEOREM TwoLinesAreCaught ==
  ASSUME MaxMisread <= 2
  PROVE  CrbSpec => []LostRowIsCaught
<1>1. CrbInv => LostRowIsCaught
  BY InvImpliesLostRow
<1> QED BY BooksAreKept, <1>1, PTL
=============================================================================
