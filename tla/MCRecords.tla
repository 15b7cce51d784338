------------------------------ MODULE MCRecords ------------------------------
(* Layouts with what STANDARD.SELECTION has: aliases of a position, names    *)
(* that collide once sanitised, local fields named like others; contents     *)
(* with a multi-value left out, a blank, and sub-values.                     *)
EXTENDS Records

CONSTANTS v1, v2, r1, r2

MCRecs == {r1, r2}
MCOneRec == {r1}
MCSymmetry == Permutations(MCRecs)

MCSanitize == [n \in {"TITLE", "SHORT.TITLE", "SHORT-TITLE", "LIMIT", LocalRef}
                 |-> IF n = "SHORT-TITLE" THEN "SHORT.TITLE" ELSE n]

Def(n, t, p, m) == [name |-> n, type |-> t, pos |-> p, multi |-> m]
Loc(n, m) == [name |-> n, mv |-> m]

MCLayouts == {
  [sys |-> <<Def("TITLE", "D", 1, FALSE), Def("LIMIT", "D", 1, TRUE),
             Def("SHORT.TITLE", "D", 2, TRUE), Def("LIMIT", "I", 0, FALSE)>>,
   usr |-> << >>],
  [sys |-> <<Def("SHORT.TITLE", "D", 1, FALSE), Def("SHORT-TITLE", "D", 2, TRUE),
             Def(LocalRef, "D", 3, TRUE)>>,
   usr |-> <<Loc("SHORT.TITLE", 1), Loc("SHORT-TITLE", 2)>>],
  [sys |-> <<Def("TITLE", "D", 1, FALSE), Def("LIMIT", "D", 2, TRUE),
             Def(LocalRef, "D", 3, TRUE)>>,
   usr |-> <<Loc("TITLE", 1), Loc("LIMIT", 2)>>] }

MCXmls == {
  Malformed,
  [c \in {<<1, 1, 1>>, <<2, 2, 1>>} |-> v1],
  [c \in {<<1, 1, 1>>, <<2, 1, 1>>, <<2, 3, 1>>, <<3, 2, 1>>}
     |-> IF c = <<2, 1, 1>> THEN Blank ELSE IF c[1] = 1 THEN v1 ELSE v2],
  [c \in {<<1, 1, 1>>, <<3, 1, 1>>, <<3, 2, 1>>, <<3, 2, 2>>}
     |-> IF c[3] = 2 THEN v2 ELSE v1] }
=============================================================================
