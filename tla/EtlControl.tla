----------------------------- MODULE EtlControl -----------------------------
(***************************************************************************)
(* The control table of dags/lib/etl_control.py, as operators on its value.*)
(*                                                                         *)
(* A table is a function [Days -> [Sources -> Row]]: the primary key of    *)
(* etl_control is (business_date, source_table), so a row is either absent *)
(* (status "none") or unique.  Each operator is one SQL statement: the     *)
(* PostgresHook commits each of them on its own, so the DAGs interleave    *)
(* between two calls and never inside one.  Column flow is a function of   *)
(* the source and is left out; sealed_at is written and never read.        *)
(***************************************************************************)
EXTENDS Naturals, FiniteSets

CONSTANT Null          \* SQL NULL

(* A key that has no row yet: every column reads as NULL.                  *)
NoRow == [status   |-> "none", l_cob  |-> Null, snapshot |-> Null,
          expected |-> Null,   actual |-> Null]

COALESCE(new, old) == IF new = Null THEN old ELSE new

(* INSERT ... ON CONFLICT DO UPDATE SET status = 'pending': the statement   *)
(* reopens a sealed row, and keeps the snapshot the row already carries.    *)
OpenPending(table, d, s, lcob) ==
  [table EXCEPT ![d][s] =
     [table[d][s] EXCEPT !.status = "pending",
                         !.l_cob  = COALESCE(lcob, table[d][s].l_cob)]]

(* INSERT ... ON CONFLICT DO UPDATE SET status = 'sealed', each payload     *)
(* column keeping its old value when the new one is NULL.                   *)
Seal(table, d, s, snap, expected, actual) ==
  [table EXCEPT ![d][s] =
     [table[d][s] EXCEPT !.status   = "sealed",
                         !.snapshot = COALESCE(snap, table[d][s].snapshot),
                         !.expected = COALESCE(expected, table[d][s].expected),
                         !.actual   = COALESCE(actual, table[d][s].actual)]]

SealedRows(table, d, sources) == {s \in sources : table[d][s].status = "sealed"}

(* The number of sealed rows among the sources is the number of sources.    *)
AllSealed(table, d, sources) ==
  Cardinality(SealedRows(table, d, sources)) = Cardinality(sources)

(* {source_table: iceberg_snapshot_id} of the sealed rows that carry one.   *)
SealedSnapshots(table, d, sources) ==
  [s \in {s \in SealedRows(table, d, sources) : table[d][s].snapshot # Null}
     |-> table[d][s].snapshot]
=============================================================================
