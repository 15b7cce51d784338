------------------------------ MODULE MCPullCob ------------------------------
(* Two pulled tables, one of each kind of extract.                           *)
EXTENDS PullCob

CONSTANTS company, category

MCTables == {company, category}
MCJdbc   == {category}
=============================================================================
