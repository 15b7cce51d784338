------------------------------ MODULE MCCobGate ------------------------------
(* Two CDC tables, of which one may stay quiet, and the marker's table.      *)
EXTENDS CobGate

CONSTANTS account, customer, r1, r2

MCTables == {account, customer}
MCRoutes == <<BATCH, account, customer>>
MCGateSources == <<account, customer>>
MCOneTable  == {account}
MCOneRoutes == <<BATCH, account>>
MCOneSource == <<account>>
MCRecs   == {r1}
MCTwoRecs == {r1, r2}
=============================================================================
