----------------------------- MODULE MCCdcStream -----------------------------
(* A small stream: F_BATCH is routed first, as in cdc-tables.yaml.           *)
EXTENDS CdcStream

CONSTANTS account, r1, r2

MCTables == {account}
MCRoutes == <<BATCH, account>>
MCRecs   == {r1, r2}
MCOneRec == {r1}
=============================================================================
