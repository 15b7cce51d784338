----------------------------- MODULE MCSftpHold -----------------------------
(* The marker's table, routed first as in cdc-tables.yaml, and HOLD, routed  *)
(* last; one report, whose file may be written twice or withdrawn.           *)
EXTENDS SftpHold

CONSTANTS crf, r1

MCTables   == {HOLD}
MCRoutes   == <<BATCH, HOLD>>
MCRecs     == {r1}
MCReports  == {crf}
MCReportOf == [r \in MCRecs |-> crf]
=============================================================================
