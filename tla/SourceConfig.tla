---------------------------- MODULE SourceConfig ----------------------------
(***************************************************************************)
(* The tables the DAGs name, as the code lists them (dags/lib/t24_sources, *)
(* dags/lib/enq_sources, DOMAIN_CONFIGS and each DAG's TABLES), and one    *)
(* business day of what waits for what: every DAG that seals does its      *)
(* tables once, and the builds go when their gates open.  Who waits for a  *)
(* row that nobody seals waits for ever; two DAGs that seal one row share  *)
(* a partition.                                                            *)
(*                                                                         *)
(* A physical name is its prefix and the rest; a bronze table is its       *)
(* catalog, the prefix of its name and the name.                           *)
(***************************************************************************)
EXTENDS Naturals, FiniteSets

-----------------------------------------------------------------------------
(* dags/lib/t24_sources.py                                                  *)

Fbnk(names) == {<<"FBNK_", n>> : n \in names}
F(names)    == {<<"F_", n>> : n \in names}

T24(name)    == <<"bronze", "t24_", name>>
Sftp(name)   == <<"bronze", "", name>>

Override(p) ==
  CASE p = <<"AAFBNK_", "aa093">> -> T24("aa_arr_payment_schedule")
    [] p = <<"AAFBNK_", "aa010">> -> T24("aa_activity_history")
    [] p = <<"AAFBNK_", "aa063">> -> T24("aa_arr_balance_maintenance")
    [] p = <<"AAFBNK_", "aa508">> -> T24("aa_simulation_runner")
    [] p = <<"ACFBNK_", "st002">> -> T24("stmt_entry_detail_xref")
    [] p = <<"ACFBNK_", "ca002">> -> T24("categ_entry_detail_xref")
    [] p = <<"ACFBNK_", "ac009">> -> T24("ac_account_sweep_hist")

KnownPrefixes == {"FBNK_", "F_"}

(* Mutant: the prefix is stripped, whatever it is; no _OVERRIDE.             *)
ResolveByPrefix(p) == T24(p[2])

(* FBNK_ACCOUNT_HIS is overridden for its ss key only: its name is derived.  *)
Resolve(p) == IF p[1] \in KnownPrefixes THEN T24(p[2]) ELSE Override(p)

PullFull ==
  Fbnk({"mcb_group", "aa_product", "currency", "transaction"}) \cup
  F({"ac_stmt_parameter", "archive", "bnctl_cus_dist", "bnctl_cus_subdist", "bnctl_cus_vill",
     "category", "company", "company_sms_group", "dept_acct_officer", "eb_lookup",
     "eb_system_id", "gic_id", "mnemonic_company", "posting_restrict", "user",
     "company_consol"}) \cup
  {<<"AAFBNK_", "aa508">>}

CdcTables ==
  Fbnk({"stmt_entry", "stmt_entry_detail", "categ_entry", "categ_entry_detail",
        "aa_process_details", "acct_activity", "account", "aa_arr_account", "aa_bill_details",
        "customer", "aa_account_details", "pv_asset_detail", "account_statement",
        "aa_arrangement", "ac_locked_events", "funds_transfer", "categ_ent_today",
        "customer_account", "stmt_printed", "aa_arr_customer", "aa_arr_term_amount",
        "account_closed", "acct_stmt_print", "em_lo_application", "ac_sub_account", "teller",
        "acct_ent_today", "em_dl_application", "account_his"}) \cup
  F({"aa_customer_role"}) \cup
  {<<"AAFBNK_", "aa010">>, <<"AAFBNK_", "aa063">>, <<"AAFBNK_", "aa093">>,
   <<"ACFBNK_", "st002">>, <<"ACFBNK_", "ca002">>, <<"ACFBNK_", "ac009">>}

-----------------------------------------------------------------------------
(* dags/lib/enq_sources.py: cdc_dim and cdc_event are one set here.         *)

Enq(division, cdc, pull, sftp) == [division |-> division, cdc |-> cdc, pull |-> pull, sftp |-> sftp]

EnqSources ==
  [t24_acct_cust |-> Enq("operational", {"account", "customer"}, {}, {}),
   t24_ac_gic_close |-> Enq("operational", {"account_closed", "account_his"},
                            {"posting_restrict"}, {}),
   t24_ft_inremit |-> Enq("treasury", {"account", "funds_transfer"}, {}, {}),
   t24_inactive_account_report |-> Enq("aml", {"account", "customer"}, {"company"}, {}),
   t24_no_legal_doc_cus_report |-> Enq("aml", {"account", "customer", "customer_account"},
                                       {"company", "eb_lookup", "gic_id"}, {}),
   t24_daily_txn_9k |-> Enq("aml", {"account", "customer", "acct_activity", "teller", "stmt_entry"},
                            {"transaction", "eb_lookup", "gic_id", "company"}, {}),
   t24_e_account_open |-> Enq("aml", {"account", "customer", "stmt_entry", "stmt_entry_detail",
                                      "stmt_entry_detail_xref"}, {"company", "eb_lookup"}, {}),
   t24_cris_report |-> Enq("credit", {"account", "customer", "aa_account_details",
                                      "aa_arr_payment_schedule", "pv_asset_detail",
                                      "aa_arr_term_amount"}, {"category", "dept_acct_officer"}, {}),
   t24_find_arrangement_al_bnctl |->
     Enq("credit", {"customer", "aa_arrangement", "aa_account_details", "aa_arr_customer",
                    "aa_arr_term_amount", "aa_bill_details", "aa_customer_role",
                    "em_dl_application", "em_lo_application"}, {"aa_product", "mcb_group"}, {}),
   t24_aa_wof_loans_report |->
     Enq("credit", {"customer", "account_his", "aa_arrangement", "aa_arr_account",
                    "aa_arr_customer", "aa_arr_balance_maintenance", "aa_activity_history",
                    "aa_process_details"}, {"aa_product", "mcb_group"}, {}),
   trial_balance_detail |-> Enq("accounting", {}, {}, {"crf_bnctlgl", "crf_bnctlpl"})]

Enqs == DOMAIN EnqSources

SourceSet(e) == {T24(t) : t \in EnqSources[e].cdc \cup EnqSources[e].pull}
                  \cup {Sftp(t) : t \in EnqSources[e].sftp}
CdcUnion  == UNION {EnqSources[e].cdc : e \in Enqs}
PullUnion == UNION {EnqSources[e].pull : e \in Enqs}

-----------------------------------------------------------------------------
(* The tables of each DAG that seals.                                       *)

(* cob_gate: CDC_SOURCES, and the topics it can ask the lag of.              *)
CdcSources == {T24(t) : t \in CdcUnion}
HasTopic(s) == \E p \in CdcTables \cup PullFull : Resolve(p) = s

(* pull_cob: the tables of PULL_FULL that an ENQ pulls.                      *)
PullCobTables == {Resolve(p) : p \in {p \in PullFull : \E t \in PullUnion : Resolve(p) = T24(t)}}

(* sftp_hold: REPORTS.                                                       *)
HoldTables == {Sftp(r) : r \in {"crf_bnctlgl", "crf_bnctlpl", "crb_bnctlgl",
                                "crc_bnctlgl", "crc_bnctlpl"}}

(* Mutant: the tables of the benchmarks are not moved to hive.test.          *)
SameTable(b) == b

TestTable(b) == <<"test", b[2], b[3]>>

(* pull_bulk lists the same tables as CDC_TABLES.                            *)
BulkTables == {TestTable(Resolve(p)) : p \in CdcTables}

FreshTables == {TestTable(Resolve(p)) : p \in PullFull \cup F({"pl_close_dates"})}

JdbcTables == {TestTable(Resolve(p)) : p \in
  Fbnk({"categ_entry", "stmt_entry_detail", "stmt_entry", "categ_entry_detail",
        "aa_process_details"})}

Seals == [cob_gate |-> CdcSources, pull_cob |-> PullCobTables, sftp_hold |-> HoldTables,
          pull_bulk |-> BulkTables, pull_bulk_fresh |-> FreshTables, pull_jdbc |-> JdbcTables]

-----------------------------------------------------------------------------
(* The builds: build_mart over every ENQ, and DOMAIN_CONFIGS.               *)

AllSources == UNION {SourceSet(e) : e \in Enqs}

Silver(division, enqs) == {<<division, e>> : e \in enqs}
Domain(enqs, direct)   == [enqs |-> enqs, direct |-> direct]

DomainConfigs ==
  [demo |-> Domain({}, {T24("account"), T24("customer"), T24("sector"), Sftp("crb_deposits")}),
   operational |-> Domain(Silver("operational", {"t24_acct_cust", "t24_ac_gic_close"}), {}),
   aml |-> Domain(Silver("aml", {"t24_inactive_account_report", "t24_no_legal_doc_cus_report",
                                 "t24_daily_txn_9k", "t24_e_account_open"}), {}),
   credit |-> Domain(Silver("credit", {"t24_cris_report", "t24_find_arrangement_al_bnctl",
                                       "t24_aa_wof_loans_report"}), {}),
   treasury |-> Domain(Silver("treasury", {"t24_ft_inremit"}), {}),
   accounting |-> Domain(Silver("accounting", {"trial_balance_detail"})
                           \cup Silver("credit", {"t24_cris_report"}), {Sftp("crb_bnctlgl")})]

Domains == DOMAIN DomainConfigs

-----------------------------------------------------------------------------
VARIABLES
  dags,   \* the sealing DAGs that have done the day
  silver, \* rows of etl_model_runs that build_mart has set to success
  gold    \* the domains built

configVars == <<dags, silver, gold>>

ConfigInit == dags = {} /\ silver = {} /\ gold = {}

Sealed == UNION {Seals[g] : g \in dags}

(* On the day its tables are idle, so that only a topic lets them pass.      *)
CobGateCanSeal == \A s \in CdcSources : HasTopic(s)

RunDag(g) ==
  /\ g \notin dags
  /\ g = "cob_gate" => CobGateCanSeal
  /\ dags' = dags \cup {g}
  /\ UNCHANGED <<silver, gold>>

(* finish writes the row under the division of the ENQ.                      *)
BuildEnq(e) ==
  /\ AllSources \subseteq Sealed
  /\ <<EnqSources[e].division, e>> \notin silver
  /\ silver' = silver \cup {<<EnqSources[e].division, e>>}
  /\ UNCHANGED <<dags, gold>>

BuildDomain(m) ==
  /\ m \notin gold
  /\ DomainConfigs[m].enqs \subseteq silver /\ DomainConfigs[m].direct \subseteq Sealed
  /\ gold' = gold \cup {m}
  /\ UNCHANGED <<dags, silver>>

ConfigNext == \/ \E g \in DOMAIN Seals : RunDag(g)
              \/ \E e \in Enqs : BuildEnq(e)
              \/ \E m \in Domains : BuildDomain(m)

ConfigSpec == ConfigInit /\ [][ConfigNext]_configVars

-----------------------------------------------------------------------------
(* Properties.                                                              *)

(* When nothing is left to run, every domain is built except demo, which     *)
(* waits for t24_sector and crb_deposits: no gate waits for a source that no *)
(* DAG seals, for an ENQ that build_mart writes under another division, or   *)
(* for an idle table whose topic cob_gate does not know.                     *)
EveryGateOpens ==
  ~ENABLED ConfigNext => gold = Domains \ {"demo"}

(* What a build waits for has one owner: no other DAG writes its row.        *)
OneOwner ==
  \A g, h \in dags : g # h =>
    Seals[g] \cap Seals[h] \cap
      (AllSources \cup UNION {DomainConfigs[m].direct : m \in Domains}) = {}
=============================================================================
