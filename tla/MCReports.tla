----------------------------- MODULE MCReports ------------------------------
(* Five programs that share no state: a run takes one of them, and the other *)
(* four stay where they start, with one value of strict and of engine.  The  *)
(* GL parser job and the drafts only read the folders, and do not meet: the  *)
(* folders are filled with the one or with the other.                        *)
EXTENDS GLReport, CrbReport, AccountingDrafts, OperationFiles, SourceConfig

CONSTANTS A, B, C, X, demand, time, acc1, acc2, m1, m2

MCGroups  == {demand, time}
MCGroupOf == [g \in {A, B, C} |-> IF g = C THEN time ELSE demand]

(* Two files of one month, one of another, one without a date.               *)
MCMonthOf == <<m1, m1, m2, Undated>>

MCVars == <<glVars, crbVars, accVars, draftVars, opVars, configVars>>

MCInit == GLInit /\ CrbInit /\ AccInit /\ DraftInit /\ OpInit /\ ConfigInit

(* The parameters the machines start with matter to their own steps only.    *)
Spark == strict /\ engine = "spark"

MCNext ==
  \/ /\ CrbInit /\ AccInit /\ DraftInit /\ OpInit /\ Spark /\ ConfigInit
     /\ GLNext /\ UNCHANGED <<crbVars, accVars, draftVars, opVars, configVars>>
  \/ /\ GLInit /\ AccInit /\ DraftInit /\ OpInit /\ Spark /\ ConfigInit
     /\ CrbNext /\ UNCHANGED <<glVars, accVars, draftVars, opVars, configVars>>
  \/ /\ GLInit /\ CrbInit /\ DraftInit /\ OpInit /\ Spark /\ ConfigInit
     /\ AccNext /\ UNCHANGED <<glVars, crbVars, draftVars, opVars, configVars>>
  \/ /\ GLInit /\ CrbInit /\ OpInit /\ strict /\ ConfigInit /\ loaded = [d \in Dates |-> {}]
     /\ DraftNext /\ loaded' = loaded /\ UNCHANGED <<glVars, crbVars, opVars, configVars>>
  \/ /\ GLInit /\ CrbInit /\ AccInit /\ DraftInit /\ engine = "spark" /\ ConfigInit
     /\ OpNext /\ UNCHANGED <<glVars, crbVars, accVars, draftVars, configVars>>
  \/ /\ GLInit /\ CrbInit /\ AccInit /\ DraftInit /\ OpInit /\ Spark
     /\ ConfigNext /\ UNCHANGED <<glVars, crbVars, accVars, draftVars, opVars>>

MCSpec == MCInit /\ [][MCNext]_MCVars
=============================================================================
