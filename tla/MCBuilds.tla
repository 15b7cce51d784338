------------------------------ MODULE MCBuilds ------------------------------
(* One CDC source and one HOLD report; an ENQ over each; a domain that reads *)
(* silver and a report (as accounting) and one in bronze mode (as demo).     *)
EXTENDS Builds

CONSTANTS account, crb, cris, trial, accounting, demo

MCSources    == {account, crb}
MCCdc        == {account}
MCEnqs       == {cris, trial}
MCSourceSet  == [e \in MCEnqs |-> IF e = cris THEN {account} ELSE {crb}]
MCDomains    == {accounting, demo}
MCEnqsOf     == [m \in MCDomains |-> IF m = demo THEN {} ELSE {cris, trial}]
MCDirectOf   == [m \in MCDomains |-> IF m = demo THEN {account} ELSE {crb}]
MCOneDomain  == {accounting}
MCOneEnqsOf  == [m \in MCOneDomain |-> {cris}]
MCOneDirect  == [m \in MCOneDomain |-> {crb}]
=============================================================================
