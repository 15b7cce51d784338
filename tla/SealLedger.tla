----------------------------- MODULE SealLedger -----------------------------
(***************************************************************************)
(* What the three ingest flows promise to whoever asks all_sealed and then *)
(* reads (the readiness contract on top of dags/lib/etl_control.py): one   *)
(* run at a time takes a day that T24 has closed; without force, only a    *)
(* day with an unsealed row.  It reopens, loads and seals the rows of its  *)
(* day, each until it is over with it, and touches nothing else: the data  *)
(* of a sealed row is frozen, as seal says of itself (etl_control.py:64).  *)
(*                                                                         *)
(* cob_gate, pull_cob and sftp_hold implement it, each with its own loop,  *)
(* sensors, files and failures.  A row that is absent and one that is      *)
(* pending are alike here: no reader tells them apart.                     *)
(***************************************************************************)
EXTENDS Naturals

CONSTANTS
  Sources,   \* the bronze tables of the flow
  MaxDay     \* bound: business days T24 closes

VARIABLES
  closed,  \* business days T24 has closed
  sealed,  \* the sealed rows of each day
  data,    \* what a sealed row vouches for: a snapshot, or a partition
  run      \* the day in hand and the sources the run is over with

ledgerVars == <<closed, sealed, data, run>>

NoRun == [d |-> 0, forced |-> FALSE, over |-> {}]

LedgerInit ==
  /\ closed = 0 /\ run = NoRun
  /\ sealed = [d \in 1..MaxDay |-> {}]

CloseDay ==
  /\ closed' = closed + 1
  /\ UNCHANGED <<sealed, data, run>>

(* An unforced run never takes a day that is all sealed.                     *)
Take(d, forced) ==
  /\ run = NoRun /\ d \in 1..closed
  /\ ~forced => sealed[d] # Sources
  /\ run' = [d |-> d, forced |-> forced, over |-> {}]
  /\ UNCHANGED <<closed, sealed, data>>

(* The run is at its end, or has failed.                                     *)
Leave ==
  /\ run' = NoRun
  /\ UNCHANGED <<closed, sealed, data>>

-----------------------------------------------------------------------------
(* The rows of the day in hand.                                              *)
InHand(s) == run # NoRun /\ s \in Sources \ run.over

OnlyRow(s) ==
  \A d \in 1..MaxDay, u \in Sources : (d # run.d \/ u # s) => data'[d][u] = data[d][u]

Reopen(s) ==
  /\ InHand(s)
  /\ sealed' = [sealed EXCEPT ![run.d] = @ \ {s}]
  /\ UNCHANGED <<closed, data, run>>

Load(s) ==
  /\ InHand(s) /\ s \notin sealed[run.d]
  /\ OnlyRow(s)
  /\ UNCHANGED <<closed, sealed, run>>

(* The seal of the last source may be the end of the run.                    *)
SealRow(s) ==
  /\ InHand(s) /\ s \notin sealed[run.d]
  /\ OnlyRow(s)
  /\ sealed' = [sealed EXCEPT ![run.d] = @ \cup {s}]
  /\ \/ run' = [run EXCEPT !.over = @ \cup {s}]
     \/ run.over \cup {s} = Sources /\ run' = NoRun
  /\ UNCHANGED closed

(* A task fails: the row stays as it is, nobody comes back to it.            *)
GiveUp(s) ==
  /\ InHand(s)
  /\ run' = [run EXCEPT !.over = @ \cup {s}]
  /\ UNCHANGED <<closed, sealed, data>>

LedgerNext ==
  \/ CloseDay \/ Leave
  \/ \E d \in 1..MaxDay, forced \in BOOLEAN : Take(d, forced)
  \/ \E s \in Sources : Reopen(s) \/ Load(s) \/ SealRow(s) \/ GiveUp(s)

LedgerSpec == LedgerInit /\ [][LedgerNext]_ledgerVars
=============================================================================
