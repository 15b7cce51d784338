------------------------------ MODULE CobMarker ------------------------------
(***************************************************************************)
(* What the DAGs may rely on when they poll cob_done: the marker row       *)
(* BNK/COB.INITIALISE as bronze t24_batch shows it.                        *)
(*                                                                         *)
(* T24 writes the row twice per business day: PROCESS.STATUS leaves 0 when *)
(* the COB of the day starts (1 and 2 are one here: cob_done returns None  *)
(* for both), and returns to 0 when it is over.  The n-th write is n:      *)
(* 2d - 1 says that the COB of day d runs, 2d that day d is closed.  The   *)
(* row bronze shows is the write it was last merged from: it may lag, it   *)
(* may jump over writes, and it never goes back.                           *)
(***************************************************************************)
EXTENDS Naturals

CONSTANT MaxDay    \* bound: business days T24 closes

VARIABLES
  writes,  \* writes of the marker row so far
  shown    \* the write bronze shows, 0: no row

markerVars == <<writes, shown>>

MarkerInit == writes = 0 /\ shown = 0

Write == /\ writes < 2 * MaxDay
         /\ writes' = writes + 1
         /\ UNCHANGED shown

Show == /\ shown' \in (shown + 1)..writes
        /\ UNCHANGED writes

MarkerNext == Write \/ Show

MarkerSpec == MarkerInit /\ [][MarkerNext]_markerVars

(* Each write is shown in the end, or a later one is.                        *)
WritesAreShown ==
  \A n \in 1..(2 * MaxDay) : (writes >= n) ~> (shown >= n)
=============================================================================
