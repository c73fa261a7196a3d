----------------------------- MODULE MCRowXfer -----------------------------
(***************************************************************************)
(* The boards and hosts that the run of RowXfer model-checks: hosts that   *)
(* finish what they start, and that never outrun the pump.                 *)
(***************************************************************************)
EXTENDS RowXfer

\* CH585; resets and CLEAR_FEATURE between downloads.
Single ==
    [start |-> 2, reopen |-> 0, clear |-> 1, reset |-> 1,
     aborts |-> FALSE, pumpAhead |-> TRUE, doubleBuffer |-> FALSE]

\* CH585, re-opened between downloads.
Reopened == [Single EXCEPT !.reopen = 2, !.clear = 0, !.reset = 0]

\* CH32V307; four downloads in a row, each of which finds what the last one left.
Double == [Single EXCEPT !.start = 4, !.clear = 0, !.doubleBuffer = TRUE]

MCUses == {Single, Reopened, Double}
=============================================================================
