--------------------------- MODULE MCButtonEvents ---------------------------
(***************************************************************************)
(* The boards and hosts that the run of ButtonEvents model-checks.  Bus    *)
(* resets and requests fall between two events; polls of the host fall     *)
(* anywhere on the full-speed boards.                                      *)
(***************************************************************************)
EXTENDS ButtonEvents

FullSpeedUse(b) ==
    [board |-> b, resets |-> 1, configs |-> 0, pollAnytime |-> TRUE, resetAnytime |-> FALSE]

\* SET_CONFIGURATION again and again: CH592 goes back to DATA0 with the host.
Reconfigured == [FullSpeedUse("CH592") EXCEPT !.configs = 2]

HighSpeedUse(b) ==
    [board |-> b, resets |-> 0, configs |-> 0, pollAnytime |-> FALSE, resetAnytime |-> FALSE]

MCUses ==
    {Reconfigured, FullSpeedUse("CH32L103"), HighSpeedUse("CH585"), HighSpeedUse("CH32V307")}
=============================================================================
