----------------------------- MODULE MCEp2Ring -----------------------------
(***************************************************************************)
(* The hosts that the runs of Ep2Ring model-check.                         *)
(***************************************************************************)
EXTENDS Ep2Ring

\* It finishes what it starts; configurations and resets fall between
\* downloads, glitches anywhere.  Packets with the wrong toggle go unanswered.
Orderly ==
    [start |-> 2, reopen |-> 0, config |-> 1, reset |-> 1, lostack |-> 0,
     aborts |-> FALSE, mismatchAcked |-> FALSE, prompt |-> TRUE]

\* The same, but it re-opens the device between downloads.
Reopening == [Orderly EXCEPT !.reopen = 2, !.reset = 0]

\* Its handshakes may be lost.
Lossy == [Orderly EXCEPT !.start = 1, !.config = 0, !.reset = 0, !.lostack = 2,
                         !.mismatchAcked = TRUE]

MCHosts == {Orderly, Reopening, Lossy}
=============================================================================
