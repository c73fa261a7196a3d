---------------------------- MODULE FileDownload ----------------------------
(***************************************************************************)
(* What the file download promises its user: after each accepted request   *)
(* the host receives the packets of the file, first to last, each exactly  *)
(* once, and all of them in the end.  filexfer.h: FileXfer_Start "(re)arms *)
(* EP2 to begin streaming the synthetic file from the beginning".          *)
(***************************************************************************)
EXTENDS Naturals, Sequences

CONSTANT Total      \* packets of the file

VARIABLES reading,  \* a download is in progress
          got       \* the packets received since the last request

fdVars == <<reading, got>>

InitDownload == ~reading /\ got = << >>

\* A request discards what an earlier download has left.
Request == ~reading /\ got' = << >> /\ UNCHANGED reading

Begin == ~reading /\ got = << >> /\ reading' = TRUE /\ UNCHANGED got

Deliver ==
    /\ reading
    /\ got' = Append(got, Len(got))
    /\ reading' = (Len(got') < Total)

DownloadNext == Request \/ Begin \/ Deliver

\* Fairness of Deliver, said of its effect.
DownloadEnds == reading ~> ~reading

\* The part that says what is received, and in which order.
DownloadOrder == InitDownload /\ [][DownloadNext]_fdVars

DownloadSpec == DownloadOrder /\ DownloadEnds
=============================================================================
