------------------------------ MODULE EventBox ------------------------------
(***************************************************************************)
(* What the button promises the web page: an event for a press, through a  *)
(* box that holds one report.  A press finds the box free, and is reported *)
(* once; or it finds the box in use, or the device not enumerated, and is  *)
(* never reported.  Reports come in the order of the presses.  Only a bus  *)
(* reset takes a report out of the box unread, and none stays in it.       *)
(***************************************************************************)
EXTENDS Integers, Sequences

VARIABLES presses,  \* presses so far, each reported or given up
          linked,   \* the device counts itself enumerated
          resetDue, \* the host has reset the bus, the device has yet to see it
          box,      \* the press whose report waits, or Free or Read
          got       \* the reports the host has

ebVars == <<presses, linked, resetDue, box, got>>

Free == 0   \* nothing waits
Read == -1  \* the host has the report, the device has yet to see that

InitBox ==
    presses = 0 /\ linked = FALSE /\ resetDue = FALSE /\ box = Free /\ got = << >>

Post ==
    /\ linked /\ box = Free
    /\ presses' = presses + 1 /\ box' = presses'
    /\ UNCHANGED <<linked, resetDue, got>>

Refuse ==
    /\ ~linked \/ box # Free
    /\ presses' = presses + 1
    /\ UNCHANGED <<linked, resetDue, box, got>>

\* No report is delivered between a bus reset and its handling.
Deliver ==
    /\ box \notin {Free, Read} /\ ~resetDue
    /\ got' = Append(got, box) /\ box' = Read
    /\ UNCHANGED <<presses, linked, resetDue>>

Clear == box = Read /\ box' = Free /\ UNCHANGED <<presses, linked, resetDue, got>>

Link == linked' = TRUE /\ UNCHANGED <<presses, resetDue, box, got>>

Reset == resetDue' = TRUE /\ UNCHANGED <<presses, linked, box, got>>

Discard ==
    /\ resetDue /\ ~resetDue'
    /\ linked' \in {linked, FALSE} /\ box' = Free
    /\ UNCHANGED <<presses, got>>

BoxNext == Post \/ Refuse \/ Deliver \/ Clear \/ Link \/ Reset \/ Discard

\* The part that says what is reported, and in which order.
BoxOrder == InitBox /\ [][BoxNext]_ebVars

\* No report is the last one.
BoxEmptied == box # Free ~> box = Free

BoxSpec == BoxOrder /\ BoxEmptied
=============================================================================
