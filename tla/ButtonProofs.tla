---------------------------- MODULE ButtonProofs ----------------------------
(***************************************************************************)
(* Proofs about the button and its event endpoint, for every board, number *)
(* of samples and bound on what the host does.                             *)
(***************************************************************************)
EXTENDS ButtonEvents, SequenceTheorems, FiniteSetTheorems, TLAPS

(***************************************************************************)
(* Types.                                                                  *)
(***************************************************************************)

LEMMA TypeInit == Init => TypeOK
<1> SUFFICES ASSUME Init PROVE TypeOK
  OBVIOUS
<1>1. CountMax \in Nat
  BY ConstantsAssumption
<1>2. samples \in Seq({0, 1}) /\ got \in Seq(Nat)
  BY DEF Init
<1>3. use \in Uses /\ {stable, candidate} \subseteq {0, 1} /\ {epTog, ctrlCopy, hostTog} \subseteq {0, 1}
  BY DEF Init
<1>4. {txBusy, endpBusy, devEnum, resetInt, configured} \subseteq BOOLEAN
  BY Zenon DEF Init
<1>5. count \in 0 .. CountMax /\ presses \in Nat /\ epBuf \in Nat /\ resets \in Nat /\ configs \in Nat
  BY <1>1 DEF Init, Torn
<1>6. /\ pc = "idle" /\ epRes = "NAK" /\ xferInt = "none"
  BY DEF Init
<1> QED
  BY <1>2, <1>3, <1>4, <1>5, <1>6 DEF TypeOK

LEMMA TypeStep == TypeOK /\ [Next]_vars => TypeOK'
<1> SUFFICES ASSUME TypeOK, [Next]_vars PROVE TypeOK'
  OBVIOUS
<1> USE DEF TypeOK
<1>1. ASSUME NEW v \in {0, 1}, PollTask(v) PROVE TypeOK'
  <2>1. count' \in 0 .. CountMax
    BY <1>1, ConstantsAssumption DEF PollTask, Counted
  <2>2. samples' \in Seq({0, 1}) /\ stable' \in {0, 1} /\ candidate' \in {0, 1} /\ presses' \in Nat
    BY <1>1 DEF PollTask
  <2>3. pc' \in {"idle", "test"}
    BY <1>1 DEF PollTask
  <2> QED
    BY <1>1, <2>1, <2>2, <2>3 DEF PollTask, epVars, busVars
<1>2. CASE Send
  <2>1. pc' \in {"idle", "test", "copy", "copied", "busyFirst", "load", "store", "busyLast"}
    BY <1>2 DEF Send, SendTest, SendCopy, SendCopied, SendBusy, SendLoad, SendArm
  <2>2. epBuf' \in Nat /\ epRes' \in {"ACK", "NAK"} /\ epTog' \in {0, 1} /\ ctrlCopy' \in {0, 1}
    BY <1>2 DEF Send, SendTest, SendCopy, SendCopied, SendBusy, SendLoad, SendArm, epVars, Torn
  <2>4. txBusy' \in BOOLEAN /\ endpBusy' \in BOOLEAN
    <3>1. txBusy \in BOOLEAN /\ endpBusy \in BOOLEAN
      BY Zenon
    <3>2. txBusy' \in {txBusy, TRUE} /\ endpBusy' \in {endpBusy, ~FullSpeed}
      BY <1>2, Zenon DEF Send, SendTest, SendCopy, SendCopied, SendBusy, SendLoad, SendArm, epVars
    <3> HIDE DEF TypeOK
    <3> QED
      BY <3>1, <3>2, Zenon DEF FullSpeed
  <2>3. UNCHANGED <<use, debounceVars, busVars>>
    BY <1>2 DEF Send, SendTest, SendCopy, SendCopied, SendBusy, SendLoad, SendArm
  <2> QED
    BY <2>1, <2>2, <2>3, <2>4 DEF debounceVars, busVars
<1>3. CASE Isr
  <2>1. /\ txBusy' \in BOOLEAN /\ endpBusy' \in BOOLEAN /\ devEnum' \in BOOLEAN
        /\ resetInt' \in BOOLEAN /\ configured' \in BOOLEAN
    BY <1>3 DEF Isr, IsrIn, IsrConfig, IsrLinkReady, IsrReset, epVars
  <2>2. /\ epRes' \in {"ACK", "NAK"} /\ epTog' \in {0, 1} /\ xferInt' \in {"none", "in", "config"}
        /\ UNCHANGED <<use, debounceVars, pc, ctrlCopy, epBuf, hostTog, got, resets, configs>>
    BY <1>3 DEF Isr, IsrIn, IsrConfig, IsrLinkReady, IsrReset, epVars
  <2> QED
    BY <2>1, <2>2 DEF debounceVars
<1>4. CASE HostConfigure \/ BusReset
  <2>1. xferInt' \in {"none", "in", "config"} /\ hostTog' \in {0, 1} /\ resets' \in Nat /\ configs' \in Nat
    BY <1>4 DEF HostConfigure, BusReset
  <2>2. resetInt' \in BOOLEAN /\ configured' \in BOOLEAN
    BY <1>4, Zenon DEF HostConfigure, BusReset
  <2>3. UNCHANGED <<use, debounceVars, pc, ctrlCopy, epVars, devEnum, got>>
    BY <1>4 DEF HostConfigure, BusReset
  <2> QED
    BY <2>1, <2>2, <2>3 DEF debounceVars, epVars
<1>5. CASE HostTake
  <2>1. got' \in Seq(Nat)
    BY <1>5 DEF HostTake
  <2> QED
    BY <1>5, <2>1 DEF HostTake, debounceVars, epVars
<1>6. CASE UNCHANGED vars
  BY <1>6 DEF vars, debounceVars, epVars, busVars
<1> QED
  BY <1>1, <1>2, <1>3, <1>4, <1>5, <1>6 DEF Next

\* Every variable keeps its type: the count of equal samples stays within its
\* byte, the numbers of the boards' states and of the endpoint within theirs.
THEOREM TypeCorrect == Spec => []TypeOK
<1> QED
  BY TypeInit, TypeStep, PTL DEF Spec

(***************************************************************************)
(* Events.                                                                 *)
(***************************************************************************)

\* Bus resets and requests do not fall into USBD_EP1_SendData.
Calm == \A u \in Uses : ~u.resetAnytime

\* EP1 is armed only by a main loop that has found it free, and counts as busy
\* from then on; while it is being filled nothing else arms it.
BufOK ==
    /\ ~use.resetAnytime
    /\ xferInt = "in" => epRes = "ACK"
    /\ epRes = "ACK" => txBusy \/ pc = "busyLast"
    /\ pc \in Sending => epRes = "NAK"
    /\ pc \in {"load", "store"} /\ FullSpeed => txBusy
    /\ pc # "idle" => ~resetInt /\ xferInt # "config"

\* What is armed is a press later than all that the host has got, and what is
\* being sent is the latest press of all.
SentOK ==
    /\ pc # "idle" => presses > 0
    /\ pc \in {"busyFirst", "load", "store"} => epBuf = presses
    /\ epRes = "ACK" => epBuf # Torn /\ epBuf <= presses
    /\ epRes = "ACK" /\ pc = "test" => epBuf < presses

GotOK ==
    \A i \in 1 .. Len(got) :
        /\ got[i] <= presses
        /\ pc \in Sending \cup {"test"} => got[i] < presses
        /\ epRes = "ACK" /\ xferInt # "in" => got[i] < epBuf

WholeOK == SentOK /\ GotOK

LEMMA BufInit == Calm /\ Init => BufOK
  BY DEF Calm, Init, BufOK, Sending

LEMMA BufStep == TypeOK /\ BufOK /\ [Next]_vars => BufOK'
<1> SUFFICES ASSUME TypeOK, BufOK, [Next]_vars PROVE BufOK'
  OBVIOUS
<1> USE DEF BufOK, FullSpeed, Sending
<1>1. ASSUME NEW v \in {0, 1}, PollTask(v) PROVE BufOK'
  BY <1>1 DEF PollTask, BusQuiet, epVars, busVars
<1>2. CASE SendTest
  <2>1. /\ pc = "test" /\ pc' \in {"idle", "copy"} /\ (pc' = "copy" => ~txBusy)
        /\ UNCHANGED <<use, txBusy, epRes, xferInt, resetInt>>
    BY <1>2 DEF SendTest, epVars, busVars
  <2>2. pc' = "copy" => epRes = "NAK"
    BY <2>1 DEF TypeOK
  <2> QED
    BY <2>1, <2>2
<1>3. CASE SendCopy \/ SendCopied \/ SendBusy \/ SendLoad \/ SendArm
  BY <1>3 DEF SendCopy, SendCopied, SendBusy, SendLoad, SendArm, epVars, busVars, BusyBeforeArm
<1>4. CASE Isr
  BY <1>4 DEF Isr, IsrIn, IsrConfig, IsrLinkReady, IsrReset, epVars
<1>5. CASE HostConfigure \/ BusReset \/ HostTake
  BY <1>5 DEF HostConfigure, BusReset, HostTake, SendOver, epVars, BusQuiet
<1>6. CASE UNCHANGED vars
  BY <1>6 DEF vars, epVars, busVars
<1> QED
  BY <1>1, <1>2, <1>3, <1>4, <1>5, <1>6 DEF Next, Send

LEMMA EventsInit == Init => WholeOK /\ EventsWhole
<1> SUFFICES ASSUME Init PROVE WholeOK /\ EventsWhole
  OBVIOUS
<1>1. Len(got) = 0
  BY DEF Init
<1> QED
  BY <1>1 DEF Init, WholeOK, SentOK, GotOK, EventsWhole, Sending

LEMMA EventsStep ==
    TypeOK /\ BufOK /\ WholeOK /\ EventsWhole /\ [Next]_vars => WholeOK' /\ EventsWhole'
<1> SUFFICES ASSUME TypeOK, BufOK, WholeOK, EventsWhole, [Next]_vars
             PROVE  WholeOK' /\ EventsWhole'
  OBVIOUS
<1>0. /\ presses \in Nat /\ epBuf \in Nat /\ Len(got) \in Nat /\ epRes \in {"ACK", "NAK"}
      /\ \A i \in 1 .. Len(got) : got[i] \in Nat
  BY DEF TypeOK
<1>1. ASSUME NEW v \in {0, 1}, PollTask(v) PROVE WholeOK' /\ EventsWhole'
  <2>1. /\ presses' \in {presses, presses + 1} /\ pc' \in {"idle", "test"}
        /\ pc' = "test" => presses' = presses + 1
        /\ UNCHANGED <<epBuf, epRes, xferInt, got>>
    BY <1>1 DEF PollTask, epVars, busVars
  <2> QED
    BY <1>0, <2>1 DEF WholeOK, SentOK, GotOK, EventsWhole, Sending
<1>2. CASE Send
  <2>1. UNCHANGED <<presses, xferInt, got>>
    BY <1>2 DEF Send, SendTest, SendCopy, SendCopied, SendBusy, SendLoad, SendArm, debounceVars, busVars
  <2>2. EventsWhole'
    BY <2>1 DEF EventsWhole
  <2>3. CASE SendTest
    <3>1. pc = "test" /\ pc' \in {"idle", "copy"} /\ epBuf' = epBuf /\ epRes' = epRes
      BY <2>3 DEF SendTest, epVars
    <3>4. SentOK'
      BY <1>0, <2>1, <3>1 DEF WholeOK, SentOK, Sending
    <3>5. GotOK'
      BY <1>0, <2>1, <3>1 DEF WholeOK, GotOK, Sending
    <3> QED
      BY <2>2, <3>4, <3>5 DEF WholeOK
  <2>4. CASE SendCopy \/ SendCopied
    <3>1. epRes = "NAK" /\ epRes' = "NAK" /\ pc \in {"copy", "copied"}
      BY <2>4 DEF BufOK, SendCopy, SendCopied, Sending
    <3>2. pc' \in {"copied", "busyFirst", "load"} /\ (pc' # "copied" => epBuf' = presses)
      BY <2>4 DEF SendCopy, SendCopied
    <3>4. SentOK'
      BY <1>0, <2>1, <3>1, <3>2 DEF WholeOK, SentOK, Sending
    <3>5. GotOK'
      BY <1>0, <2>1, <3>1, <3>2 DEF WholeOK, GotOK, Sending
    <3> QED
      BY <2>2, <3>4, <3>5 DEF WholeOK
  <2>5. CASE SendBusy \/ SendLoad
    <3>1. epBuf' = epBuf /\ epRes' = epRes
      BY <2>5 DEF SendBusy, SendLoad, epVars
    <3>2. \/ pc \in {"busyFirst", "load"} /\ pc' \in {"load", "store"}
          \/ pc = "busyLast" /\ pc' = "idle"
      BY <2>5 DEF SendBusy, SendLoad
    <3>4. SentOK'
      BY <1>0, <2>1, <3>1, <3>2 DEF WholeOK, SentOK, Sending
    <3>5. GotOK'
      BY <1>0, <2>1, <3>1, <3>2 DEF WholeOK, GotOK, Sending
    <3> QED
      BY <2>2, <3>4, <3>5 DEF WholeOK
  <2>6. CASE SendArm
    <3>1. pc = "store" /\ pc' \in {"idle", "busyLast"} /\ epBuf' = epBuf
      BY <2>6 DEF SendArm
    <3>2. epBuf = presses /\ presses > 0 /\ \A i \in 1 .. Len(got) : got[i] < presses
      BY <3>1 DEF WholeOK, SentOK, GotOK, Sending
    <3>4. SentOK'
      BY <1>0, <2>1, <3>1, <3>2 DEF WholeOK, SentOK, Sending, Torn
    <3>5. GotOK'
      BY <1>0, <2>1, <3>1, <3>2 DEF WholeOK, GotOK, Sending
    <3> QED
      BY <2>2, <3>4, <3>5 DEF WholeOK
  <2> QED
    BY <1>2, <2>2, <2>3, <2>4, <2>5, <2>6 DEF Send
<1>3. CASE Isr
  <2>1. /\ UNCHANGED <<presses, pc, epBuf, got>>
        /\ xferInt = "in" \/ epRes' = "NAK" \/ (epRes' = epRes /\ xferInt # "in")
        /\ xferInt = "in" => epRes' = "NAK" \/ xferInt' = "in"
        /\ epRes' = "ACK" => epRes = "ACK"
    BY <1>3 DEF Isr, IsrIn, IsrConfig, IsrLinkReady, IsrReset, epVars, debounceVars
  <2> QED
    BY <1>0, <2>1 DEF WholeOK, SentOK, GotOK, EventsWhole
<1>4. CASE HostConfigure \/ BusReset
  <2>1. UNCHANGED <<presses, pc, epBuf, epRes, got>> /\ (xferInt = "in" => xferInt' = "in")
    BY <1>4 DEF HostConfigure, BusReset, BusQuiet, epVars, debounceVars
  <2> QED
    BY <2>1 DEF WholeOK, SentOK, GotOK, EventsWhole
<1>5. CASE HostTake
  <2>1. /\ epRes = "ACK" /\ xferInt # "in" /\ xferInt' = "in" /\ got' = Append(got, epBuf)
        /\ UNCHANGED <<presses, pc, epBuf, epRes>>
    BY <1>5 DEF HostTake, BusQuiet, epVars, debounceVars
  <2>2. pc \notin Sending /\ epBuf # Torn /\ epBuf <= presses /\ (pc = "test" => epBuf < presses)
    BY <2>1 DEF BufOK, WholeOK, SentOK, GotOK
  <2>3. /\ Len(got') = Len(got) + 1 /\ got'[Len(got) + 1] = epBuf
        /\ \A i \in 1 .. Len(got) : got'[i] = got[i] /\ got[i] < epBuf /\ got[i] # Torn
    BY <2>1 DEF TypeOK, WholeOK, SentOK, GotOK, EventsWhole
  <2>4. EventsWhole'
    BY <1>0, <2>2, <2>3 DEF EventsWhole
  <2>5. ASSUME NEW i \in 1 .. Len(got') PROVE got'[i] <= presses /\ (pc = "test" => got'[i] < presses)
    BY <1>0, <2>2, <2>3 DEF WholeOK, SentOK, GotOK
  <2> QED
    BY <2>1, <2>2, <2>4, <2>5 DEF WholeOK, SentOK, GotOK
<1>6. CASE UNCHANGED vars
  BY <1>6 DEF vars, debounceVars, epVars, busVars, WholeOK, SentOK, GotOK, EventsWhole
<1> QED
  BY <1>1, <1>2, <1>3, <1>4, <1>5, <1>6 DEF Next

\* Whatever the host polls and how often it resets or configures between two
\* events, every event it gets is whole and later than those before: the buffer
\* of EP1 is never rewritten under an armed packet.
THEOREM EventsStayWhole == Calm => (Spec => []EventsWhole)
<1> SUFFICES ASSUME Calm PROVE Spec => []EventsWhole
  OBVIOUS
<1> DEFINE Inv == TypeOK /\ BufOK /\ WholeOK /\ EventsWhole
<1>1. Init => Inv
  BY TypeInit, BufInit, EventsInit
<1>2. Inv /\ [Next]_vars => Inv'
  BY TypeStep, BufStep, EventsStep
<1>3. Inv => EventsWhole
  OBVIOUS
<1> QED
  BY <1>1, <1>2, <1>3, PTL DEF Spec

(***************************************************************************)
(* The busy flag and the toggle.                                           *)
(***************************************************************************)

\* Moreover a second SET_CONFIGURATION comes only where the driver goes back to
\* DATA0 with the host, and bus resets and polls inside USBD_EP1_SendData only
\* where the flag is set before the endpoint is armed.
Kept ==
    \A u \in Uses :
        /\ ~u.resetAnytime
        /\ u.board # "CH592" => u.configs = 0
        /\ u.board \notin {"CH592", "CH32L103"} => u.resets = 0 /\ ~u.pollAnytime

KeptUse ==
    /\ ~use.resetAnytime
    /\ ~ConfigResetsToggle => use.configs = 0
    /\ ~FullSpeed => use.resets = 0 /\ ~use.pollAnytime

\* Host and endpoint agree on the toggle except from a packet, a request or a
\* reset to the interrupt that serves it.
ToggleOK ==
    /\ resetInt => ~configured /\ hostTog = 0
    /\ ~configured /\ xferInt = "none" => hostTog = 0 /\ (~resetInt => epTog = 0)
    /\ ~resetInt /\ xferInt = "none" => epTog = hostTog
    /\ ~resetInt /\ xferInt = "in" => configured /\ epTog # hostTog
    /\ xferInt = "config" =>
          hostTog = 0 /\ (ConfigResetsToggle \/ resetInt \/ (~configured /\ epTog = 0))
    /\ pc = "store" => ctrlCopy = epTog

\* The flag means a packet that waits or is about to be armed; a high-speed
\* board sends with the bus at rest.
BusyOK ==
    /\ txBusy => epRes = "ACK" \/ pc \in {"load", "store"}
    /\ pc = "busyLast" => ~FullSpeed /\ epRes = "ACK"
    /\ pc = "busyFirst" => FullSpeed
    /\ ~FullSpeed => ~resetInt /\ (pc # "idle" => xferInt = "none")

LEMMA KeptInit == Kept /\ Init => KeptUse /\ ToggleOK /\ BusyOK
<1> SUFFICES ASSUME Kept, Init PROVE KeptUse /\ ToggleOK /\ BusyOK
  OBVIOUS
<1>1. use \in Uses /\ pc = "idle" /\ ~txBusy /\ epTog = 0 /\ xferInt = "none" /\ ~resetInt /\ hostTog = 0
  BY DEF Init
<1> QED
  BY <1>1 DEF Kept, KeptUse, ToggleOK, BusyOK, FullSpeed, ConfigResetsToggle

LEMMA KeptStep ==
    TypeOK /\ BufOK /\ KeptUse /\ ToggleOK /\ BusyOK /\ [Next]_vars
        => KeptUse' /\ ToggleOK' /\ BusyOK'
<1> SUFFICES ASSUME TypeOK, BufOK, KeptUse, ToggleOK, BusyOK, [Next]_vars
             PROVE  KeptUse' /\ ToggleOK' /\ BusyOK'
  OBVIOUS
<1>a. /\ epTog \in {0, 1} /\ hostTog \in {0, 1} /\ resets \in Nat /\ configs \in Nat
      /\ xferInt \in {"none", "in", "config"}
  BY DEF TypeOK
<1>b. use' = use
  BY DEF Next, PollTask, Send, SendTest, SendCopy, SendCopied, SendBusy, SendLoad, SendArm,
         Isr, IsrIn, IsrConfig, IsrLinkReady, IsrReset, HostConfigure, BusReset, HostTake, vars
<1>c. KeptUse' /\ FullSpeed' = FullSpeed /\ ConfigResetsToggle' = ConfigResetsToggle
  BY <1>b DEF KeptUse, FullSpeed, ConfigResetsToggle
<1>1. ASSUME NEW v \in {0, 1}, PollTask(v) PROVE ToggleOK' /\ BusyOK'
  <2>1. /\ pc = "idle" /\ pc' \in {"idle", "test"} /\ xferInt = "none"
        /\ UNCHANGED <<ctrlCopy, epVars, busVars>>
    BY <1>1 DEF PollTask, KeptUse, BusQuiet
  <2> QED
    BY <2>1, <1>c DEF ToggleOK, BusyOK, epVars, busVars
<1>2. CASE SendTest \/ SendCopy
  <2>1. /\ pc \in {"test", "copy"} /\ pc' \in {"idle", "copy", "copied"}
        /\ UNCHANGED <<ctrlCopy, txBusy, epRes, epTog, busVars>>
    BY <1>2 DEF SendTest, SendCopy, epVars
  <2> QED
    BY <2>1, <1>c DEF ToggleOK, BusyOK, busVars
<1>3. CASE SendCopied
  <2>1. /\ pc = "copied" /\ pc' = IF FullSpeed THEN "busyFirst" ELSE "load"
        /\ UNCHANGED <<ctrlCopy, txBusy, epRes, epTog, busVars>>
    BY <1>3 DEF SendCopied, BusyBeforeArm
  <2> QED
    BY <2>1, <1>c DEF ToggleOK, BusyOK, busVars
<1>4. CASE SendBusy
  <2>1. /\ (pc = "busyFirst" /\ pc' = "load") \/ (pc = "busyLast" /\ pc' = "idle")
        /\ UNCHANGED <<ctrlCopy, epRes, epTog, busVars>>
    BY <1>4 DEF SendBusy
  <2> QED
    BY <2>1, <1>c DEF ToggleOK, BusyOK, busVars
<1>5. CASE SendLoad
  <2>1. pc = "load" /\ pc' = "store" /\ ctrlCopy' = epTog /\ UNCHANGED <<epVars, busVars>>
    BY <1>5 DEF SendLoad
  <2> QED
    BY <2>1, <1>c DEF ToggleOK, BusyOK, epVars, busVars
<1>6. CASE SendArm
  <2>1. /\ pc = "store" /\ pc' = IF FullSpeed THEN "idle" ELSE "busyLast"
        /\ epRes' = "ACK" /\ epTog' = ctrlCopy
        /\ UNCHANGED <<ctrlCopy, txBusy, busVars>>
    BY <1>6 DEF SendArm, BusyBeforeArm
  <2> QED
    BY <2>1, <1>c DEF ToggleOK, BusyOK, busVars
<1>7. CASE IsrIn
  <2>1. /\ xferInt = "in" /\ xferInt' = "none" /\ epTog' = 1 - epTog /\ ~txBusy'
        /\ UNCHANGED <<pc, ctrlCopy, resetInt, configured, hostTog>>
    BY <1>7 DEF IsrIn
  <2>2. pc \notin {"load", "store", "busyLast"}
    BY <2>1 DEF BufOK, BusyOK, Sending
  <2> QED
    BY <2>1, <2>2, <1>a, <1>c DEF ToggleOK, BusyOK
<1>8. CASE IsrConfig
  <2>1. /\ xferInt = "config" /\ xferInt' = "none" /\ (configured' <=> ~resetInt)
        /\ epTog' = (IF ConfigResetsToggle THEN 0 ELSE epTog)
        /\ UNCHANGED <<pc, ctrlCopy, txBusy, epRes, resetInt, hostTog>>
    BY <1>8 DEF IsrConfig
  <2>2. pc = "idle"
    BY <2>1 DEF BufOK
  <2> QED
    BY <2>1, <2>2, <1>a, <1>c DEF ToggleOK, BusyOK
<1>9. CASE IsrLinkReady
  BY <1>9, <1>c DEF IsrLinkReady, ToggleOK, BusyOK, epVars
<1>10. CASE IsrReset
  <2>1. /\ xferInt = "none" /\ resetInt /\ ~resetInt' /\ epTog' = 0 /\ (txBusy' => ~FullSpeed)
        /\ UNCHANGED <<pc, ctrlCopy, xferInt, configured, hostTog>>
    BY <1>10 DEF IsrReset
  <2>2. pc = "idle" /\ FullSpeed
    BY <2>1 DEF BufOK, BusyOK
  <2> QED
    BY <2>1, <2>2, <1>c DEF ToggleOK, BusyOK
<1>11. CASE HostConfigure
  <2>1. /\ pc = "idle" /\ xferInt = "none" /\ ~resetInt /\ xferInt' = "config" /\ hostTog' = 0
        /\ configured => ConfigResetsToggle
        /\ UNCHANGED <<pc, ctrlCopy, txBusy, epRes, epTog, resetInt, configured>>
    BY <1>11, <1>a DEF HostConfigure, BusQuiet, SendOver, KeptUse, epVars
  <2> QED
    BY <2>1, <1>c DEF ToggleOK, BusyOK
<1>12. CASE BusReset
  <2>1. /\ pc = "idle" /\ FullSpeed /\ resetInt' /\ ~configured' /\ hostTog' = 0
        /\ UNCHANGED <<pc, ctrlCopy, txBusy, epRes, epTog, xferInt>>
    BY <1>12, <1>a DEF BusReset, SendOver, KeptUse, epVars
  <2> QED
    BY <2>1, <1>c DEF ToggleOK, BusyOK
<1>13. CASE HostTake
  <2>1. /\ configured /\ xferInt = "none" /\ ~resetInt /\ (FullSpeed \/ pc = "idle")
        /\ epTog = hostTog /\ hostTog' = 1 - hostTog /\ xferInt' = "in"
        /\ UNCHANGED <<pc, ctrlCopy, txBusy, epRes, epTog, resetInt, configured>>
    BY <1>13 DEF HostTake, BusQuiet, SendOver, KeptUse, epVars
  <2> QED
    BY <2>1, <1>a, <1>c DEF ToggleOK, BusyOK
<1>14. CASE UNCHANGED vars
  BY <1>14, <1>c DEF vars, epVars, busVars, ToggleOK, BusyOK
<1> QED
  BY <1>c, <1>1, <1>2, <1>3, <1>4, <1>5, <1>6, <1>7, <1>8, <1>9, <1>10, <1>11, <1>12, <1>13, <1>14
     DEF Next, Send, Isr

\* USBD_EP1_SendData never refuses an event for nothing: with the bus at rest, a
\* flag that is set stands for a packet that the host will accept.
THEOREM RefusalIsJustified == Kept => (Spec => []RefusesForAReason)
<1> SUFFICES ASSUME Kept PROVE Spec => []RefusesForAReason
  OBVIOUS
<1> DEFINE Inv == TypeOK /\ BufOK /\ KeptUse /\ ToggleOK /\ BusyOK
<1>1. Init => Inv
  BY TypeInit, BufInit, KeptInit DEF Kept, Calm
<1>2. Inv /\ [Next]_vars => Inv'
  BY TypeStep, BufStep, KeptStep
<1>3. Inv => RefusesForAReason
  BY DEF RefusesForAReason, ToggleOK, BusyOK, BusQuiet
<1> QED
  BY <1>1, <1>2, <1>3, PTL DEF Spec

(***************************************************************************)
(* The box of one report.                                                  *)
(***************************************************************************)

\* A press that is tested was made with the device enumerated, and the busy flag
\* that the library keeps stands for a packet too.
LinkOK ==
    /\ pc = "test" => devEnum
    /\ endpBusy => epRes = "ACK" \/ pc \in {"load", "store"}

LEMMA LinkStep ==
    TypeOK /\ BufOK /\ BusyOK /\ LinkOK /\ [Next]_vars => LinkOK'
<1> SUFFICES ASSUME TypeOK, BufOK, BusyOK, LinkOK, [Next]_vars PROVE LinkOK'
  OBVIOUS
<1>1. ASSUME NEW v \in {0, 1}, PollTask(v) PROVE LinkOK'
  <2>1. /\ pc = "idle" /\ pc' \in {"idle", "test"} /\ (pc' = "test" => devEnum)
        /\ UNCHANGED <<endpBusy, epRes, devEnum>>
    BY <1>1, Zenon DEF PollTask, epVars, busVars
  <2> QED
    BY <2>1 DEF LinkOK
<1>2. CASE SendTest \/ SendCopy \/ SendBusy \/ SendLoad
  <2>1. /\ pc' # "test" /\ UNCHANGED <<endpBusy, epRes, devEnum>>
        /\ pc \in {"load", "store"} => pc' = "store"
    BY <1>2 DEF SendTest, SendCopy, SendBusy, SendLoad, epVars, busVars
  <2> QED
    BY <2>1 DEF LinkOK
<1>3. CASE SendCopied
  <2>1. pc' # "test" /\ endpBusy' = ~FullSpeed /\ (~FullSpeed => pc' = "load")
    BY <1>3 DEF SendCopied, BusyBeforeArm
  <2> QED
    BY <2>1 DEF LinkOK
<1>4. CASE SendArm
  BY <1>4 DEF SendArm, LinkOK
<1>5. CASE IsrIn \/ IsrReset
  <2>1. ~endpBusy' /\ (IsrReset => pc' # "test") /\ pc' = pc /\ (IsrIn => devEnum' = devEnum)
    BY <1>5 DEF IsrIn, IsrReset, BufOK
  <2> QED
    BY <1>5, <2>1 DEF LinkOK
<1>6. CASE IsrConfig \/ IsrLinkReady
  <2>1. devEnum' /\ UNCHANGED <<pc, endpBusy, epRes>>
    BY <1>6 DEF IsrConfig, IsrLinkReady, epVars
  <2> QED
    BY <2>1 DEF LinkOK
<1>7. CASE HostConfigure \/ BusReset \/ HostTake \/ UNCHANGED vars
  <2>1. UNCHANGED <<pc, endpBusy, epRes, devEnum>>
    BY <1>7 DEF HostConfigure, BusReset, HostTake, vars, epVars, busVars
  <2> QED
    BY <2>1 DEF LinkOK
<1> QED
  BY <1>1, <1>2, <1>3, <1>4, <1>5, <1>6, <1>7 DEF Next, Send, Isr

LEMMA BoxInit == Init => Box!InitBox
  BY DEF Init, Box!InitBox, Box!Free, Decided, Waiting, Sending

\* A poll of the button gives a press up where the device is not enumerated.
LEMMA BoxPoll ==
    ASSUME TypeOK, NEW v \in {0, 1}, PollTask(v)
    PROVE  Box!Refuse \/ UNCHANGED Box!ebVars
<1>1. /\ pc = "idle" /\ UNCHANGED <<epBuf, epRes, devEnum, xferInt, resetInt, got>>
  BY DEF PollTask, epVars, busVars
<1>2. /\ pc' = IF presses' # presses /\ devEnum THEN "test" ELSE "idle"
      /\ presses \in Nat /\ presses' \in {presses, presses + 1}
  BY DEF PollTask, TypeOK
<1>3. Waiting' = Waiting
  BY <1>1, <1>2 DEF Waiting, Sending
<1>4. CASE pc' = "test" \/ presses' = presses
  <2>1. pc' = "test" => presses' = presses + 1
    BY <1>2
  <2>2. pc' # "test" => presses' = presses
    BY <1>4
  <2>3. Decided = presses /\ Decided' = IF pc' = "test" THEN presses' - 1 ELSE presses'
    BY <1>1 DEF Decided
  <2>4. CASE pc' = "test"
    <3>1. Decided = presses /\ Decided' = presses' - 1 /\ presses' = presses + 1 /\ presses \in Nat
      BY <1>2, <2>1, <2>3, <2>4
    <3>2. Decided' = Decided
      BY <3>1
    <3> QED
      BY <1>1, <1>3, <3>2 DEF Box!ebVars
  <2>5. CASE pc' # "test"
    <3>1. Decided' = Decided
      BY <2>2, <2>3, <2>5
    <3> QED
      BY <1>1, <1>3, <3>1 DEF Box!ebVars
  <2> QED
    BY <2>4, <2>5
<1>5. CASE pc' = "idle" /\ presses' = presses + 1
  <2>1. Decided' = Decided + 1
    BY <1>1, <1>5 DEF Decided
  <2>2. ~devEnum
    BY <1>2, <1>5
  <2> QED
    BY <1>1, <1>3, <2>1, <2>2 DEF Box!Refuse
<1> QED
  BY <1>2, <1>4, <1>5

\* Where the busy flag is tested the press is posted in a free box or refused by
\* a full one; the copy, the flags and the control byte leave the box as it is.
LEMMA BoxSend ==
    ASSUME TypeOK, BufOK, SentOK, BusyOK, LinkOK, Send
    PROVE  Box!Post \/ Box!Refuse \/ UNCHANGED Box!ebVars
<1>0. /\ presses \in Nat /\ epBuf \in Nat /\ epRes \in {"ACK", "NAK"}
      /\ xferInt \in {"none", "in", "config"}
  BY DEF TypeOK
<1>a. UNCHANGED <<presses, devEnum, xferInt, resetInt, got>>
  BY DEF Send, SendTest, SendCopy, SendCopied, SendBusy, SendLoad, SendArm, debounceVars, busVars
<1>1. CASE SendTest
  <2>1. /\ pc = "test" /\ epBuf' = epBuf /\ epRes' = epRes
        /\ pc' = IF txBusy \/ (use.board = "CH32V307" /\ endpBusy) THEN "idle" ELSE "copy"
    BY <1>1 DEF SendTest, epVars
  <2>2. devEnum /\ (txBusy \/ endpBusy => epRes = "ACK") /\ (epRes = "ACK" => txBusy)
    BY <2>1 DEF LinkOK, BufOK, BusyOK
  <2>3. Decided' = Decided + 1
    BY <1>0, <1>a, <2>1 DEF Decided
  <2>4. CASE pc' = "idle"
    <3>1. epRes = "ACK" /\ epBuf # 0
      BY <2>1, <2>2, <2>4 DEF SentOK, Torn
    <3>2. Waiting # 0 /\ Waiting' = Waiting
      BY <1>0, <1>a, <2>1, <2>4, <3>1 DEF Waiting, Sending
    <3> QED
      BY <1>a, <2>3, <3>2 DEF Box!Refuse, Box!Free
  <2>5. CASE pc' = "copy"
    <3>1. epRes = "NAK" /\ xferInt # "in"
      BY <1>0, <2>1, <2>2, <2>5 DEF BufOK
    <3>2. Waiting = 0 /\ Waiting' = presses
      BY <1>a, <2>1, <2>5, <3>1 DEF Waiting, Sending
    <3>3. Decided' = presses
      BY <1>a, <2>5 DEF Decided
    <3> QED
      BY <1>a, <2>2, <2>3, <3>2, <3>3 DEF Box!Post, Box!Free
  <2> QED
    BY <2>1, <2>4, <2>5
<1>2. CASE SendCopy \/ SendCopied \/ SendLoad
  <2>1. pc \in Sending /\ pc' \in Sending
    BY <1>2 DEF SendCopy, SendCopied, SendLoad, Sending
  <2>2. pc # "test" /\ pc' # "test"
    BY <2>1 DEF Sending
  <2>3. Waiting' = Waiting
    BY <1>a, <2>1 DEF Waiting, Sending
  <2>4. Decided' = Decided
    BY <1>a, <2>2 DEF Decided
  <2> QED
    BY <1>a, <2>3, <2>4 DEF Box!ebVars
<1>3. CASE SendBusy \/ SendArm
  <2>1. CASE SendBusy
    <3>1. /\ UNCHANGED <<epBuf, epRes>>
          /\ \/ pc = "busyFirst" /\ pc' = "load"
             \/ pc = "busyLast" /\ pc' = "idle"
      BY <2>1 DEF SendBusy
    <3>2. Waiting' = Waiting
      BY <1>a, <3>1 DEF Waiting, Sending
    <3>3. Decided' = Decided
      BY <1>a, <3>1 DEF Decided
    <3> QED
      BY <1>a, <3>2, <3>3 DEF Box!ebVars
  <2>2. CASE SendArm
    <3>1. pc = "store" /\ pc' \in {"idle", "busyLast"} /\ epRes' = "ACK" /\ epBuf' = epBuf
      BY <2>2 DEF SendArm
    <3>2. epBuf = presses
      BY <3>1 DEF SentOK
    <3>3. Waiting' = Waiting
      BY <1>a, <3>1, <3>2 DEF Waiting, Sending
    <3>4. Decided' = Decided
      BY <1>a, <3>1 DEF Decided
    <3> QED
      BY <1>a, <3>3, <3>4 DEF Box!ebVars
  <2> QED
    BY <1>3, <2>1, <2>2
<1> QED
  BY <1>1, <1>2, <1>3 DEF Send

\* The interrupt frees the box when the host has the report, and empties it on a
\* bus reset.
LEMMA BoxIsr ==
    ASSUME TypeOK, BufOK, Isr
    PROVE  Box!Clear \/ Box!Link \/ Box!Discard
<1>0. UNCHANGED <<presses, pc, epBuf, got>>
  BY DEF Isr, IsrIn, IsrConfig, IsrLinkReady, IsrReset, epVars, debounceVars
<1>1. Decided' = Decided
  BY <1>0 DEF Decided
<1>2. CASE IsrIn
  <2>1. /\ xferInt = "in" /\ xferInt' = "none" /\ epRes' = "NAK"
        /\ UNCHANGED <<devEnum, resetInt>>
    BY <1>2 DEF IsrIn
  <2>2. pc \notin Sending
    BY <2>1 DEF BufOK
  <2>3. Waiting = -1 /\ Waiting' = 0
    BY <1>0, <2>1, <2>2 DEF Waiting, Sending
  <2> QED
    BY <1>0, <1>1, <2>1, <2>3 DEF Box!Clear, Box!Read, Box!Free
<1>3. CASE IsrConfig \/ IsrLinkReady
  <2>1. /\ devEnum' = TRUE /\ resetInt' = resetInt /\ epRes' = epRes
        /\ xferInt' = xferInt \/ (xferInt = "config" /\ xferInt' = "none")
    BY <1>3 DEF IsrConfig, IsrLinkReady, epVars
  <2>2. Waiting' = Waiting
    BY <1>0, <2>1 DEF Waiting, Sending
  <2> QED
    BY <1>0, <1>1, <2>1, <2>2 DEF Box!Link
<1>4. CASE IsrReset
  <2>1. /\ xferInt = "none" /\ xferInt' = "none" /\ resetInt /\ ~resetInt' /\ epRes' = "NAK"
    BY <1>4 DEF IsrReset
  <2>2. devEnum' \in {devEnum, FALSE}
    <3>1. /\ devEnum \in BOOLEAN /\ devEnum' \in BOOLEAN
          /\ devEnum' <=> devEnum /\ use.board = "CH585"
      BY <1>4, Zenon DEF IsrReset, TypeOK
    <3> QED
      BY <3>1, Zenon
  <2>3. pc \notin Sending
    BY <2>1 DEF BufOK, Sending
  <2>4. Waiting' = 0
    BY <1>0, <2>1, <2>3 DEF Waiting, Sending
  <2> QED
    BY <1>0, <1>1, <2>1, <2>2, <2>4 DEF Box!Discard, Box!Free
<1> QED
  BY <1>2, <1>3, <1>4 DEF Isr

\* The host takes the report that waits, and no other.
LEMMA BoxHost ==
    ASSUME TypeOK, BufOK, SentOK, HostConfigure \/ BusReset \/ HostTake
    PROVE  Box!Deliver \/ Box!Reset \/ UNCHANGED Box!ebVars
<1>0. UNCHANGED <<presses, pc, epBuf, epRes, devEnum>>
  BY DEF HostConfigure, BusReset, HostTake, epVars, debounceVars
<1>1. Decided' = Decided
  BY <1>0 DEF Decided
<1>2. CASE HostConfigure \/ BusReset
  <2>1. /\ got' = got
        /\ resetInt' = resetInt \/ resetInt' = TRUE
        /\ xferInt' = xferInt \/ (xferInt = "none" /\ xferInt' = "config")
    BY <1>2, Zenon DEF HostConfigure, BusReset, BusQuiet
  <2>2. Waiting' = Waiting
    BY <1>0, <2>1 DEF Waiting, Sending
  <2> QED
    BY <1>0, <1>1, <2>1, <2>2 DEF Box!Reset, Box!ebVars
<1>3. CASE HostTake
  <2>1. /\ xferInt = "none" /\ xferInt' = "in" /\ ~resetInt /\ resetInt' = resetInt
        /\ epRes = "ACK" /\ got' = Append(got, epBuf)
    BY <1>3 DEF HostTake, BusQuiet
  <2>2. pc \notin Sending /\ epBuf \in Nat /\ epBuf # 0
    BY <2>1 DEF BufOK, SentOK, Torn, TypeOK
  <2>3. Waiting = epBuf /\ Waiting' = -1
    BY <2>1, <2>2 DEF Waiting
  <2> QED
    BY <1>0, <1>1, <2>1, <2>2, <2>3 DEF Box!Deliver, Box!Read, Box!Free
<1> QED
  BY <1>2, <1>3

\* What the button, the send function, the interrupt and the host do to the flags,
\* the toggles and the buffer is what the box of one report allows: a press is
\* refused only by a report under way, no other is lost but to a bus reset, and
\* none reaches the host twice.
THEOREM EventsBoxed == Kept => (Spec => Box!BoxOrder)
<1> SUFFICES ASSUME Kept PROVE Spec => Box!BoxOrder
  OBVIOUS
<1> DEFINE Inv ==
      /\ TypeOK /\ BufOK /\ WholeOK /\ EventsWhole
      /\ KeptUse /\ ToggleOK /\ BusyOK /\ LinkOK
<1>1. Init => Inv
  <2>1. Init => LinkOK
    BY DEF Init, LinkOK
  <2> QED
    BY <2>1, TypeInit, BufInit, EventsInit, KeptInit DEF Kept, Calm
<1>2. Inv /\ [Next]_vars => Inv'
  BY TypeStep, BufStep, EventsStep, KeptStep, LinkStep
<1>3. Inv /\ [Next]_vars => [Box!BoxNext]_(Box!ebVars)
  <2> SUFFICES ASSUME Inv, [Next]_vars PROVE Box!BoxNext \/ UNCHANGED Box!ebVars
    BY DEF Box!ebVars
  <2> USE DEF WholeOK, Box!BoxNext
  <2>1. ASSUME NEW v \in {0, 1}, PollTask(v) PROVE Box!BoxNext \/ UNCHANGED Box!ebVars
    BY <2>1, BoxPoll
  <2>2. CASE Send
    BY <2>2, BoxSend
  <2>3. CASE Isr
    BY <2>3, BoxIsr
  <2>4. CASE HostConfigure \/ BusReset \/ HostTake
    BY <2>4, BoxHost
  <2>5. CASE UNCHANGED vars
    BY <2>5 DEF vars, debounceVars, epVars, busVars, Box!ebVars, Decided, Waiting
  <2> QED
    BY <2>1, <2>2, <2>3, <2>4, <2>5 DEF Next
<1> QED
  BY <1>1, <1>2, <1>3, BoxInit, PTL DEF Spec, Box!BoxOrder

(***************************************************************************)
(* The debounce.                                                           *)
(***************************************************************************)

\* The count says how many samples agreed last, up to its limit; the reading at
\* start is not counted.
RunOK ==
    LET n == Len(samples)
    IN  /\ n > 0 /\ candidate = samples[n]
        /\ count < n /\ (n > 1 => count > 0)
        /\ \A i \in n - count + 1 .. n : samples[i] = candidate
        /\ count < CountMax /\ count < n - 1 => samples[n - count] # candidate

StableOK == \A b \in {0, 1} : StableAs(b, Len(samples)) <=> stable = b

LEMMA DebounceInit == Init => RunOK /\ StableOK /\ PressesDebounced
<1> SUFFICES ASSUME Init PROVE RunOK /\ StableOK /\ PressesDebounced
  OBVIOUS
<1>1. Len(samples) = 1 /\ samples[1] = stable /\ candidate = stable /\ count = 0 /\ presses = 0
  BY DEF Init
<1>2. RunOK
  BY <1>1 DEF RunOK
<1>3. StableOK
  BY <1>1 DEF StableOK, StableAs
<1>4. Falls = {}
  BY <1>1 DEF Falls
<1> QED
  BY <1>1, <1>2, <1>3, <1>4, FS_EmptySet DEF PressesDebounced

\* What a sample adds to the history, and what it leaves.
LEMMA SampleAdded ==
    ASSUME TypeOK, NEW v \in {0, 1}, PollTask(v)
    PROVE  /\ Len(samples) \in Nat /\ Len(samples') = Len(samples) + 1
           /\ DOMAIN samples' = 1 .. Len(samples) + 1 /\ DOMAIN samples = 1 .. Len(samples)
           /\ samples'[Len(samples) + 1] = v
           /\ \A i \in 1 .. Len(samples) : samples'[i] = samples[i] /\ samples[i] \in {0, 1}
  BY DEF TypeOK, PollTask

LEMMA RunStep == ASSUME TypeOK, RunOK, NEW v \in {0, 1}, PollTask(v), NEW n \in Nat, n = Len(samples) PROVE RunOK'
<1>1. /\ StableSamples \in Nat \ {0} /\ CountMax \in Nat /\ CountMax >= StableSamples /\ count \in 0 .. CountMax
  BY ConstantsAssumption DEF TypeOK
<1>2. candidate' = v /\ count' = IF v # candidate THEN 1 ELSE IF count < CountMax THEN count + 1 ELSE count
  BY DEF PollTask, Counted
<1>3. /\ n > 0 /\ candidate = samples[n] /\ count < n /\ (n > 1 => count > 0)
      /\ \A i \in n - count + 1 .. n : samples[i] = candidate
      /\ count < CountMax /\ count < n - 1 => samples[n - count] # candidate
  BY DEF RunOK
<1>4. /\ n \in Nat /\ Len(samples') = n + 1 /\ samples'[n + 1] = v
      /\ \A i \in 1 .. n : samples'[i] = samples[i]
  BY SampleAdded
<1>5. /\ count' < n + 1 /\ count' > 0
      /\ \A i \in n + 1 - count' + 1 .. n + 1 : samples'[i] = v
  BY <1>1, <1>2, <1>3, <1>4
<1>6. count' < CountMax /\ count' < n => samples'[n + 1 - count'] # v
  BY <1>1, <1>2, <1>3, <1>4
<1> QED
  BY <1>2, <1>4, <1>5, <1>6 DEF RunOK

\* The pin settles with a sample exactly when the count reaches StableSamples.
LEMMA SettlesWhenCounted ==
    ASSUME TypeOK, RunOK, NEW v \in {0, 1}, PollTask(v), NEW n \in Nat, n = Len(samples)
    PROVE  Settled(n + 1)' <=> Counted(v) >= StableSamples
<1>1. /\ StableSamples \in Nat \ {0} /\ CountMax \in Nat /\ CountMax >= StableSamples /\ count \in 0 .. CountMax
  BY ConstantsAssumption DEF TypeOK
<1>3. /\ n > 0 /\ candidate = samples[n] /\ count < n
      /\ \A i \in n - count + 1 .. n : samples[i] = candidate
      /\ count < CountMax /\ count < n - 1 => samples[n - count] # candidate
  BY DEF RunOK
<1>4. /\ n \in Nat /\ DOMAIN samples' = 1 .. n + 1 /\ samples'[n + 1] = v
      /\ \A i \in 1 .. n : samples'[i] = samples[i]
  BY SampleAdded
<1>5. Settled(n + 1)' <=>
         n + 1 > StableSamples /\ \A i \in n + 1 - StableSamples + 1 .. n + 1 : samples'[i] = v
  BY <1>1, <1>4 DEF Settled
<1>6. CASE v # candidate
  <2>1. Counted(v) = 1
    BY <1>6 DEF Counted
  <2>2. samples'[n] # v
    BY <1>3, <1>4, <1>6
  <2> QED
    BY <1>1, <1>3, <1>4, <1>5, <2>1, <2>2
<1>7. CASE v = candidate
  <2>1. Counted(v) = IF count < CountMax THEN count + 1 ELSE count
    BY <1>7 DEF Counted
  <2>2. \A i \in n - count + 1 .. n + 1 : samples'[i] = v
    BY <1>1, <1>3, <1>4, <1>7
  <2>3. ASSUME Counted(v) >= StableSamples PROVE Settled(n + 1)'
    BY <1>1, <1>3, <1>4, <1>5, <2>1, <2>2, <2>3
  <2>4. ASSUME Counted(v) < StableSamples, n + 1 > StableSamples
        PROVE  n - count \in n + 1 - StableSamples + 1 .. n + 1 /\ samples'[n - count] # v
    BY <1>1, <1>3, <1>4, <1>7, <2>1, <2>4
  <2> QED
    BY <1>1, <1>5, <2>1, <2>3, <2>4
<1> QED
  BY <1>6, <1>7

\* What the earlier samples amount to stays.
LEMMA HistoryStays ==
    ASSUME TypeOK, NEW v \in {0, 1}, PollTask(v), NEW n \in Nat, n = Len(samples),
           NEW b \in {0, 1}, NEW m \in 1 .. n
    PROVE  (Settled(m)' <=> Settled(m)) /\ (StableAs(b, m)' <=> StableAs(b, m))
<1>1. /\ n \in Nat /\ DOMAIN samples' = 1 .. n + 1 /\ DOMAIN samples = 1 .. n
      /\ \A i \in 1 .. n : samples'[i] = samples[i]
  BY SampleAdded
<1>2. StableSamples \in Nat \ {0}
  BY ConstantsAssumption
<1>3. ASSUME NEW k \in 1 .. n PROVE Settled(k)' <=> Settled(k)
  BY <1>1, <1>2 DEF Settled
<1>4. StableAs(b, m)' <=> StableAs(b, m)
  BY <1>1, <1>3 DEF StableAs
<1> QED
  BY <1>3, <1>4

LEMMA StableStep ==
    ASSUME TypeOK, RunOK, StableOK, NEW v \in {0, 1}, PollTask(v), NEW n \in Nat, n = Len(samples)
    PROVE  StableOK'
<1>1. /\ n \in Nat /\ n > 0 /\ Len(samples') = n + 1 /\ samples'[n + 1] = v
  BY SampleAdded DEF RunOK
<1>2. stable' = IF Settled(n + 1)' THEN v ELSE stable
  BY SettlesWhenCounted DEF PollTask
<1>3. ASSUME NEW b \in {0, 1} PROVE StableAs(b, n + 1)' <=> stable' = b
  <2>1. CASE Settled(n + 1)'
    BY <1>1, <1>2, <2>1 DEF StableAs
  <2>2. CASE ~Settled(n + 1)'
    <3>1. StableAs(b, n + 1)' <=> StableAs(b, n)'
      BY <1>1, <2>2 DEF StableAs
    <3>2. StableAs(b, n)' <=> StableAs(b, n)
      BY <1>1, HistoryStays
    <3> QED
      BY <1>2, <2>2, <3>1, <3>2 DEF StableOK
  <2> QED
    BY <2>1, <2>2
<1> QED
  BY <1>1, <1>3 DEF StableOK

LEMMA PressesStep ==
    ASSUME TypeOK, RunOK, StableOK, PressesDebounced, NEW v \in {0, 1}, PollTask(v),
           NEW n \in Nat, n = Len(samples)
    PROVE  PressesDebounced'
<1>1. /\ n \in Nat /\ n > 0 /\ Len(samples') = n + 1
  BY SampleAdded DEF RunOK
<1>2. presses' = IF stable = 1 /\ stable' = 0 THEN presses + 1 ELSE presses
  BY DEF PollTask
<1>3. StableOK'
  BY StableStep
<1>4. (StableAs(1, n)' <=> stable = 1) /\ (StableAs(0, n + 1)' <=> stable' = 0)
  BY <1>1, <1>3, HistoryStays DEF StableOK
<1>5. \A m \in 2 .. n :
         (StableAs(1, m - 1)' <=> StableAs(1, m - 1)) /\ (StableAs(0, m)' <=> StableAs(0, m))
  BY <1>1, HistoryStays
<1>6. Falls' = IF stable = 1 /\ stable' = 0 THEN Falls \cup {n + 1} ELSE Falls
  <2>1. Falls = {m \in 2 .. n : StableAs(1, m - 1) /\ StableAs(0, m)}
    BY DEF Falls
  <2>2. Falls' = {m \in 2 .. n + 1 : StableAs(1, m - 1)' /\ StableAs(0, m)'}
    BY <1>1 DEF Falls
  <2> QED
    BY <1>1, <1>4, <1>5, <2>1, <2>2
<1>7. IsFiniteSet(Falls) /\ n + 1 \notin Falls
  <2>1. Falls \in SUBSET (2 .. n) /\ n + 1 \notin Falls
    BY <1>1 DEF Falls
  <2>2. IsFiniteSet(2 .. n)
    BY FS_Interval
  <2> QED
    BY <2>1, <2>2, FS_Subset
<1> QED
  BY <1>2, <1>6, <1>7, FS_AddElement DEF PressesDebounced

LEMMA DebounceStep ==
    TypeOK /\ RunOK /\ StableOK /\ PressesDebounced /\ [Next]_vars
        => RunOK' /\ StableOK' /\ PressesDebounced'
<1> SUFFICES ASSUME TypeOK, RunOK, StableOK, PressesDebounced, [Next]_vars
             PROVE  RunOK' /\ StableOK' /\ PressesDebounced'
  OBVIOUS
<1>1. ASSUME NEW v \in {0, 1}, PollTask(v) PROVE RunOK' /\ StableOK' /\ PressesDebounced'
  <2>1. Len(samples) \in Nat
    BY DEF TypeOK
  <2> QED
    BY <1>1, <2>1, RunStep, StableStep, PressesStep
<1>2. CASE UNCHANGED debounceVars
  BY <1>2 DEF debounceVars, RunOK, StableOK, PressesDebounced, Falls, StableAs, Settled
<1>3. CASE UNCHANGED vars
  BY <1>2, <1>3 DEF vars
<1> QED
  BY <1>1, <1>2, <1>3
     DEF Next, Send, SendTest, SendCopy, SendCopied, SendBusy, SendLoad, SendArm,
         Isr, IsrIn, IsrConfig, IsrLinkReady, IsrReset, HostConfigure, BusReset, HostTake

\* However the pin bounces and however long the button is held, the presses are
\* those of the samples: the counter that stops at its limit loses none of them.
THEOREM PressesAreDebounced == Spec => []PressesDebounced
<1> DEFINE Inv == TypeOK /\ RunOK /\ StableOK /\ PressesDebounced
<1>1. Init => Inv
  BY TypeInit, DebounceInit
<1>2. Inv /\ [Next]_vars => Inv'
  BY TypeStep, DebounceStep
<1>3. Inv => PressesDebounced
  OBVIOUS
<1> QED
  BY <1>1, <1>2, <1>3, PTL DEF Spec
=============================================================================
