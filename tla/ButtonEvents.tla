---------------------------- MODULE ButtonEvents ----------------------------
(***************************************************************************)
(* The button and its event endpoint: the debounced poll and the event of  *)
(* button.c, USBD_EP1_SendData and the EP1 part of the USB interrupt, on   *)
(* the four boards.  The boards agree on button.c and differ in the        *)
(* drivers: when USBD_EP1_TxBusy is set, and what a bus reset and          *)
(* SET_CONFIGURATION do to it and to the data toggle.                      *)
(*                                                                         *)
(* The main loop runs Button_PollTask and USBD_EP1_SendData one store at a *)
(* time; the interrupt and the host's polls come in between.  An event is  *)
(* the number of the press it reports.                                     *)
(***************************************************************************)
EXTENDS Integers, Sequences, FiniteSets

CONSTANTS
    StableSamples,\* BUTTON_STABLE_SAMPLES
    CountMax,     \* where s_candidateCount stops counting: 0xFF
    MaxSamples,   \* bound: polls of the pin
    Uses          \* kinds of board and host

\* A board, and what may happen to it.
Use ==
    [board   : {"CH592", "CH32L103", "CH585", "CH32V307"},
     resets  : Nat,     \* bound: bus resets
     configs : Nat,     \* bound: SET_CONFIGURATION requests after the first
     pollAnytime  : BOOLEAN,   \* the host may poll EP1 inside USBD_EP1_SendData
     resetAnytime : BOOLEAN]   \* resets and requests may fall inside it

ASSUME ConstantsAssumption ==
    /\ StableSamples \in Nat \ {0} /\ CountMax \in Nat /\ CountMax >= StableSamples
    /\ MaxSamples \in Nat
    /\ Uses \subseteq Use

VARIABLES
    use,        \* the kind of board and host
    stable, candidate, count,   \* s_stableState, s_candidateState, s_candidateCount
    samples,    \* what the pin read at every poll so far, the one of Button_Init first
    presses,    \* presses accepted so far
    pc,         \* where the main loop stands in USBD_EP1_SendData
    txBusy,     \* USBD_EP1_TxBusy
    endpBusy,   \* USBHS_Endp_Busy[DEF_UEP1]
    epBuf, epRes, epTog, ctrlCopy,
    devEnum, xferInt, resetInt, configured, hostTog, got, resets, configs

debounceVars == <<stable, candidate, count, samples, presses>>
epVars == <<txBusy, endpBusy, epBuf, epRes, epTog>>
busVars == <<devEnum, xferInt, resetInt, configured, hostTog, got, resets, configs>>
vars == <<use, debounceVars, pc, ctrlCopy, epVars, busVars>>

Torn == 0

FullSpeed == use.board \in {"CH592", "CH32L103"}
BusyBeforeArm == FullSpeed
ConfigResetsToggle == use.board = "CH592"

TypeOK ==
    /\ use \in Uses
    /\ {stable, candidate} \subseteq {0, 1} /\ count \in 0 .. CountMax
    /\ samples \in Seq({0, 1}) /\ presses \in Nat
    /\ pc \in {"idle", "test", "copy", "copied", "busyFirst", "load", "store", "busyLast"}
    /\ {txBusy, endpBusy, devEnum, resetInt, configured} \subseteq BOOLEAN
    /\ epBuf \in Nat /\ epRes \in {"ACK", "NAK"}
    /\ {epTog, ctrlCopy, hostTog} \subseteq {0, 1}
    /\ xferInt \in {"none", "in", "config"}
    /\ got \in Seq(Nat) /\ resets \in Nat /\ configs \in Nat

Init ==
    /\ use \in Uses
    /\ stable \in {0, 1} /\ candidate = stable /\ count = 0
    /\ samples = <<stable>> /\ presses = 0
    /\ pc = "idle" /\ txBusy = FALSE /\ endpBusy = FALSE
    /\ epBuf = Torn /\ epRes = "NAK" /\ epTog = 0 /\ ctrlCopy = 0
    /\ devEnum = FALSE /\ xferInt = "none" /\ resetInt = FALSE
    /\ configured = FALSE /\ hostTog = 0 /\ got = << >>
    /\ resets = 0 /\ configs = 0

(***************************************************************************)
(* Button_PollTask, from sched_update in the main loop.                    *)
(***************************************************************************)

Counted_NoRestart(v) == IF count < CountMax THEN count + 1 ELSE count

\* The count after a sample v; a change restarts it at 1.
Counted(v) == IF v # candidate THEN 1 ELSE IF count < CountMax THEN count + 1 ELSE count

BusQuiet == xferInt = "none" /\ ~resetInt

\* A sample; a state that is new and stable; a press, reported or not.  A
\* pending interrupt runs first, except where it is to fall into the sending.
PollTask(v) ==
    /\ pc = "idle" /\ Len(samples) <= MaxSamples
    /\ use.resetAnytime \/ BusQuiet
    /\ samples' = Append(samples, v)
    /\ count' = Counted(v) /\ candidate' = v
    /\ stable' = IF Counted(v) >= StableSamples THEN v ELSE stable
    /\ presses' = IF stable = 1 /\ stable' = 0 THEN presses + 1 ELSE presses
    /\ pc' = IF presses' # presses /\ devEnum THEN "test" ELSE "idle"
    /\ UNCHANGED <<use, ctrlCopy, epVars, busVars>>

(***************************************************************************)
(* USBD_EP1_SendData, event presses.                                       *)
(***************************************************************************)

\* Mutation: the busy flag is not tested.
SendTest_NoTest ==
    /\ pc = "test" /\ pc' = "copy"
    /\ UNCHANGED <<use, debounceVars, ctrlCopy, epVars, busVars>>

\* Busy: the event is dropped, and Button_SendEvent does not look.
SendTest ==
    /\ pc = "test"
    /\ pc' = IF txBusy \/ (use.board = "CH32V307" /\ endpBusy) THEN "idle" ELSE "copy"
    /\ UNCHANGED <<use, debounceVars, ctrlCopy, epVars, busVars>>

\* memcpy begins, memcpy and the length are done.
SendCopy ==
    /\ pc = "copy" /\ pc' = "copied"
    /\ epBuf' = Torn
    /\ UNCHANGED <<use, debounceVars, ctrlCopy, txBusy, endpBusy, epRes, epTog, busVars>>

SendCopied ==
    /\ pc = "copied" /\ pc' = IF BusyBeforeArm THEN "busyFirst" ELSE "load"
    /\ epBuf' = presses
    /\ endpBusy' = ~FullSpeed
    /\ UNCHANGED <<use, debounceVars, ctrlCopy, txBusy, epRes, epTog, busVars>>

SendBusy ==
    /\ pc \in {"busyFirst", "busyLast"}
    /\ pc' = IF pc = "busyFirst" THEN "load" ELSE "idle"
    /\ txBusy' = TRUE
    /\ UNCHANGED <<use, debounceVars, ctrlCopy, endpBusy, epBuf, epRes, epTog, busVars>>

\* The control byte is loaded and stored, toggle included, with ACK.
SendLoad ==
    /\ pc = "load" /\ pc' = "store"
    /\ ctrlCopy' = epTog
    /\ UNCHANGED <<use, debounceVars, epVars, busVars>>

SendArm ==
    /\ pc = "store" /\ pc' = IF BusyBeforeArm THEN "idle" ELSE "busyLast"
    /\ epRes' = "ACK" /\ epTog' = ctrlCopy
    /\ UNCHANGED <<use, debounceVars, ctrlCopy, txBusy, endpBusy, epBuf, busVars>>

Send == SendTest \/ SendCopy \/ SendCopied \/ SendBusy \/ SendLoad \/ SendArm

(***************************************************************************)
(* The USB interrupt.                                                      *)
(***************************************************************************)

IsrIn_KeepsBusy ==
    /\ xferInt = "in" /\ xferInt' = "none"
    /\ epRes' = "NAK" /\ epTog' = 1 - epTog
    /\ UNCHANGED <<use, debounceVars, pc, ctrlCopy, epBuf, txBusy, endpBusy, devEnum,
                   resetInt, configured, hostTog, got, resets, configs>>

\* The host has acknowledged the event.
IsrIn ==
    /\ xferInt = "in" /\ xferInt' = "none"
    /\ epRes' = "NAK" /\ epTog' = 1 - epTog
    /\ txBusy' = FALSE /\ endpBusy' = FALSE
    /\ UNCHANGED <<use, debounceVars, pc, ctrlCopy, epBuf, devEnum,
                   resetInt, configured, hostTog, got, resets, configs>>

\* Mutation: SET_CONFIGURATION leaves the toggles of the endpoints alone.
IsrConfig_KeepsToggle ==
    /\ xferInt = "config" /\ xferInt' = "none"
    /\ devEnum' = TRUE /\ configured' = ~resetInt
    /\ UNCHANGED <<use, debounceVars, pc, ctrlCopy, epVars,
                   resetInt, hostTog, got, resets, configs>>

\* The status stage answers a host that has not reset the bus since.
IsrConfig ==
    /\ xferInt = "config" /\ xferInt' = "none"
    /\ devEnum' = TRUE /\ configured' = ~resetInt
    /\ epTog' = IF ConfigResetsToggle THEN 0 ELSE epTog
    /\ UNCHANGED <<use, debounceVars, pc, ctrlCopy, txBusy, endpBusy, epBuf, epRes,
                   resetInt, hostTog, got, resets, configs>>

\* CH585 counts itself enumerated when the link is up.
IsrLinkReady ==
    /\ use.board = "CH585" /\ ~devEnum
    /\ devEnum' = TRUE
    /\ UNCHANGED <<use, debounceVars, pc, ctrlCopy, epVars, xferInt,
                   resetInt, configured, hostTog, got, resets, configs>>

\* A bus reset: the endpoint is initialised; only the full-speed boards clear
\* USBD_EP1_TxBusy, and CH585 stays enumerated.
IsrReset ==
    /\ xferInt = "none" /\ resetInt /\ resetInt' = FALSE
    /\ epRes' = "NAK" /\ epTog' = 0 /\ endpBusy' = FALSE
    /\ txBusy' = (txBusy /\ ~FullSpeed)
    /\ devEnum' = (devEnum /\ use.board = "CH585")
    /\ UNCHANGED <<use, debounceVars, pc, ctrlCopy, epBuf, xferInt,
                   configured, hostTog, got, resets, configs>>

Isr == IsrIn \/ IsrConfig \/ IsrLinkReady \/ IsrReset

(***************************************************************************)
(* The host.                                                               *)
(***************************************************************************)

SendOver == pc = "idle"

HostConfigure ==
    /\ BusQuiet /\ (use.resetAnytime \/ SendOver)
    /\ configured => configs < use.configs
    /\ configs' = IF configured THEN configs + 1 ELSE configs
    /\ xferInt' = "config" /\ hostTog' = 0
    /\ UNCHANGED <<use, debounceVars, pc, ctrlCopy, epVars, devEnum,
                   resetInt, configured, got, resets>>

BusReset ==
    /\ ~resetInt /\ (use.resetAnytime \/ SendOver)
    /\ resets < use.resets /\ resets' = resets + 1
    /\ resetInt' = TRUE /\ configured' = FALSE /\ hostTog' = 0
    /\ UNCHANGED <<use, debounceVars, pc, ctrlCopy, epVars, devEnum, xferInt, got, configs>>

\* The host polls EP1.  A packet with the other toggle is discarded, as the
\* comment in the CH592 driver has it, for ever.
HostTake ==
    /\ configured /\ BusQuiet /\ (use.pollAnytime \/ SendOver)
    /\ epRes = "ACK" /\ epTog = hostTog
    /\ got' = Append(got, epBuf) /\ hostTog' = 1 - hostTog
    /\ xferInt' = "in"
    /\ UNCHANGED <<use, debounceVars, pc, ctrlCopy, epVars, devEnum,
                   resetInt, configured, resets, configs>>

Next ==
    \/ \E v \in {0, 1} : PollTask(v)
    \/ Send \/ Isr \/ HostConfigure \/ BusReset \/ HostTake

Spec == Init /\ [][Next]_vars

\* The main loop gets through USBD_EP1_SendData, interrupts are served, and a
\* host configures the device and polls it.
FairSpec ==
    /\ Spec /\ WF_vars(Send) /\ WF_vars(Isr)
    /\ WF_vars(HostTake) /\ WF_vars(HostConfigure /\ ~configured)

-----------------------------------------------------------------------------

\* Every press the host is told of is a press of its own, whole and in order:
\* the buffer is never rewritten under an armed packet.
EventsWhole ==
    \A i \in 1 .. Len(got) :
        /\ got[i] # Torn
        /\ \A j \in 1 .. i - 1 : got[j] < got[i]

\* Whenever USBD_EP1_SendData would refuse an event although nothing is going
\* on, a packet is really waiting that the host will accept.
RefusesForAReason ==
    txBusy /\ pc = "idle" /\ BusQuiet /\ configured => epRes = "ACK" /\ epTog = hostTog

\* The report under way: from the test of the busy flag to the packet in EP1, and
\* on to the interrupt that sees it acknowledged.
Sending == {"copy", "copied", "busyFirst", "load", "store"}
Waiting ==
    IF xferInt = "in" THEN -1
    ELSE IF pc \in Sending THEN presses
    ELSE IF epRes = "ACK" THEN epBuf ELSE 0

\* A press is reported or given up where the busy flag is tested.
Decided == IF pc = "test" THEN presses - 1 ELSE presses

Box == INSTANCE EventBox
          WITH presses <- Decided, linked <- devEnum, resetDue <- resetInt, box <- Waiting

\* Two flags, a toggle kept in two places and a buffer shared with the serial
\* engine make a box that holds one report: a press is refused only while a
\* report is under way, every other is delivered once and whole, unless the host
\* resets the bus, and the box becomes free again.
ImplementsEventBox == Box!BoxSpec

\* Samples at which the pin is stable: the last of StableSamples in a row that
\* agree, the reading at start not among them.
Settled(n) ==
    /\ n \in DOMAIN samples /\ n > StableSamples
    /\ \A i \in n - StableSamples + 1 .. n : samples[i] = samples[n]

\* The first n samples amount to the state b: the pin was last stable there, or
\* has not been since the start.
StableAs(b, n) ==
    \E m \in 1 .. n :
        /\ m = 1 \/ Settled(m)
        /\ samples[m] = b
        /\ \A k \in m + 1 .. n : ~Settled(k)

\* The samples with which the state falls to 0, the level of a pressed button.
Falls == {n \in 2 .. Len(samples) : StableAs(1, n - 1) /\ StableAs(0, n)}

\* As many presses are reported as the samples contain, however often the pin
\* bounces and however long the button is held beyond the counter's range.
PressesDebounced == presses = Cardinality(Falls)
=============================================================================
