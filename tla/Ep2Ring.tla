------------------------------ MODULE Ep2Ring ------------------------------
(***************************************************************************)
(* The EP2 file download of the CH592F firmware: the packet ring of        *)
(* ch592f/app/filexfer.c, the EP2 half of ch592f/app/ch592_usbd_device.c,  *)
(* and the USB host that reads the file.                                   *)
(*                                                                         *)
(* Three actors share the state.  The main loop runs FileXfer_Pump over    *)
(* and over; pc is its program counter, and every action of it is a piece  *)
(* of the code no other actor can observe half done.  The USB interrupt    *)
(* preempts it between any two of those pieces unless the interrupt is     *)
(* disabled.  The serial engine and the host move packets on their own     *)
(* whenever EP2 is armed and no transfer interrupt is pending (the flag    *)
(* RB_UC_INT_BUSY makes the engine NAK while one is).                      *)
(*                                                                         *)
(* A packet is its index in the file; every packet is 64 bytes except the  *)
(* last, a short one, which ends the transfer on the host.                 *)
(***************************************************************************)
EXTENDS Integers, Sequences

CONSTANTS
    Slots,        \* RING_SLOTS
    Total,        \* packets of the file: FILEXFER_TOTAL_SIZE / 64, rounded up
    HealMax,      \* passes between two blind re-arms: 1000 in the code
    StuckMax,     \* passes without progress before the toggle flip: 100000
    Hosts         \* kinds of host

\* What a host may do, and how often.
HostKind ==
    [start   : Nat,     \* bound: START_FILE_XFER requests
     reopen  : Nat,     \* bound: silent resets of the toggle on the host's side
     config  : Nat,     \* bound: SET_CONFIGURATION / SET_INTERFACE requests
     reset   : Nat,     \* bound: bus resets and line glitches
     lostack : Nat,     \* bound: handshakes of the host lost on the wire
     aborts  : BOOLEAN, \* it may give a download up and start another
     mismatchAcked : BOOLEAN, \* it acknowledges a packet it drops for its toggle
     prompt  : BOOLEAN] \* the watch on s_ringTail (a second) outlasts it and the firmware

ASSUME ConstantsAssumption ==
    /\ Slots \in Nat /\ Slots >= 2
    /\ Total \in Nat \ {0}
    /\ HealMax \in Nat \ {0} /\ StuckMax \in Nat \ {0}
    /\ Hosts \subseteq HostKind

VARIABLES
    pc,        \* where the main loop stands in FileXfer_Pump
    irqOn,     \* USB_IRQn enabled in the interrupt controller
    ctrlCopy,  \* the CPU register of a read-modify-write of R8_UEP2_CTRL
    ringData, ringHead, ringTail, genPos, dmaPtr, needArm, startReq, active,
    heal, stuck, lastTail,
    epRes,     \* R8_UEP2_CTRL, MASK_UEP_T_RES: "ACK" or "NAK"
    epTog,     \* R8_UEP2_CTRL, RB_UEP_T_TOG
    dmaReg,    \* R16_UEP2_DMA: a slot, or Null for the endpoint's own buffer
    xferInt,   \* RB_UIF_TRANSFER and the token it stands for
    resetInt,  \* RB_UIF_BUS_RST, and whether the line is still held
    host,      \* what the host is doing
    hostTog,   \* the toggle the host expects on EP2
    got,       \* packets received since the last START_FILE_XFER
    budget     \* the kind of host, and what is left of its bounds

pumpVars == <<pc, ctrlCopy, ringData, ringHead, genPos, active, heal, stuck,
              lastTail>>
armVars  == <<ringTail, dmaPtr, needArm, dmaReg, epRes>>
hostVars == <<host, hostTog, got, budget>>
vars == <<pumpVars, armVars, hostVars, irqOn, startReq, epTog, xferInt, resetInt>>

Null == -1      \* NULL in g_ringDmaPtr, s_EP2_Buf in R16_UEP2_DMA
Torn == -1      \* contents of a slot that has not been (fully) generated

Slot(i) == i % Slots
Packets == 0 .. Total - 1

PumpPoints == {"top", "reset", "fill", "gen", "publish", "finish", "arm",
               "clear", "start", "heal", "stuck", "flip", "flipWrite"}

PumpTypeOK ==
    /\ pc \in PumpPoints
    /\ ctrlCopy \in [res : {"ACK", "NAK"}, tog : {0, 1}]
    /\ active \in BOOLEAN
    /\ heal \in 0 .. HealMax /\ stuck \in 0 .. StuckMax /\ lastTail \in 0 .. Total

RingTypeOK ==
    /\ ringData \in [0 .. Slots - 1 -> Packets \cup {Torn}]
    /\ ringHead \in 0 .. Total /\ ringTail \in 0 .. Total /\ genPos \in 0 .. Total

Ep2TypeOK ==
    /\ irqOn \in BOOLEAN /\ startReq \in BOOLEAN /\ needArm \in BOOLEAN
    /\ dmaPtr \in 0 .. Slots - 1 \cup {Null} /\ dmaReg \in 0 .. Slots - 1 \cup {Null}
    /\ epRes \in {"ACK", "NAK"} /\ epTog \in {0, 1}

BusTypeOK ==
    /\ xferInt \in {"none", "in", "start", "config"}
    /\ resetInt \in {"none", "glitch", "held"}
    /\ host \in {"idle", "starting", "reading"} /\ hostTog \in {0, 1}
    /\ got \in Seq(Packets \cup {Torn})
    /\ budget \in HostKind

TypeOK == PumpTypeOK /\ RingTypeOK /\ Ep2TypeOK /\ BusTypeOK

Init ==
    /\ pc = "top" /\ irqOn = TRUE
    /\ ctrlCopy = [res |-> "NAK", tog |-> 0]
    /\ ringData = [i \in 0 .. Slots - 1 |-> Torn]
    /\ ringHead = 0 /\ ringTail = 0 /\ genPos = 0 /\ lastTail = 0
    /\ dmaPtr = Null /\ dmaReg = Null
    /\ needArm = FALSE /\ startReq = FALSE /\ active = FALSE
    /\ heal = 0 /\ stuck = 0
    /\ epRes = "NAK" /\ epTog = 0 /\ hostTog = 0
    /\ xferInt = "none" /\ resetInt = "none"
    /\ host = "idle" /\ got = << >>
    /\ budget \in Hosts

Spend(b) == budget[b] > 0 /\ budget' = [budget EXCEPT ![b] = @ - 1]

(***************************************************************************)
(* Filling and arming EP2, in the interrupt and in USBD_EP2_StartTransfer. *)
(***************************************************************************)

\* Mutation: it does not look whether the ring is empty.
FillCallback_NoEmptyCheck(n) ==
    \/ startReq /\ n = 0 /\ dmaPtr' = Null /\ UNCHANGED <<ringTail, needArm>>
    \/ /\ ~startReq
       /\ n = 1 /\ dmaPtr' = Slot(ringTail) /\ ringTail' = ringTail + 1
       /\ UNCHANGED needArm

\* FileXfer_FillCallback, returning n: 0, or 1 for the length of the packet.
FillCallback(n) ==
    \/ /\ startReq
       /\ n = 0 /\ dmaPtr' = Null
       /\ UNCHANGED <<ringTail, needArm>>
    \/ /\ ~startReq /\ ringHead # ringTail
       /\ n = 1 /\ dmaPtr' = Slot(ringTail) /\ ringTail' = ringTail + 1
       /\ UNCHANGED needArm
    \/ /\ ~startReq /\ ringHead = ringTail /\ genPos >= Total
       /\ n = 0
       /\ UNCHANGED <<ringTail, dmaPtr, needArm>>
    \/ /\ ~startReq /\ ringHead = ringTail /\ genPos < Total
       /\ n = 0 /\ dmaPtr' = Null /\ needArm' = TRUE
       /\ UNCHANGED ringTail

\* Mutation: EP2 is armed without a look at the length the callback returned.
FillAndArm_AlwaysAck ==
    \E n \in {0, 1} :
        /\ FillCallback(n)
        /\ dmaReg' = IF dmaPtr' # Null THEN dmaPtr' ELSE dmaReg
        /\ epRes' = "ACK"

\* The callback, the DMA pointer it leaves, and the response its length asks for.
FillAndArm ==
    \E n \in {0, 1} :
        /\ FillCallback(n)
        /\ dmaReg' = IF dmaPtr' # Null THEN dmaPtr' ELSE dmaReg
        /\ epRes' = IF n > 0 THEN "ACK" ELSE "NAK"

\* Mutations: no check that EP2 is NAKed; the interrupt stays disabled.
EP2_StartTransfer_NoNakCheck == irqOn' = TRUE /\ FillAndArm

EP2_StartTransfer_NoEnable ==
    /\ UNCHANGED irqOn
    /\ IF epRes # "NAK" THEN UNCHANGED armVars ELSE FillAndArm

\* Runs with the interrupt disabled; enables it on both ways out.
EP2_StartTransfer ==
    /\ irqOn' = TRUE
    /\ IF epRes # "NAK" THEN UNCHANGED armVars ELSE FillAndArm

(***************************************************************************)
(* The main loop: one action per step of FileXfer_Pump.                    *)
(***************************************************************************)

\* A pending request: disable the interrupt and read R8_UEP2_CTRL.
PumpDisable ==
    /\ pc = "top" /\ startReq
    /\ pc' = "reset" /\ irqOn' = FALSE
    /\ ctrlCopy' = [res |-> epRes, tog |-> epTog]
    /\ UNCHANGED <<ringData, ringHead, genPos, active, heal, stuck, lastTail,
                   armVars, hostVars, startReq, epTog, xferInt, resetInt>>

PumpNoRequest ==
    /\ pc = "top" /\ ~startReq
    /\ pc' = "fill"
    /\ UNCHANGED <<ctrlCopy, ringData, ringHead, genPos, active, heal, stuck, lastTail,
                   armVars, hostVars, irqOn, startReq, epTog, xferInt, resetInt>>

\* Write R8_UEP2_CTRL back with the response res, then reset the ring and the
\* generator to the given positions.
ResetTo(head, gen, res) ==
    /\ pc = "reset"
    /\ pc' = "fill"
    /\ epRes' = res /\ epTog' = ctrlCopy.tog
    /\ dmaPtr' = Null /\ startReq' = FALSE
    /\ genPos' = gen /\ ringHead' = head /\ ringTail' = 0
    /\ needArm' = TRUE /\ active' = TRUE
    /\ UNCHANGED <<ctrlCopy, ringData, heal, stuck, lastTail, dmaReg, hostVars,
                   irqOn, xferInt, resetInt>>

\* Mutation: the head is not reset.
PumpReset_KeepsHead == ResetTo(ringHead, 0, "NAK")

PumpReset == ResetTo(0, 0, "NAK")

\* Mutation: no slot kept free for the packet EP2 is sending.
RoomInRing_NoHeadroom == ringHead - ringTail < Slots

RoomInRing == ringHead - ringTail < Slots - 1

\* The loop's two tests; GenerateChunk then starts to overwrite the slot.
PumpGenerate ==
    /\ pc = "fill"
    /\ RoomInRing /\ genPos < Total
    /\ pc' = "gen"
    /\ ringData' = [ringData EXCEPT ![Slot(ringHead)] = Torn]
    /\ UNCHANGED <<ctrlCopy, ringHead, genPos, active, heal, stuck, lastTail,
                   armVars, hostVars, irqOn, startReq, epTog, xferInt, resetInt>>

PumpFilled ==
    /\ pc = "fill"
    /\ ~RoomInRing \/ genPos >= Total
    /\ pc' = "finish"
    /\ UNCHANGED <<ctrlCopy, ringData, ringHead, genPos, active, heal, stuck, lastTail,
                   armVars, hostVars, irqOn, startReq, epTog, xferInt, resetInt>>

\* GenerateChunk returns: the slot is whole and s_genPos has moved on.
PumpGenerated ==
    /\ pc = "gen"
    /\ pc' = "publish"
    /\ ringData' = [ringData EXCEPT ![Slot(ringHead)] = genPos]
    /\ genPos' = genPos + 1
    /\ UNCHANGED <<ctrlCopy, ringHead, active, heal, stuck, lastTail,
                   armVars, hostVars, irqOn, startReq, epTog, xferInt, resetInt>>

PumpPublish ==
    /\ pc = "publish"
    /\ pc' = "fill" /\ ringHead' = ringHead + 1
    /\ UNCHANGED <<ctrlCopy, ringData, genPos, active, heal, stuck, lastTail,
                   armVars, hostVars, irqOn, startReq, epTog, xferInt, resetInt>>

\* The transfer counts as finished once generated and drained.
PumpFinish ==
    /\ pc = "finish"
    /\ pc' = "arm"
    /\ active' = (active /\ ~(genPos >= Total /\ ringHead = ringTail))
    /\ UNCHANGED <<ctrlCopy, ringData, ringHead, genPos, heal, stuck, lastTail,
                   armVars, hostVars, irqOn, startReq, epTog, xferInt, resetInt>>

\* needArm with packets to send, else the self-heal counters, else nothing.
PumpArm ==
    /\ pc = "arm"
    /\ \/ /\ needArm /\ ringHead # ringTail
          /\ pc' = "clear" /\ UNCHANGED heal
       \/ /\ ~(needArm /\ ringHead # ringTail) /\ active
          /\ IF heal + 1 >= HealMax THEN pc' = "heal" /\ heal' = 0
                                    ELSE pc' = "stuck" /\ heal' = heal + 1
       \/ /\ ~(needArm /\ ringHead # ringTail) /\ ~active
          /\ pc' = "top" /\ UNCHANGED heal
    /\ UNCHANGED <<ctrlCopy, ringData, ringHead, genPos, active, stuck, lastTail,
                   armVars, hostVars, irqOn, startReq, epTog, xferInt, resetInt>>

PumpClearNeedArm ==
    /\ pc = "clear"
    /\ pc' = "start" /\ needArm' = FALSE
    /\ UNCHANGED <<ctrlCopy, ringData, ringHead, genPos, active, heal, stuck, lastTail,
                   ringTail, dmaPtr, dmaReg, epRes, hostVars, irqOn, startReq, epTog,
                   xferInt, resetInt>>

\* The call at the end of the pass, after needArm or after the toggle flip.
PumpStart ==
    /\ pc = "start"
    /\ pc' = "top" /\ EP2_StartTransfer
    /\ UNCHANGED <<ctrlCopy, ringData, ringHead, genPos, active, heal, stuck, lastTail,
                   hostVars, startReq, epTog, xferInt, resetInt>>

\* Mutation: the period expires and nothing is re-armed.
PumpHeal_NoArm ==
    /\ pc = "heal"
    /\ pc' = "stuck"
    /\ UNCHANGED <<ctrlCopy, ringData, ringHead, genPos, active, heal, stuck, lastTail,
                   irqOn, armVars, hostVars, startReq, epTog, xferInt, resetInt>>

\* Self-heal, part 1: the blind re-arm.
PumpHeal ==
    /\ pc = "heal"
    /\ pc' = "stuck" /\ EP2_StartTransfer
    /\ UNCHANGED <<ctrlCopy, ringData, ringHead, genPos, active, heal, stuck, lastTail,
                   hostVars, startReq, epTog, xferInt, resetInt>>

\* Nothing moves any more: a packet is armed and the host will not take it.
Stalled ==
    /\ epRes = "ACK" /\ xferInt = "none"
    /\ ~(host = "reading" /\ (epTog = hostTog \/ budget.mismatchAcked))

\* The count to StuckMax takes about a second: with a prompt host, all that can
\* move on its own has moved by then.
CountOver == stuck + 1 >= StuckMax /\ (budget.prompt => Stalled)

\* Self-heal, part 2: watch s_ringTail.
PumpWatch ==
    /\ pc = "stuck"
    /\ \/ /\ ringTail # lastTail
          /\ pc' = "top" /\ lastTail' = ringTail /\ stuck' = 0
       \/ /\ ringTail = lastTail /\ ~CountOver
          /\ pc' = "top" /\ UNCHANGED lastTail
          /\ stuck' = IF stuck + 1 < StuckMax THEN stuck + 1 ELSE stuck
       \/ /\ ringTail = lastTail /\ CountOver
          /\ pc' = "flip" /\ stuck' = 0 /\ UNCHANGED lastTail
    /\ UNCHANGED <<ctrlCopy, ringData, ringHead, genPos, active, heal,
                   armVars, hostVars, irqOn, startReq, epTog, xferInt, resetInt>>

\* R8_UEP2_CTRL ^= RB_UEP_T_TOG is a load and a store, the interrupt enabled.
PumpFlipRead ==
    /\ pc = "flip"
    /\ pc' = "flipWrite" /\ ctrlCopy' = [res |-> epRes, tog |-> epTog]
    /\ UNCHANGED <<ringData, ringHead, genPos, active, heal, stuck, lastTail,
                   armVars, hostVars, irqOn, startReq, epTog, xferInt, resetInt>>

FlipWrite(tog) ==
    /\ pc = "flipWrite"
    /\ pc' = "start"
    /\ epRes' = ctrlCopy.res /\ epTog' = tog
    /\ UNCHANGED <<ctrlCopy, ringData, ringHead, genPos, active, heal, stuck, lastTail,
                   ringTail, dmaPtr, needArm, dmaReg, hostVars, irqOn, startReq,
                   xferInt, resetInt>>

PumpFlipWrite == FlipWrite(1 - ctrlCopy.tog)

Pump ==
    \/ PumpDisable \/ PumpNoRequest \/ PumpReset \/ PumpGenerate \/ PumpFilled
    \/ PumpGenerated \/ PumpPublish \/ PumpFinish \/ PumpArm \/ PumpClearNeedArm
    \/ PumpStart \/ PumpHeal \/ PumpWatch \/ PumpFlipRead \/ PumpFlipWrite

(***************************************************************************)
(* USB_IRQHandler, atomic for the main loop and, because of INT_BUSY, for  *)
(* the bus.                                                                *)
(***************************************************************************)

\* UIS_TOKEN_IN | 2: a packet of EP2 has been acknowledged.
IsrIn ==
    /\ irqOn /\ xferInt = "in"
    /\ FillAndArm
    /\ xferInt' = "none"
    /\ UNCHANGED <<pumpVars, hostVars, irqOn, startReq, epTog, resetInt>>

\* SETUP of START_FILE_XFER: FileXfer_Start only records the request.  The
\* status stage releases the host to read.
IsrStart ==
    /\ irqOn /\ xferInt = "start"
    /\ startReq' = TRUE /\ xferInt' = "none" /\ host' = "reading"
    /\ UNCHANGED <<pumpVars, armVars, hostTog, got, budget, irqOn, epTog, resetInt>>

\* SETUP of SET_CONFIGURATION or SET_INTERFACE: EP2 goes back to DATA0.
IsrConfig ==
    /\ irqOn /\ xferInt = "config"
    /\ epTog' = 0 /\ xferInt' = "none"
    /\ UNCHANGED <<pumpVars, armVars, hostVars, irqOn, startReq, resetInt>>

\* Bus reset, looked at when no transfer is pending; a glitch is ignored.
IsrReset ==
    /\ irqOn /\ xferInt = "none" /\ resetInt # "none"
    /\ IF resetInt = "held" THEN epRes' = "NAK" /\ epTog' = 0
                            ELSE UNCHANGED <<epRes, epTog>>
    /\ resetInt' = "none"
    /\ UNCHANGED <<pumpVars, ringTail, dmaPtr, needArm, dmaReg, hostVars, irqOn,
                   startReq, xferInt>>

Isr == IsrIn \/ IsrStart \/ IsrConfig \/ IsrReset

(***************************************************************************)
(* The host and the serial engine.                                         *)
(***************************************************************************)

BusQuiet == xferInt = "none" /\ resetInt = "none"

HostStart ==
    /\ BusQuiet
    /\ host = "idle" \/ (budget.aborts /\ host = "reading")
    /\ Spend("start")
    /\ host' = "starting" /\ got' = << >> /\ xferInt' = "start"
    /\ UNCHANGED <<pumpVars, armVars, hostTog, irqOn, startReq, epTog, resetInt>>

\* SET_CONFIGURATION resets the toggle on both sides.
HostConfigure ==
    /\ BusQuiet /\ host = "idle"
    /\ Spend("config")
    /\ hostTog' = 0 /\ xferInt' = "config"
    /\ UNCHANGED <<pumpVars, armVars, host, got, irqOn, startReq, epTog, resetInt>>

\* The host re-opens the device: its toggle goes back to DATA0, nothing on
\* the wire tells the device.
HostReopen ==
    /\ host = "idle" /\ xferInt = "none"
    /\ Spend("reopen")
    /\ hostTog' = 0
    /\ UNCHANGED <<pumpVars, armVars, host, got, irqOn, startReq, epTog, xferInt,
                   resetInt>>

BusReset(kind) ==
    /\ resetInt = "none"
    /\ kind = "held" => host = "idle" \/ (budget.aborts /\ host = "reading")
    /\ Spend("reset")
    /\ resetInt' = kind
    /\ IF kind = "held" THEN host' = "idle" /\ hostTog' = 0
                        ELSE UNCHANGED <<host, hostTog>>
    /\ UNCHANGED <<pumpVars, armVars, got, irqOn, startReq, epTog, xferInt>>

Receive(p) ==
    /\ got' = Append(got, p)
    /\ hostTog' = 1 - hostTog
    /\ host' = IF p = Total - 1 \/ Len(got') = Total THEN "idle" ELSE "reading"

\* The device sees the host's ACK: auto-toggle and a transfer interrupt.
Acknowledged == epTog' = 1 - epTog /\ xferInt' = "in"

\* EP2 sends the packet the DMA register points to and the host takes it.
HostTake ==
    /\ host = "reading" /\ BusQuiet /\ epRes = "ACK"
    /\ epTog = hostTog
    /\ Receive(ringData[dmaReg]) /\ Acknowledged
    /\ UNCHANGED <<pumpVars, armVars, budget, irqOn, startReq, resetInt>>

\* The same, but the handshake is lost: the device will send it again.
HostTakeLostAck ==
    /\ host = "reading" /\ BusQuiet /\ epRes = "ACK"
    /\ epTog = hostTog /\ budget.mismatchAcked
    /\ Spend("lostack")
    /\ Receive(ringData[dmaReg])
    /\ UNCHANGED <<pumpVars, armVars, irqOn, startReq, epTog, xferInt, resetInt>>

\* A packet with the other toggle is dropped, and acknowledged or ignored.
HostDrop ==
    /\ host = "reading" /\ BusQuiet /\ epRes = "ACK"
    /\ epTog # hostTog /\ budget.mismatchAcked
    /\ Acknowledged
    /\ UNCHANGED <<pumpVars, armVars, hostVars, irqOn, startReq, resetInt>>

Host == \/ HostStart \/ HostConfigure \/ HostReopen \/ HostTake \/ HostTakeLostAck
        \/ HostDrop \/ \E kind \in {"glitch", "held"} : BusReset(kind)

Next == Pump \/ Isr \/ Host

Spec == Init /\ [][Next]_vars

\* The main loop and the interrupt keep running, and a host that reads polls.
Fairness == WF_vars(Pump) /\ WF_vars(Isr) /\ WF_vars(HostTake \/ HostDrop)

FairSpec == Spec /\ Fairness

-----------------------------------------------------------------------------

\* Zero copy is safe: whenever EP2 is armed, the slot the DMA reads holds,
\* whole, the packet popped last.  The pump never regenerates that slot,
\* whatever the host does, restarts and toggle flips included.
DmaSlotIntact ==
    epRes = "ACK" =>
        /\ ringTail > 0
        /\ dmaReg = Slot(ringTail - 1)
        /\ ringData[dmaReg] = ringTail - 1

\* The slots between tail and head hold the packets of the file in order:
\* the interrupt can pop at any point of the pump and never gets a torn or
\* stale slot.
RingInOrder == \A i \in ringTail .. ringHead - 1 : ringData[Slot(i)] = i

\* What the host has received of a download is a prefix of the file: nothing
\* lost, repeated or left over from an earlier download.
InOrder == \A i \in 1 .. Len(got) : got[i] = i - 1

\* Between downloads no packet stays armed for the next one to find, but one
\* the host has taken without the device knowing, and will drop.
QuietWhenIdle == host = "idle" /\ xferInt = "none" /\ epRes = "ACK" => epTog # hostTog

\* Every call of FileXfer_Pump returns to the main loop, and with the interrupt
\* enabled: a host that takes packets as fast as they are generated keeps the
\* fill loop busy for the rest of the file and no longer, and the section of
\* the reset, opened in one function and closed in another, never stays open.
PumpReturns == []<>(pc = "top" /\ irqOn)

Download == INSTANCE FileDownload WITH reading <- (host = "reading")

\* With a host that does not give up, the ring, its races and its repairs
\* implement the in-order download, and complete it: although the interrupt may
\* find the ring empty or s_genPos ahead of s_ringHead, and packets be resent.
ImplementsDownload == Download!DownloadSpec
=============================================================================
