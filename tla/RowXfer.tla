------------------------------ MODULE RowXfer ------------------------------
(***************************************************************************)
(* The EP2 file download of the two high-speed boards: ch585m/app/         *)
(* filexfer.c (ch32v307/app/filexfer.c is the same text but for the name   *)
(* of a register) over the EP2 part of their drivers.                      *)
(*                                                                         *)
(* The main loop generates whole image rows into ROW_BUF_CNT rotating      *)
(* buffers, a few ahead of s_genPos; the USB interrupt arms EP2 with a     *)
(* pointer into a row and advances s_genPos.  Nothing tells the interrupt  *)
(* whether the row is there: it never looks at s_genRow.                   *)
(*                                                                         *)
(* A packet is its index: 0 is the 54-byte header, the others are the      *)
(* RowPackets packets of each row, first row first.                        *)
(***************************************************************************)
EXTENDS Integers, Sequences

CONSTANTS
    Rows,         \* FILEXFER_IMG_HEIGHT
    RowPackets,   \* packets in a row: 3072 / 64
    Bufs,         \* ROW_BUF_CNT
    StuckMax,     \* passes without progress before the toggle flip: 100000
    Uses          \* kinds of board and host

\* A board, and what its host may do and how often.
Use ==
    [start  : Nat,      \* bound: START_FILE_XFER requests
     reopen : Nat,      \* bound: toggle resets on the host's side alone
     clear  : Nat,      \* bound: CLEAR_FEATURE(ENDPOINT_HALT) requests
     reset  : Nat,      \* bound: bus resets
     aborts : BOOLEAN,  \* the host may give a download up and start another
     pumpAhead : BOOLEAN,     \* it is slow enough for the pump to stay ahead
     doubleBuffer : BOOLEAN]  \* EP2 has a DMA pointer per toggle: CH32V307, not CH585

ASSUME ConstantsAssumption ==
    /\ {Rows, RowPackets, StuckMax} \subseteq Nat \ {0}
    /\ Bufs \in Nat /\ Bufs >= 2
    /\ Uses \subseteq Use

VARIABLES
    pc,       \* where the main loop stands in FileXfer_Pump
    limit,    \* row up to which the loop at pc generates
    writing,  \* GenerateRow is filling the buffer of row genRow - 1
    ctrlCopy, \* CPU register of the read-modify-write of the EP2 control byte
    rows, genRow, active, needArm, stuck, lastPos,
    startReq, genPos,
    epRes, epTog, epBusy,   \* UEP2_TX_CTRL and USBHS_Endp_Busy
    dma,      \* per DMA pointer register, the packet it points to
    xferInt, resetInt, host, hostTog, got,
    budget    \* the kind of board and host, and what is left of the bounds

pumpVars == <<pc, limit, writing, ctrlCopy, rows, genRow, active, needArm, stuck, lastPos>>
epVars   == <<genPos, epRes, epTog, epBusy, dma>>
hostVars == <<host, hostTog, got, budget>>
vars == <<pumpVars, epVars, startReq, xferInt, resetInt, hostVars>>

Total == 1 + Rows * RowPackets
Torn == -1          \* contents of a row being generated, or never generated
Nowhere == -1       \* a DMA pointer nobody has set

RowOf(p) == (p - 1) \div RowPackets
Buf(row) == row % Bufs

\* The pointer register EP2 sends from while its toggle is t.
DmaReg(t) == IF budget.doubleBuffer THEN t ELSE 0

\* What EP2 puts on the wire for a pointer set up for packet p.
Content(p) ==
    IF p <= 0 THEN p
    ELSE IF rows[Buf(RowOf(p))] = Torn THEN Torn
    ELSE rows[Buf(RowOf(p))] * RowPackets + ((p - 1) % RowPackets) + 1

TypeOK ==
    /\ pc \in {"top", "prefill", "scan", "ahead", "finish", "arm", "flip", "flipWrite"}
    /\ limit \in 0 .. Rows + Bufs /\ writing \in BOOLEAN
    /\ ctrlCopy \in [res : {"ACK", "NAK"}, tog : {0, 1}]
    /\ rows \in [0 .. Bufs - 1 -> 0 .. Rows - 1 \cup {Torn}]
    /\ genRow \in 0 .. Rows /\ genPos \in 0 .. Total /\ lastPos \in 0 .. Total
    /\ {active, needArm, startReq, epBusy, resetInt} \subseteq BOOLEAN
    /\ stuck \in 0 .. StuckMax
    /\ epRes \in {"ACK", "NAK"} /\ {epTog, hostTog} \subseteq {0, 1}
    /\ dma \in [{0, 1} -> 0 .. Total - 1 \cup {Nowhere}]
    /\ xferInt \in {"none", "in", "start"}
    /\ host \in {"idle", "starting", "reading"}
    /\ got \in Seq(-1 .. Total - 1)
    /\ budget \in Use

Init ==
    /\ pc = "top" /\ limit = 0 /\ writing = FALSE
    /\ ctrlCopy = [res |-> "NAK", tog |-> 0]
    /\ rows = [b \in 0 .. Bufs - 1 |-> Torn]
    /\ genRow = 0 /\ genPos = 0 /\ lastPos = 0 /\ stuck = 0
    /\ active = FALSE /\ needArm = FALSE /\ startReq = FALSE
    /\ epRes = "NAK" /\ epTog = 0 /\ epBusy = FALSE
    /\ dma = [r \in {0, 1} |-> Nowhere]
    /\ xferInt = "none" /\ resetInt = FALSE
    /\ host = "idle" /\ hostTog = 0 /\ got = << >>
    /\ budget \in Uses

Spend(b) == budget[b] > 0 /\ budget' = [budget EXCEPT ![b] = @ - 1]

(***************************************************************************)
(* USBD_EP2_StartTransfer with the fill callback: EP2, idle and with       *)
(* toggle t, gets a pointer to packet s_genPos, or stays unarmed.  The     *)
(* interrupt is disabled for the duration.                                 *)
(***************************************************************************)

\* Mutation: the pointer register of the other toggle is set.
FillAndArm_OtherReg(t) ==
    IF genPos >= Total
    THEN epRes' = "NAK" /\ epBusy' = FALSE /\ UNCHANGED <<dma, genPos>>
    ELSE /\ dma' = [dma EXCEPT ![DmaReg(1 - t)] = genPos] /\ genPos' = genPos + 1
         /\ epRes' = "ACK" /\ epBusy' = TRUE

FillAndArm(t) ==
    IF genPos >= Total
    THEN epRes' = "NAK" /\ epBusy' = FALSE /\ UNCHANGED <<dma, genPos>>
    ELSE /\ dma' = [dma EXCEPT ![DmaReg(t)] = genPos] /\ genPos' = genPos + 1
         /\ epRes' = "ACK" /\ epBusy' = TRUE

\* From the main loop: nothing happens while EP2 is busy.
StartTransfer ==
    /\ IF epBusy THEN UNCHANGED <<dma, genPos, epRes, epBusy>> ELSE FillAndArm(epTog)
    /\ UNCHANGED epTog

(***************************************************************************)
(* FileXfer_Pump.                                                          *)
(***************************************************************************)

\* Mutation: the rows of the last download count as generated.
PumpReset_KeepsRows ==
    /\ pc = "top" /\ startReq
    /\ startReq' = FALSE /\ genPos' = 0 /\ active' = TRUE
    /\ limit' = Bufs - 1 /\ pc' = "prefill"
    /\ UNCHANGED <<writing, ctrlCopy, rows, genRow, needArm, stuck, lastPos,
                   epRes, epTog, epBusy, dma, xferInt, resetInt, hostVars>>

\* A requested restart; of what it resets only s_genPos is shared.
PumpReset ==
    /\ pc = "top" /\ startReq
    /\ startReq' = FALSE /\ genPos' = 0 /\ genRow' = 0 /\ active' = TRUE
    /\ limit' = Bufs - 1 /\ pc' = "prefill"
    /\ UNCHANGED <<writing, ctrlCopy, rows, needArm, stuck, lastPos,
                   epRes, epTog, epBusy, dma, xferInt, resetInt, hostVars>>

PumpNoRequest ==
    /\ pc = "top" /\ ~startReq
    /\ pc' = "scan"
    /\ UNCHANGED <<limit, writing, ctrlCopy, rows, genRow, active, needArm, stuck, lastPos,
                   epVars, startReq, xferInt, resetInt, hostVars>>

MoreRows == genRow < limit /\ genRow < Rows

\* GenerateRow(s_genRow++): the count moves before the row is written.  A row
\* is the same in every download: written over itself it does not change.
RowBegin ==
    /\ pc \in {"prefill", "ahead"} /\ ~writing /\ MoreRows
    /\ writing' = TRUE /\ genRow' = genRow + 1
    /\ rows' = [rows EXCEPT ![Buf(genRow)] = IF @ = genRow THEN @ ELSE Torn]
    /\ UNCHANGED <<pc, limit, ctrlCopy, active, needArm, stuck, lastPos,
                   epVars, startReq, xferInt, resetInt, hostVars>>

RowEnd ==
    /\ writing
    /\ writing' = FALSE /\ rows' = [rows EXCEPT ![Buf(genRow - 1)] = genRow - 1]
    /\ UNCHANGED <<pc, limit, ctrlCopy, genRow, active, needArm, stuck, lastPos,
                   epVars, startReq, xferInt, resetInt, hostVars>>

PrefillDone ==
    /\ pc = "prefill" /\ ~writing /\ ~MoreRows
    /\ pc' = "scan" /\ needArm' = TRUE
    /\ UNCHANGED <<limit, writing, ctrlCopy, rows, genRow, active, stuck, lastPos,
                   epVars, startReq, xferInt, resetInt, hostVars>>

\* The row under DMA may be the one before sendRow: one buffer is its own.
Ahead(sendRow) == sendRow + Bufs - 1

\* sendRow is computed once, from the s_genPos of this moment.
PumpScan ==
    /\ pc = "scan"
    /\ IF active /\ genPos > 1 THEN limit' = Ahead(RowOf(genPos)) /\ pc' = "ahead"
                               ELSE pc' = "finish" /\ UNCHANGED limit
    /\ UNCHANGED <<writing, ctrlCopy, rows, genRow, active, needArm, stuck, lastPos,
                   epVars, startReq, xferInt, resetInt, hostVars>>

AheadDone ==
    /\ pc = "ahead" /\ ~writing /\ ~MoreRows
    /\ pc' = "finish"
    /\ UNCHANGED <<limit, writing, ctrlCopy, rows, genRow, active, needArm, stuck, lastPos,
                   epVars, startReq, xferInt, resetInt, hostVars>>

PumpFinish ==
    /\ pc = "finish"
    /\ pc' = "arm" /\ active' = (active /\ genPos < Total)
    /\ UNCHANGED <<limit, writing, ctrlCopy, rows, genRow, needArm, stuck, lastPos,
                   epVars, startReq, xferInt, resetInt, hostVars>>

PumpArm ==
    /\ pc = "arm" /\ needArm
    /\ pc' = "top" /\ needArm' = FALSE /\ StartTransfer
    /\ UNCHANGED <<limit, writing, ctrlCopy, rows, genRow, active, stuck, lastPos,
                   startReq, xferInt, resetInt, hostVars>>

\* The count to StuckMax lasts long enough for whatever can move to move.
Stalled ==
    /\ xferInt = "none" /\ ~resetInt /\ ~startReq
    /\ ~(host = "reading" /\ epRes = "ACK" /\ epTog = hostTog)
CountOver == stuck + 1 >= StuckMax /\ Stalled

\* The watch on s_genPos while a download is active.
PumpWatch ==
    /\ pc = "arm" /\ ~needArm
    /\ \/ /\ ~active
          /\ pc' = "top" /\ UNCHANGED <<stuck, lastPos>>
       \/ /\ active /\ genPos # lastPos
          /\ pc' = "top" /\ lastPos' = genPos /\ stuck' = 0
       \/ /\ active /\ genPos = lastPos /\ ~CountOver
          /\ pc' = "top" /\ UNCHANGED lastPos
          /\ stuck' = IF stuck + 1 < StuckMax THEN stuck + 1 ELSE stuck
       \/ /\ active /\ genPos = lastPos /\ CountOver
          /\ pc' = "flip" /\ stuck' = 0 /\ UNCHANGED lastPos
    /\ UNCHANGED <<limit, writing, ctrlCopy, rows, genRow, active, needArm,
                   epVars, startReq, xferInt, resetInt, hostVars>>

PumpFlipRead ==
    /\ pc = "flip"
    /\ pc' = "flipWrite" /\ ctrlCopy' = [res |-> epRes, tog |-> epTog]
    /\ UNCHANGED <<limit, writing, rows, genRow, active, needArm, stuck, lastPos,
                   epVars, startReq, xferInt, resetInt, hostVars>>

FlipWrite(tog) ==
    /\ pc = "flipWrite"
    /\ pc' = "top" /\ epRes' = ctrlCopy.res /\ epTog' = tog
    /\ UNCHANGED <<limit, writing, ctrlCopy, rows, genRow, active, needArm, stuck, lastPos,
                   genPos, epBusy, dma, startReq, xferInt, resetInt, hostVars>>

PumpFlipWrite == FlipWrite(1 - ctrlCopy.tog)

Pump ==
    \/ PumpReset \/ PumpNoRequest \/ RowBegin \/ RowEnd \/ PrefillDone \/ PumpScan
    \/ AheadDone \/ PumpFinish \/ PumpArm \/ PumpWatch \/ PumpFlipRead \/ PumpFlipWrite

(***************************************************************************)
(* The USB interrupt handler.                                              *)
(***************************************************************************)

\* EP2 IN acknowledged: NAK, toggle, not busy, and the next packet.
IsrIn ==
    /\ xferInt = "in" /\ xferInt' = "none"
    /\ epTog' = 1 - epTog /\ FillAndArm(1 - epTog)
    /\ UNCHANGED <<pumpVars, startReq, resetInt, hostVars>>

\* START_FILE_XFER: recorded only; the status stage releases the host.
IsrStart ==
    /\ xferInt = "start" /\ xferInt' = "none"
    /\ startReq' = TRUE /\ host' = "reading"
    /\ UNCHANGED <<pumpVars, epVars, resetInt, hostTog, got, budget>>

\* Bus reset: USBHS_Device_Endp_Init.
IsrReset ==
    /\ xferInt = "none" /\ resetInt /\ resetInt' = FALSE
    /\ epRes' = "NAK" /\ epTog' = 0 /\ epBusy' = FALSE
    /\ dma' = [dma EXCEPT ![0] = Nowhere]
    /\ UNCHANGED <<pumpVars, genPos, startReq, xferInt, hostVars>>

Isr == IsrIn \/ IsrStart \/ IsrReset

(***************************************************************************)
(* The host and the serial engine.                                         *)
(***************************************************************************)

BusQuiet == xferInt = "none" /\ ~resetInt

HostStart ==
    /\ BusQuiet
    /\ host = "idle" \/ (budget.aborts /\ host = "reading")
    /\ Spend("start")
    /\ host' = "starting" /\ got' = << >> /\ xferInt' = "start"
    /\ UNCHANGED <<pumpVars, epVars, startReq, resetInt, hostTog>>

\* The host's toggle goes back to DATA0 and the device's does not: a re-open
\* the wire does not show, or a SET_CONFIGURATION, of which these drivers
\* only note the value.
HostReopen ==
    /\ host = "idle" /\ BusQuiet
    /\ Spend("reopen") /\ hostTog' = 0
    /\ UNCHANGED <<pumpVars, epVars, startReq, xferInt, resetInt, host, got>>

\* CLEAR_FEATURE(ENDPOINT_HALT): EP2 back to NAK and DATA0; the busy flag
\* keeps its value.  The host waits for the handler.
ClearHalt ==
    /\ BusQuiet
    /\ host = "idle" \/ (budget.aborts /\ host = "reading")
    /\ Spend("clear")
    /\ host' = "idle" /\ hostTog' = 0 /\ epRes' = "NAK" /\ epTog' = 0
    /\ UNCHANGED <<pumpVars, genPos, epBusy, dma, startReq, xferInt, resetInt, got>>

BusReset ==
    /\ ~resetInt
    /\ host = "idle" \/ (budget.aborts /\ host = "reading")
    /\ Spend("reset")
    /\ resetInt' = TRUE /\ host' = "idle" /\ hostTog' = 0
    /\ UNCHANGED <<pumpVars, epVars, startReq, xferInt, got>>

\* The row of the packet the completion interrupt will arm is generated.
RowReady == genPos \in {0, Total} \/ rows[Buf(RowOf(genPos))] = RowOf(genPos)

\* EP2 sends what its pointer register points to, the host takes it.  A
\* packet with the other toggle is dropped and not acknowledged.
HostTake ==
    /\ host = "reading" /\ BusQuiet /\ epRes = "ACK" /\ epTog = hostTog
    /\ budget.pumpAhead => RowReady
    /\ got' = Append(got, Content(dma[DmaReg(epTog)]))
    /\ hostTog' = 1 - hostTog /\ xferInt' = "in"
    /\ host' = IF Len(got') = Total THEN "idle" ELSE "reading"
    /\ UNCHANGED <<pumpVars, epVars, startReq, resetInt, budget>>

Host == HostStart \/ HostReopen \/ ClearHalt \/ BusReset \/ HostTake

Next == Pump \/ Isr \/ Host

Spec == Init /\ [][Next]_vars

\* The main loop and the interrupt keep running, and a host that reads polls.
FairSpec == Spec /\ WF_vars(Pump) /\ WF_vars(Isr) /\ WF_vars(HostTake)

-----------------------------------------------------------------------------

\* Zero copy over rotating rows is safe: while EP2 is armed, the row its
\* pointer is in is generated, whole, and not yet overwritten by the row that
\* takes its buffer Bufs rows later, packets of the row before included.
DmaRowIntact ==
    epRes = "ACK" => Content(dma[DmaReg(epTog)]) = dma[DmaReg(epTog)]

\* The host receives the header and then the packets of every row, in order,
\* none lost, repeated, or out of a buffer that holds another row.
InOrder == \A i \in 1 .. Len(got) : got[i] = i - 1

Download == INSTANCE FileDownload WITH reading <- (host = "reading")

\* Rows, rotating pointers and the deferred start implement the in-order
\* download, for a host that finishes what it starts and never outruns the pump,
\* and no such download hangs.
ImplementsDownload == Download!DownloadSpec

\* A host that reads comes to its end, one that gives downloads up as well.  The
\* code does not keep to it (README, known deviations): no run checks it.
ReadersServed == Download!DownloadEnds
=============================================================================
