------------------------------ MODULE IsrRing ------------------------------
(***************************************************************************)
(* The EP2 file download of the CH32L103 firmware (ch32l103/User/          *)
(* filexfer.c and the EP2 part of ch32l103_usbfs_device.c).  It differs    *)
(* from Ep2Ring in who generates: FileXfer_Pump in the main loop, but also *)
(* the USB interrupt, when it finds the ring empty and when it handles     *)
(* START_FILE_XFER.  Both run the same GenerateChunk over the same         *)
(* s_genPos and the same pixel walk, without a lock.                       *)
(*                                                                         *)
(* The pixel walk advances while a chunk is generated, s_genPos only at    *)
(* its end.  A packet is therefore modelled as its two halves, each the    *)
(* value of the pixel walk it was computed from: packet k of the file is   *)
(* <<2 k, 2 k + 1>>.  EP2 data toggles always agree here (the host neither *)
(* re-opens the device nor loses a handshake) and are left out.            *)
(***************************************************************************)
EXTENDS Integers, Sequences

CONSTANTS
    Slots,        \* RING_SLOTS
    Total,        \* packets of the file
    MaxStarts,    \* bound: START_FILE_XFER requests
    MaxResets,    \* bound: bus resets
    RestartAnytime, \* START_FILE_XFER may arrive while the pump generates
    PumpAhead     \* the interrupt finds the ring empty only between two chunks

ASSUME ConstantsAssumption ==
    /\ Slots \in Nat \ {0} /\ Total \in Nat \ {0}
    /\ MaxStarts \in Nat /\ MaxResets \in Nat
    /\ RestartAnytime \in BOOLEAN /\ PumpAhead \in BOOLEAN

VARIABLES
    pc,       \* where the main loop stands in FileXfer_Pump
    idx, offset, \* locals of FileXfer_Pump and of GenerateChunk
    ringData, ringHead, ringTail, genPos,
    walk,     \* s_col, s_channel, s_actualRow: halves walked since the reset
    ep2Buf, ep2Res, devEnum, xferInt, resetInt, host, got, starts, resets

genVars == <<pc, idx, offset, ringData, ringHead, genPos, walk>>
epVars == <<ringTail, ep2Buf, ep2Res>>
hostVars == <<host, got, starts, resets>>
vars == <<genVars, epVars, devEnum, xferInt, resetInt, hostVars>>

Slot(i) == i % Slots
Packet(k) == <<2 * k, 2 * k + 1>>
Halves == 0 .. 4 * Total + 4
Torn == <<-1, -1>>
Contents == (Halves \X Halves) \cup {Torn} \cup (Halves \X {-1}) \cup ({-1} \X Halves)

TypeOK ==
    /\ pc \in {"top", "half", "end", "publish"}
    /\ idx \in 0 .. Slots - 1 /\ offset \in 0 .. Total
    /\ ringData \in [0 .. Slots - 1 -> Contents]
    /\ ringHead \in Nat /\ ringTail \in Nat /\ genPos \in 0 .. Total
    /\ walk \in Halves
    /\ ep2Buf \in Contents /\ ep2Res \in {"ACK", "NAK"}
    /\ devEnum \in BOOLEAN /\ resetInt \in BOOLEAN
    /\ xferInt \in {"none", "in", "start", "config"}
    /\ host \in {"reset", "configuring", "idle", "starting", "reading"}
    /\ got \in Seq(Contents) /\ starts \in Nat /\ resets \in Nat

Init ==
    /\ pc = "top" /\ idx = 0 /\ offset = 0
    /\ ringData = [i \in 0 .. Slots - 1 |-> Torn]
    /\ ringHead = 0 /\ ringTail = 0 /\ genPos = 0 /\ walk = 0
    /\ ep2Buf = Torn /\ ep2Res = "NAK" /\ devEnum = FALSE
    /\ xferInt = "none" /\ resetInt = FALSE
    /\ host = "reset" /\ got = << >> /\ starts = 0 /\ resets = 0

(***************************************************************************)
(* The main loop.                                                          *)
(***************************************************************************)

\* Room in the ring and more to generate: GenerateChunk reads s_genPos.
PumpBegin ==
    /\ pc = "top" /\ ringHead - ringTail < Slots /\ genPos < Total
    /\ pc' = "half" /\ idx' = Slot(ringHead) /\ offset' = genPos
    /\ ringData' = [ringData EXCEPT ![Slot(ringHead)] = <<walk, -1>>]
    /\ walk' = walk + 1
    /\ UNCHANGED <<ringHead, genPos, epVars, devEnum, xferInt, resetInt, hostVars>>

PumpSecondHalf ==
    /\ pc = "half"
    /\ pc' = "end"
    /\ ringData' = [ringData EXCEPT ![idx][2] = walk]
    /\ walk' = walk + 1
    /\ UNCHANGED <<idx, offset, ringHead, genPos, epVars, devEnum, xferInt, resetInt,
                   hostVars>>

\* s_genPos = offset, from the copy taken when the chunk was begun.
PumpEnd ==
    /\ pc = "end"
    /\ pc' = "publish" /\ genPos' = offset + 1
    /\ UNCHANGED <<idx, offset, ringData, ringHead, walk, epVars, devEnum, xferInt,
                   resetInt, hostVars>>

PumpPublish ==
    /\ pc = "publish"
    /\ pc' = "top" /\ ringHead' = ringHead + 1
    /\ UNCHANGED <<idx, offset, ringData, genPos, walk, epVars, devEnum, xferInt,
                   resetInt, hostVars>>

Pump == PumpBegin \/ PumpSecondHalf \/ PumpEnd \/ PumpPublish

(***************************************************************************)
(* USBFS_IRQHandler.                                                       *)
(***************************************************************************)

\* Mutation: on an underrun the interrupt returns 0 and NAKs.
IsrIn_NoFallback ==
    /\ xferInt = "in" /\ xferInt' = "none"
    /\ PumpAhead => ringHead # ringTail \/ pc = "top"
    /\ IF ringHead # ringTail
       THEN ep2Buf' = ringData[Slot(ringTail)] /\ ringTail' = ringTail + 1 /\ ep2Res' = "ACK"
       ELSE ep2Res' = "NAK" /\ UNCHANGED <<ep2Buf, ringTail>>
    /\ UNCHANGED <<genVars, devEnum, resetInt, hostVars>>

\* EP2 IN acknowledged: FileXfer_FillCallback pops a packet, ends the file,
\* or generates one packet on the spot.
IsrIn ==
    /\ xferInt = "in" /\ xferInt' = "none"
    /\ PumpAhead => ringHead # ringTail \/ pc = "top"
    /\ \/ /\ ringHead # ringTail
          /\ ep2Buf' = ringData[Slot(ringTail)] /\ ringTail' = ringTail + 1
          /\ ep2Res' = "ACK"
          /\ UNCHANGED <<genPos, walk>>
       \/ /\ ringHead = ringTail /\ genPos >= Total
          /\ ep2Res' = "NAK"
          /\ UNCHANGED <<ep2Buf, ringTail, genPos, walk>>
       \/ /\ ringHead = ringTail /\ genPos < Total
          /\ ep2Buf' = <<walk, walk + 1>> /\ walk' = walk + 2 /\ genPos' = genPos + 1
          /\ ep2Res' = "ACK"
          /\ UNCHANGED ringTail
    /\ UNCHANGED <<pc, idx, offset, ringData, ringHead, devEnum, resetInt, hostVars>>

\* Mutation: the pixel walk is not reset with the position.
IsrStart_KeepsWalk ==
    /\ xferInt = "start" /\ xferInt' = "none"
    /\ LET n == IF Total < Slots THEN Total ELSE Slots IN
       /\ ringData' = [i \in 0 .. Slots - 1 |->
              IF i < n THEN <<walk + 2 * i, walk + 2 * i + 1>> ELSE ringData[i]]
       /\ ringHead' = n /\ genPos' = n /\ walk' = walk + 2 * n
    /\ ep2Buf' = ringData'[0] /\ ringTail' = 1 /\ ep2Res' = "ACK"
    /\ host' = "reading"
    /\ UNCHANGED <<pc, idx, offset, devEnum, resetInt, got, starts, resets>>

\* Mutation: the first packet is armed and left in the ring.
IsrStart_KeepsTail ==
    /\ xferInt = "start" /\ xferInt' = "none"
    /\ LET n == IF Total < Slots THEN Total ELSE Slots IN
       /\ ringData' = [i \in 0 .. Slots - 1 |-> IF i < n THEN Packet(i) ELSE ringData[i]]
       /\ ringHead' = n /\ genPos' = n /\ walk' = 2 * n
    /\ ep2Buf' = ringData'[0] /\ ringTail' = 0 /\ ep2Res' = "ACK"
    /\ host' = "reading"
    /\ UNCHANGED <<pc, idx, offset, devEnum, resetInt, got, starts, resets>>

\* START_FILE_XFER: FileXfer_Start resets everything, fills the ring and arms
\* the first packet, all in the interrupt.  The status stage lets the host read.
IsrStart ==
    /\ xferInt = "start" /\ xferInt' = "none"
    /\ LET n == IF Total < Slots THEN Total ELSE Slots IN
       /\ ringData' = [i \in 0 .. Slots - 1 |-> IF i < n THEN Packet(i) ELSE ringData[i]]
       /\ ringHead' = n /\ genPos' = n /\ walk' = 2 * n
    /\ IF devEnum
       THEN ep2Buf' = ringData'[0] /\ ringTail' = 1 /\ ep2Res' = "ACK"
       ELSE ringTail' = 0 /\ UNCHANGED <<ep2Buf, ep2Res>>
    /\ host' = "reading"
    /\ UNCHANGED <<pc, idx, offset, devEnum, resetInt, got, starts, resets>>

IsrConfig ==
    /\ xferInt = "config" /\ xferInt' = "none"
    /\ devEnum' = TRUE /\ host' = "idle"
    /\ UNCHANGED <<genVars, epVars, resetInt, got, starts, resets>>

\* Bus reset: USBFS_Device_Endp_Init NAKs EP2; the ring is not touched.
IsrReset ==
    /\ xferInt = "none" /\ resetInt
    /\ resetInt' = FALSE /\ devEnum' = FALSE /\ ep2Res' = "NAK"
    /\ UNCHANGED <<genVars, ringTail, ep2Buf, xferInt, hostVars>>

Isr == IsrIn \/ IsrStart \/ IsrConfig \/ IsrReset

(***************************************************************************)
(* The host.                                                               *)
(***************************************************************************)

BusQuiet == xferInt = "none" /\ ~resetInt

HostConfigure ==
    /\ BusQuiet /\ host = "reset"
    /\ host' = "configuring" /\ xferInt' = "config"
    /\ UNCHANGED <<genVars, epVars, devEnum, resetInt, got, starts, resets>>

\* The ring is full or the file generated: the main loop is not generating.
PumpResting == pc = "top" /\ (ringHead - ringTail >= Slots \/ genPos >= Total)

HostStart ==
    /\ BusQuiet /\ host \in (IF RestartAnytime THEN {"idle", "reading"} ELSE {"idle"})
    /\ RestartAnytime \/ PumpResting
    /\ starts < MaxStarts /\ starts' = starts + 1
    /\ host' = "starting" /\ got' = << >> /\ xferInt' = "start"
    /\ UNCHANGED <<genVars, epVars, devEnum, resetInt, resets>>

HostTake ==
    /\ BusQuiet /\ host = "reading" /\ ep2Res = "ACK"
    /\ got' = Append(got, ep2Buf) /\ xferInt' = "in"
    /\ host' = IF Len(got') = Total THEN "idle" ELSE "reading"
    /\ UNCHANGED <<genVars, epVars, devEnum, resetInt, starts, resets>>

BusReset ==
    /\ host = "idle" /\ resets < MaxResets
    /\ host' = "reset" /\ resetInt' = TRUE /\ resets' = resets + 1
    /\ UNCHANGED <<genVars, epVars, devEnum, xferInt, got, starts>>

Next == Pump \/ Isr \/ HostConfigure \/ HostStart \/ HostTake \/ BusReset

Spec == Init /\ [][Next]_vars

\* The main loop and the interrupt keep running, and a host that reads polls.
FairSpec == Spec /\ WF_vars(Pump) /\ WF_vars(Isr) /\ WF_vars(HostTake)

-----------------------------------------------------------------------------

\* Every packet received is the next one of the file, both halves of it
\* computed from the pixel walk at its place: nothing is generated twice,
\* skipped, or mixed from two positions.
InOrder == \A i \in 1 .. Len(got) : got[i] = Packet(i - 1)

\* The packets that wait in the ring are the ones just before s_genPos, whole.
RingInOrder ==
    LET ahead == IF pc = "publish" THEN 1 ELSE 0 IN
    \A i \in 0 .. ringHead - ringTail - 1 :
        ringData[Slot(ringTail + i)] = Packet(genPos - ahead - (ringHead - ringTail) + i)

Download == INSTANCE FileDownload WITH
    reading <- (host = "reading"),
    got <- [i \in 1 .. Len(got) |-> got[i][1] \div 2]

\* As long as the pump stays ahead and starts find it at rest, prefill, ring
\* and fallback together implement the in-order download and complete it:
\* without s_needArm or a self-heal, the interrupt never leaves EP2 unarmed
\* before the end of the file.
ImplementsDownload == Download!DownloadSpec
=============================================================================
