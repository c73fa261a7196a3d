--------------------------- MODULE Ep2RingProofs ---------------------------
(***************************************************************************)
(* Proofs about Ep2Ring, for every ring size, file length and host.        *)
(***************************************************************************)
EXTENDS Ep2Ring, TLAPS

(***************************************************************************)
(* Arithmetic modulo C, which is how an index into a ring is computed.     *)
(***************************************************************************)

\* Numbers less than C apart are the same modulo C only if they are equal.
LEMMA ModDistinct ==
    ASSUME NEW C \in Nat \ {0}, NEW a \in Int, NEW b \in Int, a - b < C, b - a < C, a % C = b % C
    PROVE  a = b
<1>1. a = C * (a \div C) + (a % C) /\ b = C * (b \div C) + (b % C)
  OBVIOUS
<1>2. C * (a \div C - b \div C) < C /\ C * (b \div C - a \div C) < C
  BY <1>1
<1> QED
  BY <1>1, <1>2

-----------------------------------------------------------------------------
\* The inductive invariant, in named parts.

\* The generator runs one packet ahead of s_ringHead exactly while a generated
\* packet is not yet published.
GenPosOK ==
    /\ ringHead = IF pc = "publish" THEN genPos - 1 ELSE genPos
    /\ pc = "gen" => genPos < Total

\* At most Slots - 1 packets wait, and while one is generated there are fewer:
\* the interrupt can only have popped since the test.
WindowOK ==
    /\ ringTail <= ringHead
    /\ ringHead - ringTail <= Slots - 1
    /\ pc \in {"gen", "publish"} => ringHead - ringTail < Slots - 1

\* The waiting packets, and the one popped last, are in their slots.
HeldOK ==
    /\ \A i \in Packets : ringTail - 1 <= i /\ i < ringHead => ringData[Slot(i)] = i
    /\ pc = "publish" => ringData[Slot(ringHead)] = ringHead

\* What points into the ring points at the packet popped last; a response ACK
\* may also be waiting in the CPU register of the toggle flip.
DmaOK ==
    /\ dmaPtr # Null => ringTail > 0 /\ dmaPtr = Slot(ringTail - 1)
    /\ epRes = "ACK" \/ (pc = "flipWrite" /\ ctrlCopy.res = "ACK")
         => ringTail > 0 /\ dmaReg = Slot(ringTail - 1)

RingInv == TypeOK /\ GenPosOK /\ WindowOK /\ HeldOK /\ DmaOK

-----------------------------------------------------------------------------
\* A sequence number falls into a slot of the ring.
LEMMA SlotInRing == ASSUME NEW i \in Nat PROVE Slot(i) \in 0 .. Slots - 1
  BY ConstantsAssumption DEF Slot

\* Numbers less than a ring apart do not share a slot.
LEMMA SlotsDistinct ==
  ASSUME NEW a \in Nat, NEW b \in Nat, a < b, b - a < Slots
  PROVE  Slot(a) # Slot(b)
<1>1. Slots \in Nat \ {0} /\ a \in Int /\ b \in Int /\ a - b < Slots
  BY ConstantsAssumption
<1>2. SUFFICES ASSUME a % Slots = b % Slots PROVE FALSE
  BY DEF Slot
<1>3. a = b
  BY <1>1, <1>2, ModDistinct
<1> QED
  BY <1>3

\* No Slots - 1 consecutive numbers include the one just above them, modulo the
\* ring: the slot the pump generates into is none of those in use.
LEMMA HeadSlotFree ==
  ASSUME TypeOK, WindowOK, pc \in {"fill", "gen"}, ringHead - ringTail < Slots - 1,
         NEW i \in Packets, ringTail - 1 <= i, i < ringHead
  PROVE  Slot(i) # Slot(ringHead)
<1>1. i \in Nat /\ ringHead \in Nat /\ ringHead - i < Slots
  BY ConstantsAssumption DEF TypeOK, RingTypeOK, Packets
<1> QED
  BY <1>1, SlotsDistinct

\* The host and the pump type the rest of the state; here the record of bounds.
LEMMA SpendTyped ==
  ASSUME NEW b \in {"start", "reopen", "config", "reset", "lostack"}, TypeOK, Spend(b)
  PROVE  budget' \in HostKind
  BY DEF TypeOK, BusTypeOK, Spend, HostKind

\* What USB_IRQHandler and USBD_EP2_StartTransfer do to EP2 keeps the invariant,
\* from wherever in the pump they run.
LEMMA FillAndArmKeeps ==
  ASSUME RingInv, FillAndArm, UNCHANGED <<ctrlCopy, ringData, ringHead, genPos>>,
         \/ pc' = pc
         \/ pc \in {"start", "heal"} /\ pc' \in {"top", "stuck"}
  PROVE  /\ ringTail' \in 0 .. Total /\ needArm' \in BOOLEAN /\ epRes' \in {"ACK", "NAK"}
         /\ dmaPtr' \in 0 .. Slots - 1 \cup {Null}
         /\ dmaReg' \in 0 .. Slots - 1 \cup {Null}
         /\ GenPosOK' /\ WindowOK' /\ HeldOK' /\ DmaOK'
<1>1. PICK n \in {0, 1} : /\ FillCallback(n)
                          /\ dmaReg' = IF dmaPtr' # Null THEN dmaPtr' ELSE dmaReg
                          /\ epRes' = IF n > 0 THEN "ACK" ELSE "NAK"
  BY DEF FillAndArm
<1>2. GenPosOK'
  BY DEF RingInv, GenPosOK
<1>3. CASE ~startReq /\ ringHead # ringTail
  <2>1. n = 1 /\ dmaPtr' = Slot(ringTail) /\ ringTail' = ringTail + 1 /\ needArm' = needArm
    BY <1>1, <1>3 DEF FillCallback
  <2>2. ringTail \in Nat /\ ringHead \in 0 .. Total /\ ringTail < ringHead
    BY <1>3 DEF RingInv, TypeOK, RingTypeOK, WindowOK
  <2>3. Slot(ringTail) \in 0 .. Slots - 1 /\ Slot(ringTail) # Null
    BY <2>2, SlotInRing DEF Null
  <2>4. dmaReg' = Slot(ringTail) /\ epRes' = "ACK" /\ ringTail = ringTail' - 1
    BY <1>1, <2>1, <2>2, <2>3
  <2>5. WindowOK'
    BY <2>1, <2>2, ConstantsAssumption DEF RingInv, WindowOK
  <2>6. HeldOK'
    BY <2>1, <2>2 DEF RingInv, HeldOK, Packets
  <2>7. DmaOK'
    BY <2>1, <2>2, <2>4 DEF DmaOK
  <2> QED
    BY <1>2, <2>1, <2>2, <2>3, <2>4, <2>5, <2>6, <2>7, ConstantsAssumption
       DEF RingInv, TypeOK, Ep2TypeOK
<1>4. CASE startReq \/ ringHead = ringTail
  <2>1. n = 0 /\ ringTail' = ringTail /\ dmaPtr' \in {dmaPtr, Null}
        /\ needArm' \in {needArm, TRUE}
    BY <1>1, <1>4 DEF FillCallback
  <2>2. epRes' = "NAK" /\ dmaReg' \in {dmaPtr, dmaReg}
        /\ (dmaReg' # dmaReg => dmaReg' = dmaPtr /\ dmaPtr # Null)
    BY <1>1, <2>1
  <2>3. WindowOK' /\ HeldOK'
    BY <2>1 DEF RingInv, WindowOK, HeldOK
  <2>4. DmaOK'
    BY <2>1, <2>2 DEF RingInv, DmaOK
  <2> QED
    BY <1>2, <2>1, <2>2, <2>3, <2>4 DEF RingInv, TypeOK, RingTypeOK, Ep2TypeOK
<1> QED
  BY <1>3, <1>4

LEMMA StartTransferKeeps ==
  ASSUME RingInv, EP2_StartTransfer, UNCHANGED <<ctrlCopy, ringData, ringHead, genPos>>,
         pc \in {"start", "heal"}, pc' \in {"top", "stuck"}
  PROVE  /\ irqOn' \in BOOLEAN
         /\ ringTail' \in 0 .. Total /\ needArm' \in BOOLEAN /\ epRes' \in {"ACK", "NAK"}
         /\ dmaPtr' \in 0 .. Slots - 1 \cup {Null}
         /\ dmaReg' \in 0 .. Slots - 1 \cup {Null}
         /\ GenPosOK' /\ WindowOK' /\ HeldOK' /\ DmaOK'
<1>1. CASE epRes = "NAK"
  BY <1>1, FillAndArmKeeps DEF EP2_StartTransfer
<1>2. CASE epRes # "NAK"
  <2>1. UNCHANGED armVars /\ irqOn' = TRUE
    BY <1>2 DEF EP2_StartTransfer
  <2> QED
    BY <2>1 DEF RingInv, TypeOK, RingTypeOK, Ep2TypeOK, GenPosOK, WindowOK, HeldOK,
                DmaOK, armVars
<1> QED
  BY <1>1, <1>2

-----------------------------------------------------------------------------
LEMMA RingInit == Init => RingInv
<1> SUFFICES ASSUME Init PROVE RingInv
  OBVIOUS
<1>1. PumpTypeOK
  <2>1. heal \in 0 .. HealMax /\ stuck \in 0 .. StuckMax /\ lastTail \in 0 .. Total
    BY ConstantsAssumption DEF Init
  <2> QED
    BY <2>1 DEF Init, PumpTypeOK, PumpPoints
<1>2. RingTypeOK
  BY ConstantsAssumption DEF Init, RingTypeOK, Torn
<1>3. Ep2TypeOK
  BY DEF Init, Ep2TypeOK
<1>4. BusTypeOK
  BY ConstantsAssumption DEF Init, BusTypeOK
<1>5. GenPosOK /\ WindowOK /\ HeldOK /\ DmaOK
  BY ConstantsAssumption DEF Init, GenPosOK, WindowOK, HeldOK, DmaOK, Packets, Null
<1> QED
  BY <1>1, <1>2, <1>3, <1>4, <1>5 DEF RingInv, TypeOK

\* A step that leaves the ring and EP2 alone keeps what the invariant says of
\* them, outside the few program points that say more.
LEMMA RingFrame ==
  ASSUME RingInv, UNCHANGED <<ringData, ringHead, genPos, ringTail, dmaPtr, dmaReg, epRes>>,
         \/ UNCHANGED <<pc, ctrlCopy>>
         \/ pc \notin {"gen", "publish"} /\ pc' \notin {"gen", "publish", "flipWrite"}
  PROVE  RingTypeOK' /\ GenPosOK' /\ WindowOK' /\ HeldOK' /\ DmaOK'
  BY DEF RingInv, TypeOK, RingTypeOK, GenPosOK, WindowOK, HeldOK, DmaOK

LEMMA PumpKeepsBus == RingInv /\ Pump => BusTypeOK'
<1> SUFFICES ASSUME RingInv, Pump PROVE BusTypeOK'
  OBVIOUS
<1>1. UNCHANGED <<hostVars, xferInt, resetInt>>
  BY DEF Pump, PumpDisable, PumpNoRequest, PumpReset, ResetTo, PumpGenerate, PumpFilled,
         PumpGenerated, PumpPublish, PumpFinish, PumpArm, PumpClearNeedArm, PumpStart,
         PumpHeal, PumpWatch, PumpFlipRead, PumpFlipWrite, FlipWrite
<1> QED
  BY <1>1 DEF RingInv, TypeOK, BusTypeOK, hostVars

LEMMA PumpKeeps == RingInv /\ Pump => RingInv'
<1> SUFFICES ASSUME RingInv, Pump PROVE RingInv'
  OBVIOUS
<1> USE DEF RingInv, TypeOK
<1>0. BusTypeOK'
  BY PumpKeepsBus
<1>1. CASE PumpDisable
  <2>1. PumpTypeOK'
    BY <1>1, ConstantsAssumption DEF PumpDisable, PumpTypeOK, RingTypeOK, Ep2TypeOK, PumpPoints
  <2>2. Ep2TypeOK'
    BY <1>1 DEF PumpDisable, Ep2TypeOK, armVars
  <2> QED
    BY <1>0, <1>1, <2>1, <2>2, RingFrame DEF PumpDisable, armVars
<1>2. CASE PumpNoRequest
  <2>1. PumpTypeOK'
    BY <1>2, ConstantsAssumption DEF PumpNoRequest, PumpTypeOK, RingTypeOK, Ep2TypeOK, PumpPoints
  <2>2. Ep2TypeOK'
    BY <1>2 DEF PumpNoRequest, Ep2TypeOK, armVars
  <2> QED
    BY <1>0, <1>2, <2>1, <2>2, RingFrame DEF PumpNoRequest, armVars
<1>3. CASE PumpReset
  <2> USE <1>3 DEF PumpReset, ResetTo
  <2>1. PumpTypeOK'
    BY DEF PumpTypeOK, PumpPoints
  <2>2. RingTypeOK'
    BY ConstantsAssumption DEF RingTypeOK
  <2>3. Ep2TypeOK'
    <3>1. ctrlCopy.tog \in {0, 1}
      BY DEF PumpTypeOK
    <3> QED
      BY <3>1 DEF Ep2TypeOK
  <2>4. GenPosOK' /\ WindowOK' /\ HeldOK' /\ DmaOK'
    BY ConstantsAssumption DEF GenPosOK, WindowOK, HeldOK, DmaOK, Packets
  <2> QED
    BY <1>0, <2>1, <2>2, <2>3, <2>4
<1>4. CASE PumpGenerate
  <2>1. /\ ringHead \in Nat /\ Slot(ringHead) \in 0 .. Slots - 1 /\ ringHead = genPos
        /\ ringHead - ringTail < Slots - 1 /\ genPos < Total
        /\ pc = "fill" /\ pc' = "gen"
        /\ ringHead' = ringHead /\ ringTail' = ringTail /\ genPos' = genPos
    BY <1>4, SlotInRing DEF PumpGenerate, RoomInRing, RingTypeOK, GenPosOK, armVars
  <2>2. PumpTypeOK' /\ Ep2TypeOK'
    BY <1>4 DEF PumpGenerate, PumpTypeOK, Ep2TypeOK, PumpPoints, armVars
  <2>3. RingTypeOK'
    BY <1>4, <2>1, ConstantsAssumption DEF PumpGenerate, RingTypeOK
  <2>4. ASSUME NEW i \in Packets, ringTail - 1 <= i, i < ringHead
        PROVE  ringData'[Slot(i)] = i
    <3>1. Slot(i) # Slot(ringHead)
      BY <2>1, <2>4, HeadSlotFree
    <3>2. i \in Nat /\ Slot(i) \in 0 .. Slots - 1
      BY <2>4, SlotInRing, ConstantsAssumption DEF Packets
    <3>3. ringData'[Slot(i)] = ringData[Slot(i)]
      BY <1>4, <2>1, <3>1, <3>2 DEF PumpGenerate, RingTypeOK
    <3> QED
      BY <2>4, <3>3 DEF HeldOK
  <2>5. HeldOK'
    BY <2>1, <2>4 DEF HeldOK
  <2>6. GenPosOK' /\ WindowOK' /\ DmaOK'
    BY <1>4, <2>1 DEF PumpGenerate, GenPosOK, WindowOK, DmaOK, armVars
  <2> QED
    BY <1>0, <2>2, <2>3, <2>5, <2>6
<1>5. CASE PumpFilled
  <2>1. PumpTypeOK'
    BY <1>5, ConstantsAssumption DEF PumpFilled, PumpTypeOK, RingTypeOK, Ep2TypeOK, PumpPoints
  <2>2. Ep2TypeOK'
    BY <1>5 DEF PumpFilled, Ep2TypeOK, armVars
  <2> QED
    BY <1>0, <1>5, <2>1, <2>2, RingFrame DEF PumpFilled, armVars
<1>6. CASE PumpGenerated
  <2>1. /\ ringHead \in Nat /\ Slot(ringHead) \in 0 .. Slots - 1 /\ ringHead = genPos
        /\ ringHead - ringTail < Slots - 1 /\ genPos < Total /\ genPos \in Packets
        /\ pc = "gen" /\ pc' = "publish"
        /\ ringHead' = ringHead /\ ringTail' = ringTail /\ genPos' = genPos + 1
    <3>1. pc = "gen" /\ ringHead \in Nat /\ genPos \in Nat
      BY <1>6 DEF PumpGenerated, RingTypeOK
    <3>2. ringHead = genPos /\ genPos < Total /\ ringHead - ringTail < Slots - 1
      BY <3>1 DEF GenPosOK, WindowOK
    <3> QED
      BY <1>6, <3>1, <3>2, SlotInRing, ConstantsAssumption
         DEF PumpGenerated, Packets, armVars
  <2>2. PumpTypeOK' /\ Ep2TypeOK'
    BY <1>6 DEF PumpGenerated, PumpTypeOK, Ep2TypeOK, PumpPoints, armVars
  <2>3. RingTypeOK'
    BY <1>6, <2>1, ConstantsAssumption DEF PumpGenerated, RingTypeOK
  <2>4. ASSUME NEW i \in Packets, ringTail - 1 <= i, i < ringHead
        PROVE  ringData'[Slot(i)] = i
    <3>1. Slot(i) # Slot(ringHead)
      BY <2>1, <2>4, HeadSlotFree
    <3>2. i \in Nat /\ Slot(i) \in 0 .. Slots - 1
      BY <2>4, SlotInRing, ConstantsAssumption DEF Packets
    <3>3. ringData'[Slot(i)] = ringData[Slot(i)]
      BY <1>6, <2>1, <3>1, <3>2 DEF PumpGenerated, RingTypeOK
    <3> QED
      BY <2>4, <3>3 DEF HeldOK
  <2>5. HeldOK'
    <3>1. ringData'[Slot(ringHead)] = ringHead
      BY <1>6, <2>1 DEF PumpGenerated, RingTypeOK
    <3> QED
      BY <2>1, <2>4, <3>1 DEF HeldOK
  <2>6. GenPosOK' /\ WindowOK' /\ DmaOK'
    BY <1>6, <2>1 DEF PumpGenerated, GenPosOK, WindowOK, DmaOK, armVars
  <2> QED
    BY <1>0, <2>2, <2>3, <2>5, <2>6
<1>7. CASE PumpPublish
  <2>1. /\ ringHead \in Nat /\ ringTail \in Nat /\ genPos \in 0 .. Total
        /\ ringHead = genPos - 1 /\ ringHead - ringTail < Slots - 1
        /\ pc = "publish" /\ pc' = "fill" /\ ringData' = ringData
        /\ ringHead' = ringHead + 1 /\ ringTail' = ringTail /\ genPos' = genPos
    BY <1>7 DEF PumpPublish, RingTypeOK, GenPosOK, WindowOK, armVars
  <2>2. PumpTypeOK' /\ Ep2TypeOK'
    BY <1>7 DEF PumpPublish, PumpTypeOK, Ep2TypeOK, PumpPoints, armVars
  <2>3. RingTypeOK'
    BY <2>1, ConstantsAssumption DEF RingTypeOK
  <2>4. HeldOK'
    BY <2>1, ConstantsAssumption DEF HeldOK, Packets
  <2>5. GenPosOK' /\ WindowOK'
    BY <2>1, ConstantsAssumption DEF GenPosOK, WindowOK
  <2>6. DmaOK'
    BY <1>7, <2>1 DEF PumpPublish, DmaOK, armVars
  <2> QED
    BY <1>0, <2>2, <2>3, <2>4, <2>5, <2>6
<1>8. CASE PumpFinish
  <2>1. PumpTypeOK'
    BY <1>8, ConstantsAssumption DEF PumpFinish, PumpTypeOK, RingTypeOK, Ep2TypeOK, PumpPoints
  <2>2. Ep2TypeOK'
    BY <1>8 DEF PumpFinish, Ep2TypeOK, armVars
  <2> QED
    BY <1>0, <1>8, <2>1, <2>2, RingFrame DEF PumpFinish, armVars
<1>9. CASE PumpArm
  <2>1. PumpTypeOK'
    BY <1>9, ConstantsAssumption DEF PumpArm, PumpTypeOK, RingTypeOK, Ep2TypeOK, PumpPoints
  <2>2. Ep2TypeOK'
    BY <1>9 DEF PumpArm, Ep2TypeOK, armVars
  <2> QED
    BY <1>0, <1>9, <2>1, <2>2, RingFrame DEF PumpArm, armVars
<1>10. CASE PumpClearNeedArm
  <2>1. PumpTypeOK'
    BY <1>10, ConstantsAssumption DEF PumpClearNeedArm, PumpTypeOK, RingTypeOK, Ep2TypeOK, PumpPoints
  <2>2. Ep2TypeOK'
    BY <1>10 DEF PumpClearNeedArm, Ep2TypeOK, armVars
  <2> QED
    BY <1>0, <1>10, <2>1, <2>2, RingFrame DEF PumpClearNeedArm, armVars
<1>11. CASE PumpStart
  <2>1. /\ irqOn' \in BOOLEAN
        /\ ringTail' \in 0 .. Total /\ needArm' \in BOOLEAN /\ epRes' \in {"ACK", "NAK"}
        /\ dmaPtr' \in 0 .. Slots - 1 \cup {Null}
        /\ dmaReg' \in 0 .. Slots - 1 \cup {Null}
        /\ GenPosOK' /\ WindowOK' /\ HeldOK' /\ DmaOK'
    BY <1>11, StartTransferKeeps DEF PumpStart
  <2>2. PumpTypeOK' /\ RingTypeOK'
    BY <1>11, <2>1 DEF PumpStart, PumpTypeOK, RingTypeOK, PumpPoints
  <2>3. Ep2TypeOK'
    BY <1>11, <2>1 DEF PumpStart, Ep2TypeOK
  <2> QED
    BY <1>0, <2>1, <2>2, <2>3
<1>12. CASE PumpHeal
  <2>1. /\ irqOn' \in BOOLEAN
        /\ ringTail' \in 0 .. Total /\ needArm' \in BOOLEAN /\ epRes' \in {"ACK", "NAK"}
        /\ dmaPtr' \in 0 .. Slots - 1 \cup {Null}
        /\ dmaReg' \in 0 .. Slots - 1 \cup {Null}
        /\ GenPosOK' /\ WindowOK' /\ HeldOK' /\ DmaOK'
    BY <1>12, StartTransferKeeps DEF PumpHeal
  <2>2. PumpTypeOK' /\ RingTypeOK'
    BY <1>12, <2>1 DEF PumpHeal, PumpTypeOK, RingTypeOK, PumpPoints
  <2>3. Ep2TypeOK'
    BY <1>12, <2>1 DEF PumpHeal, Ep2TypeOK
  <2> QED
    BY <1>0, <2>1, <2>2, <2>3
<1>13. CASE PumpWatch
  <2>1. PumpTypeOK'
    BY <1>13, ConstantsAssumption DEF PumpWatch, CountOver, PumpTypeOK, RingTypeOK, Ep2TypeOK, PumpPoints
  <2>2. Ep2TypeOK'
    BY <1>13 DEF PumpWatch, Ep2TypeOK, armVars
  <2> QED
    BY <1>0, <1>13, <2>1, <2>2, RingFrame DEF PumpWatch, armVars
<1>14. CASE PumpFlipRead
  <2>1. PumpTypeOK' /\ RingTypeOK' /\ Ep2TypeOK'
    BY <1>14 DEF PumpFlipRead, PumpTypeOK, RingTypeOK, Ep2TypeOK, PumpPoints, armVars
  <2> QED
    BY <1>0, <1>14, <2>1 DEF PumpFlipRead, GenPosOK, WindowOK, HeldOK, DmaOK, armVars
<1>15. CASE PumpFlipWrite
  <2> USE <1>15 DEF PumpFlipWrite, FlipWrite
  <2>1. PumpTypeOK' /\ RingTypeOK' /\ Ep2TypeOK'
    <3>1. ctrlCopy.res \in {"ACK", "NAK"} /\ 1 - ctrlCopy.tog \in {0, 1}
      BY DEF PumpTypeOK
    <3> QED
      BY <3>1 DEF PumpTypeOK, RingTypeOK, Ep2TypeOK, PumpPoints
  <2> QED
    BY <1>0, <2>1 DEF GenPosOK, WindowOK, HeldOK, DmaOK
<1> QED
  BY <1>1, <1>2, <1>3, <1>4, <1>5, <1>6, <1>7, <1>8, <1>9, <1>10, <1>11, <1>12,
     <1>13, <1>14, <1>15 DEF Pump

LEMMA IsrKeeps == RingInv /\ Isr => RingInv'
<1> SUFFICES ASSUME RingInv, Isr PROVE RingInv'
  OBVIOUS
<1> USE DEF RingInv, TypeOK
<1>1. CASE IsrIn
  <2>1. UNCHANGED pumpVars
    BY <1>1 DEF IsrIn
  <2>2. /\ ringTail' \in 0 .. Total /\ needArm' \in BOOLEAN /\ epRes' \in {"ACK", "NAK"}
        /\ dmaPtr' \in 0 .. Slots - 1 \cup {Null}
        /\ dmaReg' \in 0 .. Slots - 1 \cup {Null}
        /\ GenPosOK' /\ WindowOK' /\ HeldOK' /\ DmaOK'
    BY <1>1, FillAndArmKeeps DEF IsrIn, pumpVars
  <2>3. PumpTypeOK' /\ RingTypeOK'
    BY <2>1, <2>2 DEF pumpVars, PumpTypeOK, RingTypeOK
  <2>4. Ep2TypeOK' /\ BusTypeOK'
    BY <1>1, <2>2 DEF IsrIn, Ep2TypeOK, BusTypeOK, hostVars
  <2> QED
    BY <2>2, <2>3, <2>4
<1>2. CASE IsrStart
  <2>1. PumpTypeOK' /\ Ep2TypeOK' /\ BusTypeOK'
    BY <1>2 DEF IsrStart, PumpTypeOK, Ep2TypeOK, BusTypeOK, pumpVars, armVars
  <2> QED
    BY <1>2, <2>1, RingFrame DEF IsrStart, pumpVars, armVars
<1>3. CASE IsrConfig
  <2>1. PumpTypeOK' /\ Ep2TypeOK' /\ BusTypeOK'
    BY <1>3 DEF IsrConfig, PumpTypeOK, Ep2TypeOK, BusTypeOK, pumpVars, armVars, hostVars
  <2> QED
    BY <1>3, <2>1, RingFrame DEF IsrConfig, pumpVars, armVars
<1>4. CASE IsrReset
  <2>1. PumpTypeOK' /\ RingTypeOK' /\ Ep2TypeOK' /\ BusTypeOK'
    BY <1>4 DEF IsrReset, PumpTypeOK, RingTypeOK, Ep2TypeOK, BusTypeOK, pumpVars, hostVars
  <2> QED
    BY <1>4, <2>1 DEF IsrReset, GenPosOK, WindowOK, HeldOK, DmaOK, pumpVars
<1> QED
  BY <1>1, <1>2, <1>3, <1>4 DEF Isr

LEMMA HostKeeps == RingInv /\ Host => RingInv'
<1> SUFFICES ASSUME RingInv, Host PROVE RingInv'
  OBVIOUS
<1> USE DEF RingInv, TypeOK
<1>1. UNCHANGED <<pumpVars, armVars, irqOn, startReq>>
  BY DEF Host, HostStart, HostConfigure, HostReopen, HostTake, HostTakeLostAck, HostDrop,
         BusReset
<1>2. PumpTypeOK' /\ RingTypeOK' /\ GenPosOK' /\ WindowOK' /\ HeldOK' /\ DmaOK'
  BY <1>1, RingFrame DEF PumpTypeOK, pumpVars, armVars
<1>3. Ep2TypeOK'
  <2>1. epTog' \in {epTog, 1 - epTog}
    BY DEF Host, HostStart, HostConfigure, HostReopen, HostTake, HostTakeLostAck, HostDrop,
           BusReset, Acknowledged, hostVars
  <2> QED
    BY <1>1, <2>1 DEF Ep2TypeOK, armVars
<1>4. BusTypeOK'
  <2>1. CASE HostStart
    BY <2>1, SpendTyped DEF HostStart, BusTypeOK
  <2>2. CASE HostConfigure
    BY <2>2, SpendTyped DEF HostConfigure, BusTypeOK
  <2>3. CASE HostReopen
    BY <2>3, SpendTyped DEF HostReopen, BusTypeOK
  <2>4. ASSUME NEW kind \in {"glitch", "held"}, BusReset(kind) PROVE BusTypeOK'
    BY <2>4, SpendTyped DEF BusReset, BusTypeOK
  <2>5. ASSUME epRes = "ACK", Receive(ringData[dmaReg])
        PROVE  /\ got' \in Seq(Packets \cup {Torn}) /\ hostTog' \in {0, 1}
               /\ host' \in {"idle", "reading"}
    <3>1. ringTail - 1 \in Nat /\ dmaReg = Slot(ringTail - 1)
      BY <2>5 DEF DmaOK, RingTypeOK
    <3>2. ringData[dmaReg] \in Packets \cup {Torn}
      BY <3>1, SlotInRing DEF RingTypeOK
    <3> QED
      BY <2>5, <3>2 DEF Receive, BusTypeOK
  <2>6. CASE HostTake
    BY <2>5, <2>6 DEF HostTake, Acknowledged, BusTypeOK
  <2>7. CASE HostTakeLostAck
    BY <2>5, <2>7, SpendTyped DEF HostTakeLostAck, BusTypeOK
  <2>8. CASE HostDrop
    BY <2>8 DEF HostDrop, Acknowledged, BusTypeOK, hostVars
  <2> QED
    BY <2>1, <2>2, <2>3, <2>4, <2>6, <2>7, <2>8 DEF Host
<1> QED
  BY <1>2, <1>3, <1>4

LEMMA RingStep == RingInv /\ [Next]_vars => RingInv'
<1>1. ASSUME RingInv, UNCHANGED vars PROVE RingInv'
  <2>1. TypeOK'
    BY <1>1 DEF RingInv, TypeOK, PumpTypeOK, RingTypeOK, Ep2TypeOK, BusTypeOK, vars,
                pumpVars, armVars, hostVars
  <2> QED
    BY <1>1, <2>1, RingFrame DEF RingInv, vars, pumpVars, armVars
<1> QED
  BY <1>1, PumpKeeps, IsrKeeps, HostKeeps DEF Next

\* The inductive invariant holds throughout.
THEOREM RingInvariant == Spec => []RingInv
<1>1. Init => RingInv
  BY RingInit
<1>2. RingInv /\ [Next]_vars => RingInv'
  BY RingStep
<1> QED
  BY <1>1, <1>2, PTL DEF Spec

-----------------------------------------------------------------------------
\* Every variable of the ring, the endpoint and the host keeps its type, the
\* positions s_ringHead, s_ringTail and s_genPos within the file.
THEOREM TypeCorrect == Spec => []TypeOK
<1>1. RingInv => TypeOK
  BY DEF RingInv
<1> QED
  BY <1>1, RingInvariant, PTL

LEMMA RingIntact == RingInv => DmaSlotIntact
<1> SUFFICES ASSUME RingInv, epRes = "ACK"
             PROVE  /\ ringTail > 0 /\ dmaReg = Slot(ringTail - 1)
                    /\ ringData[dmaReg] = ringTail - 1
  BY DEF DmaSlotIntact
<1>1. ringTail > 0 /\ dmaReg = Slot(ringTail - 1)
  BY DEF RingInv, DmaOK
<1>2. ringTail - 1 \in Packets /\ ringTail - 1 < ringHead
  BY <1>1, ConstantsAssumption DEF RingInv, TypeOK, RingTypeOK, WindowOK, Packets
<1>3. ringData[Slot(ringTail - 1)] = ringTail - 1
  BY <1>2 DEF RingInv, HeldOK, Packets
<1> QED
  BY <1>1, <1>3

\* Zero copy: whatever the host does, the slot an armed EP2 sends from holds
\* the packet popped last, whole (ch592f/app/filexfer.c:177, the headroom).
THEOREM ZeroCopy == Spec => []DmaSlotIntact
  BY RingIntact, RingInvariant, PTL

\* Producer and consumer without a lock: at every point of the pump where the
\* interrupt may pop, the packets from s_ringTail up to s_ringHead are in their
\* slots, whole and in file order.
THEOREM RingKeepsOrder == Spec => []RingInOrder
<1>1. RingInv => RingInOrder
  <2> SUFFICES ASSUME RingInv, NEW i \in ringTail .. ringHead - 1
               PROVE  ringData[Slot(i)] = i
    BY DEF RingInOrder
  <2>1. i \in Packets /\ ringTail - 1 <= i /\ i < ringHead
    BY ConstantsAssumption DEF RingInv, TypeOK, RingTypeOK, Packets
  <2> QED
    BY <2>1 DEF RingInv, HeldOK
<1> QED
  BY <1>1, RingInvariant, PTL

(***************************************************************************)
(* What the host gets: one that finishes what it starts gets the packets   *)
(* of the file in order, whatever configurations, resets, re-opens,        *)
(* self-heals and toggle flips come between, or however many of the        *)
(* handshakes of its one download are lost.                                *)
(***************************************************************************)

\* Hosts that give no download up and never pause until the watch of the pump
\* expires.  They leave packets with the wrong toggle unanswered; or they drop and
\* acknowledge them, and then any number of handshakes may be lost, but it is a
\* single download with no re-open, configuration or reset.
Finishing(h) ==
    /\ ~h.aborts /\ h.prompt
    /\ h.mismatchAcked => h.start <= 1 /\ h.reopen = 0 /\ h.config = 0 /\ h.reset = 0
Finishers == \A h \in Hosts : Finishing(h)

(***************************************************************************)
(* The inductive invariant, on top of RingInv.                             *)
(***************************************************************************)

KindOK == Finishing(budget)

\* Nothing to send: the file is out, or none has been asked for since start-up
\* and the pump, which fills the ring all the same, has no reason to arm EP2.
AtRest ==
    \/ ringTail = Total
    \/ /\ ringTail = 0 /\ ~needArm /\ ~active
       /\ pc \notin {"clear", "start", "heal", "stuck", "flip", "flipWrite"}

\* The host has the packet that EP2 holds, and will drop it: its handshake is lost.
Resent == budget.mismatchAcked /\ epTog # hostTog

\* EP2 holds the packet that the host has not got, or the last one again, and
\* what has been popped before it is what the host has.
ServedOK ==
    /\ epRes = "ACK" /\ xferInt # "in" /\ ~Resent =>
          host = "reading" /\ xferInt = "none" /\ ~startReq /\ ringTail = Len(got) + 1
    /\ Resent =>
          /\ epRes = "ACK" /\ xferInt = "none" /\ ~startReq /\ ringTail = Len(got)
          /\ ringTail < Total => host = "reading"
    /\ xferInt = "in" =>
          /\ epRes = "ACK" /\ ~startReq /\ ringTail = Len(got)
          /\ ringTail < Total => host = "reading"
    /\ epRes = "NAK" /\ host = "reading" /\ ~startReq => ringTail = Len(got)

\* A request finds EP2 unarmed, and it stays so until the ring is reset.
StartOK ==
    /\ xferInt = "start" => host = "starting" /\ got = << >>
    /\ host = "starting" => xferInt = "start"
    /\ startReq => host = "reading" /\ xferInt = "none" /\ got = << >>
    /\ pc = "reset" => startReq
    /\ xferInt # "in" /\ (host # "reading" \/ startReq) => AtRest /\ (epRes = "NAK" \/ Resent)
    /\ xferInt = "config" \/ resetInt = "held" => host = "idle"

\* From the expiry of the watch to the store nothing moves: EP2 is armed with
\* the toggle that the host does not take.
FlipOK ==
    /\ pc \in {"flip", "flipWrite"} =>
          epRes = "ACK" /\ host = "reading" /\ xferInt = "none" /\ epTog # hostTog
    /\ pc = "flipWrite" => ctrlCopy.res = "ACK"

\* Once the watch has seen the last packet go, the pump counts the transfer as
\* finished before it comes to the watch again.
LastSeen ==
    lastTail = Total =>
        /\ ringTail = Total
        /\ pc \in {"top", "fill", "finish", "arm"} /\ (pc = "arm" => ~active)

\* A host that acknowledges what it drops moves the toggle on itself, and the
\* watch must not: it cannot expire while that host reads, nor after it has read
\* the last packet and EP2 still holds it.  Nothing else touches the toggle.
LossOK ==
    budget.mismatchAcked =>
        /\ xferInt # "config" /\ resetInt = "none"
        /\ pc \notin {"flip", "flipWrite"} /\ LastSeen
        /\ pc = "reset" => ctrlCopy.tog = epTog
        /\ budget.start > 0 => host = "idle" /\ ~startReq /\ ringTail = 0 /\ epRes = "NAK"
        /\ host = "starting" \/ startReq => ringTail = 0

SyncInv == KindOK /\ ServedOK /\ StartOK /\ FlipOK /\ LossOK /\ InOrder

(***************************************************************************)
(* The pump.                                                               *)
(***************************************************************************)

\* With EP2 idle and a packet to pop, the host is there and has what came before.
LEMMA PopsForHost ==
    ASSUME RingInv, SyncInv, epRes = "NAK", ~startReq, ringHead # ringTail,
           pc \in {"start", "heal"}
    PROVE  host = "reading" /\ xferInt = "none" /\ ringTail = Len(got)
<1>1. /\ ringTail \in 0 .. Total /\ ringHead \in 0 .. Total /\ ringTail <= ringHead
      /\ xferInt \in {"none", "in", "start", "config"} /\ Total \in Nat
  BY ConstantsAssumption DEF RingInv, TypeOK, RingTypeOK, BusTypeOK, WindowOK
<1>2. ~AtRest
  BY <1>1 DEF AtRest
<1>3. xferInt # "in" /\ host = "reading"
  BY <1>2 DEF SyncInv, ServedOK, StartOK
<1> QED
  BY <1>1, <1>3 DEF SyncInv, ServedOK, StartOK

\* What USBD_EP2_StartTransfer does to EP2.
LEMMA StartTransferServes ==
    ASSUME RingInv, SyncInv, EP2_StartTransfer, pc \in {"start", "heal"},
           pc' \in {"top", "stuck"},
           UNCHANGED <<active, lastTail, hostVars, startReq, epTog, xferInt, resetInt>>
    PROVE  SyncInv'
<1>1. KindOK' /\ InOrder' /\ FlipOK' /\ Resent' = Resent
  BY DEF SyncInv, KindOK, Finishing, InOrder, FlipOK, Resent, hostVars
<1>2. epRes \in {"ACK", "NAK"} /\ ringTail \in Nat /\ Total \in Nat
  BY ConstantsAssumption DEF RingInv, TypeOK, Ep2TypeOK, RingTypeOK
<1>3. budget.mismatchAcked => lastTail' # Total
  BY DEF SyncInv, LossOK, LastSeen
<1>4. CASE epRes = "ACK"
  <2>1. UNCHANGED armVars
    BY <1>4 DEF EP2_StartTransfer
  <2> QED
    BY <1>1, <1>3, <1>4, <2>1
       DEF SyncInv, ServedOK, StartOK, AtRest, LossOK, LastSeen, armVars, hostVars
<1>5. CASE epRes = "NAK" /\ (startReq \/ ringHead = ringTail)
  <2>1. epRes' = "NAK" /\ ringTail' = ringTail
    BY <1>5 DEF EP2_StartTransfer, FillAndArm, FillCallback
  <2> QED
    BY <1>1, <1>3, <1>5, <2>1
       DEF SyncInv, ServedOK, StartOK, AtRest, LossOK, LastSeen, hostVars
<1>6. CASE epRes = "NAK" /\ ~startReq /\ ringHead # ringTail
  <2>1. epRes' = "ACK" /\ ringTail' = ringTail + 1
    BY <1>6 DEF EP2_StartTransfer, FillAndArm, FillCallback
  <2>2. host = "reading" /\ xferInt = "none" /\ ringTail = Len(got)
    BY <1>6, PopsForHost
  <2>3. ~Resent
    BY <1>6 DEF SyncInv, ServedOK
  <2> QED
    BY <1>1, <1>2, <1>3, <1>6, <2>1, <2>2, <2>3
       DEF SyncInv, ServedOK, StartOK, LossOK, LastSeen, hostVars
<1> QED
  BY <1>2, <1>4, <1>5, <1>6

\* Steps of the pump that leave EP2, tail and requests alone, and do not begin
\* what a pump at rest does not begin.
LEMMA PumpMoves ==
    ASSUME SyncInv, UNCHANGED <<ringTail, epRes, epTog, startReq, hostVars, xferInt, resetInt>>,
           pc' # "reset", pc' \notin {"flip", "flipWrite"},
           AtRest => AtRest', LastSeen => LastSeen'
    PROVE  SyncInv'
  BY DEF SyncInv, KindOK, Finishing, ServedOK, StartOK, FlipOK, LossOK, Resent, InOrder, hostVars

LEMMA PumpServes == RingInv /\ SyncInv /\ Pump => SyncInv'
<1> SUFFICES ASSUME RingInv, SyncInv, Pump PROVE SyncInv'
  OBVIOUS
<1>0. /\ ringTail \in 0 .. Total /\ ringHead \in 0 .. Total /\ genPos \in 0 .. Total
      /\ ringTail <= ringHead /\ ringHead <= genPos /\ Total \in Nat \ {0}
  BY ConstantsAssumption DEF RingInv, TypeOK, RingTypeOK, WindowOK, GenPosOK
<1>1. CASE PumpDisable
  <2>1. ctrlCopy' = [res |-> epRes, tog |-> epTog]
    BY <1>1 DEF PumpDisable
  <2>2. ctrlCopy'.tog = epTog
    BY <2>1
  <2>3. budget.mismatchAcked => lastTail # Total
    BY <1>1, <1>0 DEF PumpDisable, SyncInv, LossOK, LastSeen
  <2> QED
    BY <1>1, <2>2, <2>3 DEF PumpDisable, SyncInv, KindOK, Finishing, ServedOK, StartOK, FlipOK,
       LossOK, LastSeen, Resent, InOrder, AtRest, armVars, hostVars
<1>2. CASE PumpNoRequest \/ PumpGenerate \/ PumpFilled \/ PumpGenerated \/ PumpPublish \/ PumpFinish
  <2>1. /\ pc' \in {"fill", "gen", "finish", "publish", "arm"}
        /\ UNCHANGED <<armVars, hostVars, startReq, epTog, xferInt, resetInt>>
    BY <1>2 DEF PumpNoRequest, PumpGenerate, PumpFilled, PumpGenerated, PumpPublish, PumpFinish
  <2>2. ~active => ~active'
    BY <1>2, Zenon DEF PumpNoRequest, PumpGenerate, PumpFilled, PumpGenerated, PumpPublish, PumpFinish
  <2>3. AtRest => AtRest'
    BY <2>1, <2>2 DEF AtRest, armVars
  <2>4. LastSeen => LastSeen'
    <3>1. SUFFICES ASSUME LastSeen, lastTail' = Total PROVE LastSeen'
      BY DEF LastSeen
    <3>2. ringTail = Total /\ ringHead = Total /\ genPos = Total /\ lastTail = Total
      BY <1>0, <1>2, <3>1 DEF LastSeen, PumpNoRequest, PumpGenerate, PumpFilled, PumpGenerated,
         PumpPublish, PumpFinish
    <3>3. PumpNoRequest \/ PumpFilled \/ PumpFinish
      BY <1>0, <1>2, <3>1, <3>2 DEF LastSeen, PumpGenerate, PumpGenerated, PumpPublish
    <3>4. pc' = "arm" => ~active'
      <4>1. CASE PumpFinish
        BY <1>0, <3>2, <4>1, Zenon DEF PumpFinish
      <4> QED
        BY <3>3, <4>1 DEF PumpNoRequest, PumpFilled
    <3> QED
      BY <2>1, <3>2, <3>3, <3>4 DEF LastSeen, PumpNoRequest, PumpFilled, PumpFinish, armVars
  <2> QED
    BY <2>1, <2>3, <2>4, PumpMoves DEF armVars
<1>3. CASE PumpReset
  <2>1. /\ pc = "reset" /\ pc' = "fill" /\ epRes' = "NAK" /\ startReq' = FALSE /\ ringTail' = 0
        /\ epTog' = ctrlCopy.tog /\ UNCHANGED <<lastTail, hostVars, xferInt, resetInt>>
    BY <1>3 DEF PumpReset, ResetTo
  <2>2. host = "reading" /\ xferInt = "none" /\ got = << >> /\ Len(got) = 0 /\ startReq
    BY <2>1 DEF SyncInv, StartOK
  <2>3. ~Resent /\ (budget.mismatchAcked => epTog' = epTog /\ lastTail # Total)
    BY <1>0, <2>1, <2>2 DEF SyncInv, ServedOK, LossOK, LastSeen
  <2>4. ~Resent'
    BY <2>1, <2>3 DEF Resent, hostVars
  <2> QED
    BY <2>1, <2>2, <2>3, <2>4 DEF SyncInv, KindOK, Finishing, ServedOK, StartOK, FlipOK, LossOK,
       LastSeen, InOrder, hostVars
<1>4. CASE PumpArm
  <2>1. /\ pc = "arm" /\ pc' \in {"clear", "heal", "stuck", "top"}
        /\ pc' = "clear" => needArm
        /\ pc' \in {"heal", "stuck"} => active
        /\ pc' = "clear" => ringHead # ringTail
        /\ UNCHANGED <<active, lastTail, armVars, hostVars, startReq, epTog, xferInt, resetInt>>
    BY <1>4 DEF PumpArm
  <2>2. LastSeen => LastSeen'
    BY <1>0, <2>1 DEF LastSeen, armVars
  <2> QED
    BY <2>1, <2>2, PumpMoves DEF AtRest, armVars
<1>5. CASE PumpClearNeedArm
  BY <1>5, PumpMoves DEF PumpClearNeedArm, AtRest, LastSeen
<1>6. CASE PumpStart \/ PumpHeal
  BY <1>6, StartTransferServes DEF PumpStart, PumpHeal
<1>7. CASE PumpWatch
  <2>1. /\ pc = "stuck" /\ pc' \in {"top", "flip"}
        /\ UNCHANGED <<active, armVars, hostVars, startReq, epTog, xferInt, resetInt>>
    BY <1>7 DEF PumpWatch
  <2>2. CASE pc' = "top"
    <3>1. LastSeen => LastSeen'
      BY <1>7, <2>2 DEF PumpWatch, LastSeen, armVars
    <3> QED
      BY <2>1, <2>2, <3>1, PumpMoves DEF AtRest, armVars
  <2>3. CASE pc' = "flip"
    <3>1. Stalled /\ ringTail = lastTail
      BY <1>7, <2>3 DEF PumpWatch, CountOver, SyncInv, KindOK, Finishing
    <3>2. budget.mismatchAcked = FALSE
      <4>1. SUFFICES ASSUME budget.mismatchAcked PROVE FALSE
        BY DEF RingInv, TypeOK, BusTypeOK, HostKind
      <4>2. host # "reading" /\ xferInt = "none"
        BY <3>1, <4>1 DEF Stalled
      <4>3. AtRest
        BY <4>2 DEF SyncInv, StartOK
      <4>4. lastTail = Total
        BY <2>1, <3>1, <4>3 DEF AtRest
      <4> QED
        BY <2>1, <4>1, <4>4 DEF SyncInv, LossOK, LastSeen
    <3>3. epRes = "ACK" /\ xferInt = "none" /\ host = "reading" /\ epTog # hostTog
      BY <3>1, <3>2 DEF Stalled, SyncInv, ServedOK, Resent
    <3> QED
      BY <2>1, <2>3, <3>2, <3>3 DEF SyncInv, KindOK, Finishing, ServedOK, StartOK, FlipOK, LossOK,
         Resent, InOrder, AtRest, armVars, hostVars
  <2> QED
    BY <2>1, <2>2, <2>3
<1>8. CASE PumpFlipRead
  BY <1>8 DEF PumpFlipRead, SyncInv, KindOK, Finishing, ServedOK, StartOK, FlipOK, LossOK, Resent,
     InOrder, AtRest, armVars, hostVars
<1>9. CASE PumpFlipWrite
  BY <1>9 DEF PumpFlipWrite, FlipWrite, SyncInv, KindOK, Finishing, ServedOK, StartOK, FlipOK,
     LossOK, Resent, InOrder, AtRest, hostVars
<1> QED
  BY <1>1, <1>2, <1>3, <1>4, <1>5, <1>6, <1>7, <1>8, <1>9 DEF Pump

(***************************************************************************)
(* The interrupt.                                                          *)
(***************************************************************************)

LEMMA IsrInServes == ASSUME RingInv, SyncInv, IsrIn PROVE SyncInv'
<1>1. /\ xferInt = "in" /\ xferInt' = "none" /\ FillAndArm
      /\ UNCHANGED <<pumpVars, hostVars, irqOn, startReq, epTog, resetInt>>
  BY DEF IsrIn
<1>2. /\ ringTail = Len(got) /\ ~startReq /\ (ringTail < Total => host = "reading")
      /\ pc \notin {"reset", "flip", "flipWrite"} /\ host # "starting" /\ ~Resent
      /\ budget.mismatchAcked => ~(budget.start > 0)
  BY <1>1 DEF SyncInv, ServedOK, StartOK, FlipOK, LossOK
<1>3. /\ ringTail \in 0 .. Total /\ ringHead \in 0 .. Total /\ genPos \in 0 .. Total
      /\ ringTail <= ringHead /\ ringHead <= genPos /\ Total \in Nat
  BY ConstantsAssumption DEF RingInv, TypeOK, RingTypeOK, WindowOK, GenPosOK
<1>4. KindOK' /\ InOrder' /\ FlipOK' /\ Resent' = Resent
  BY <1>1, <1>2 DEF SyncInv, KindOK, Finishing, InOrder, FlipOK, Resent, pumpVars, hostVars
<1>5. ASSUME LastSeen => LastSeen' PROVE LossOK'
  BY <1>1, <1>2, <1>5 DEF SyncInv, LossOK, pumpVars, hostVars
<1>6. CASE ringHead # ringTail
  <2>1. epRes' = "ACK" /\ ringTail' = ringTail + 1
    BY <1>1, <1>2, <1>6 DEF FillAndArm, FillCallback
  <2>2. host = "reading"
    BY <1>2, <1>3, <1>6
  <2>3. LastSeen => LastSeen'
    BY <1>1, <1>3, <1>6 DEF LastSeen, pumpVars
  <2> QED
    BY <1>1, <1>2, <1>3, <1>4, <1>5, <2>1, <2>2, <2>3
       DEF SyncInv, ServedOK, StartOK, pumpVars, hostVars
<1>7. CASE ringHead = ringTail
  <2>1. epRes' = "NAK" /\ ringTail' = ringTail
    BY <1>1, <1>2, <1>7 DEF FillAndArm, FillCallback
  <2>2. host # "reading" => ringTail = Total
    BY <1>2, <1>3
  <2>3. LastSeen => LastSeen'
    BY <1>1, <2>1 DEF LastSeen, pumpVars
  <2> QED
    BY <1>1, <1>2, <1>4, <1>5, <2>1, <2>2, <2>3
       DEF SyncInv, ServedOK, StartOK, AtRest, pumpVars, hostVars
<1> QED
  BY <1>6, <1>7

LEMMA IsrServes == RingInv /\ SyncInv /\ Isr => SyncInv'
<1> SUFFICES ASSUME RingInv, SyncInv, Isr PROVE SyncInv'
  OBVIOUS
<1> USE DEF SyncInv, KindOK, Finishing, ServedOK, StartOK, FlipOK, LossOK, Resent, InOrder, AtRest
<1>1. CASE IsrIn
  BY <1>1, IsrInServes
<1>2. CASE IsrStart
  <2>1. Len(<< >>) = 0 /\ Total \in Nat \ {0}
    BY ConstantsAssumption
  <2>2. /\ xferInt = "start" /\ host = "starting" /\ got = << >>
        /\ budget.mismatchAcked => ringTail = 0
    BY <1>2 DEF IsrStart
  <2>3. epRes = "NAK" /\ ~Resent /\ AtRest
    BY <2>1, <2>2
  <2>4. LastSeen => LastSeen'
    BY <1>2 DEF IsrStart, LastSeen, pumpVars, armVars
  <2> QED
    BY <1>2, <2>1, <2>2, <2>3, <2>4 DEF IsrStart, pumpVars, armVars
<1>3. CASE IsrConfig
  BY <1>3 DEF IsrConfig, pumpVars, armVars, hostVars
<1>4. CASE IsrReset
  <2>1. budget.mismatchAcked = FALSE
    BY <1>4 DEF IsrReset, RingInv, TypeOK, BusTypeOK, HostKind
  <2> QED
    BY <1>4, <2>1 DEF IsrReset, pumpVars, hostVars, RingInv, TypeOK, BusTypeOK
<1> QED
  BY <1>1, <1>2, <1>3, <1>4 DEF Isr

(***************************************************************************)
(* The host.                                                               *)
(***************************************************************************)

LEMMA SpendKind ==
    ASSUME NEW b \in {"start", "reopen", "config", "reset", "lostack"}, RingInv, KindOK, Spend(b)
    PROVE  /\ KindOK' /\ budget'.mismatchAcked = budget.mismatchAcked
           /\ budget'.start = IF b = "start" THEN budget.start - 1 ELSE budget.start
           /\ budget.mismatchAcked =>
                 /\ b \in {"start", "lostack"}
                 /\ b = "start" => budget.start = 1 /\ budget'.start = 0
<1>1. budget \in HostKind /\ budget[b] > 0 /\ budget' = [budget EXCEPT ![b] = @ - 1]
  BY DEF RingInv, TypeOK, BusTypeOK, Spend
<1>2. /\ budget'.aborts = budget.aborts /\ budget'.mismatchAcked = budget.mismatchAcked
      /\ budget'.prompt = budget.prompt
      /\ budget'.start = IF b = "start" THEN budget.start - 1 ELSE budget.start
      /\ budget'.reopen = IF b = "reopen" THEN budget.reopen - 1 ELSE budget.reopen
      /\ budget'.config = IF b = "config" THEN budget.config - 1 ELSE budget.config
      /\ budget'.reset = IF b = "reset" THEN budget.reset - 1 ELSE budget.reset
  BY <1>1 DEF HostKind
<1>3. budget.start \in Nat
  BY <1>1 DEF HostKind
<1> QED
  BY <1>1, <1>2, <1>3 DEF KindOK, Finishing

\* The host gets the packet popped last, the one it has not got yet.
LEMMA ReceivesNext ==
    ASSUME RingInv, SyncInv, host = "reading", BusQuiet, epRes = "ACK", epTog = hostTog,
           Receive(ringData[dmaReg])
    PROVE  /\ ringTail = Len(got) + 1 /\ Len(got') = ringTail /\ ringTail <= Total
           /\ got' = Append(got, Len(got)) /\ InOrder'
           /\ host' = IF Len(got') < Total THEN "reading" ELSE "idle"
           /\ ~startReq /\ pc \notin {"reset", "flip", "flipWrite"}
<1>1. ~Resent
  BY DEF Resent
<1>2. /\ ringTail = Len(got) + 1 /\ ~startReq /\ xferInt = "none"
      /\ pc \notin {"reset", "flip", "flipWrite"}
  BY <1>1 DEF SyncInv, ServedOK, StartOK, FlipOK, BusQuiet
<1>3. /\ ringTail \in 1 .. Total /\ Total \in Nat /\ got \in Seq(Packets \cup {Torn})
      /\ Len(got) \in Nat
  BY <1>2, ConstantsAssumption DEF RingInv, TypeOK, RingTypeOK, BusTypeOK
<1>4. ringData[dmaReg] = ringTail - 1
  <2>1. DmaSlotIntact
    BY RingIntact
  <2> QED
    BY <2>1 DEF DmaSlotIntact
<1>5. /\ got' = Append(got, Len(got)) /\ Len(got') = ringTail
      /\ got'[Len(got) + 1] = Len(got)
      /\ \A i \in 1 .. Len(got) : got'[i] = got[i]
  <2>1. got' = Append(got, Len(got))
    BY <1>2, <1>3, <1>4 DEF Receive
  <2> QED
    BY <1>2, <1>3, <2>1
<1>6. host' = IF Len(got') < Total THEN "reading" ELSE "idle"
  BY <1>2, <1>3, <1>4, <1>5 DEF Receive
<1>7. InOrder'
  <2>1. ASSUME NEW i \in 1 .. Len(got') PROVE got'[i] = i - 1
    <3>1. CASE i = Len(got) + 1
      BY <1>3, <1>5, <3>1
    <3>2. CASE i # Len(got) + 1
      <4>1. i \in 1 .. Len(got)
        BY <1>2, <1>3, <1>5, <3>2
      <4> QED
        BY <1>5, <4>1 DEF SyncInv, InOrder
    <3> QED
      BY <3>1, <3>2
  <2> QED
    BY <2>1 DEF InOrder
<1> QED
  BY <1>2, <1>3, <1>5, <1>6, <1>7

LEMMA HostTakeServes == RingInv /\ SyncInv /\ HostTake => SyncInv'
<1> SUFFICES ASSUME RingInv, SyncInv, HostTake PROVE SyncInv'
  OBVIOUS
<1>1. /\ host = "reading" /\ BusQuiet /\ epRes = "ACK" /\ epTog = hostTog
      /\ Receive(ringData[dmaReg]) /\ xferInt' = "in" /\ epTog' = hostTog'
      /\ UNCHANGED <<pumpVars, armVars, budget, irqOn, startReq, resetInt>>
  BY DEF HostTake, Receive, Acknowledged
<1>2. /\ Len(got') = ringTail /\ InOrder' /\ ~startReq
      /\ pc \notin {"reset", "flip", "flipWrite"}
      /\ host' = IF Len(got') < Total THEN "reading" ELSE "idle"
  BY <1>1, ReceivesNext
<1>3. ~Resent' /\ (LastSeen => LastSeen') /\ resetInt = "none"
  BY <1>1 DEF Resent, LastSeen, BusQuiet, pumpVars, armVars
<1>4. host' # "starting"
  BY <1>2
<1> QED
  BY <1>1, <1>2, <1>3, <1>4
     DEF SyncInv, KindOK, Finishing, ServedOK, StartOK, FlipOK, LossOK, pumpVars, armVars

\* The handshake is lost: EP2 holds on to a packet the host has got.
LEMMA HostTakeLostAckServes == RingInv /\ SyncInv /\ HostTakeLostAck => SyncInv'
<1> SUFFICES ASSUME RingInv, SyncInv, HostTakeLostAck PROVE SyncInv'
  OBVIOUS
<1>1. /\ host = "reading" /\ BusQuiet /\ epRes = "ACK" /\ epTog = hostTog
      /\ Receive(ringData[dmaReg]) /\ Spend("lostack") /\ budget.mismatchAcked
      /\ hostTog' = 1 - hostTog /\ xferInt = "none" /\ resetInt = "none"
      /\ UNCHANGED <<pumpVars, armVars, irqOn, startReq, epTog, xferInt, resetInt>>
  BY DEF HostTakeLostAck, Receive, BusQuiet
<1>2. /\ Len(got') = ringTail /\ ringTail <= Total /\ InOrder' /\ ~startReq
      /\ pc \notin {"reset", "flip", "flipWrite"}
      /\ host' = IF Len(got') < Total THEN "reading" ELSE "idle"
  BY <1>1, ReceivesNext
<1>3. /\ KindOK' /\ budget'.mismatchAcked = budget.mismatchAcked
      /\ budget'.start = budget.start
  BY <1>1, SpendKind DEF SyncInv
<1>4. hostTog \in {0, 1} /\ ringTail \in 0 .. Total /\ Total \in Nat
  BY ConstantsAssumption DEF RingInv, TypeOK, BusTypeOK, RingTypeOK
<1>5. Resent'
  BY <1>1, <1>3, <1>4 DEF Resent
<1>6. host' # "starting" /\ (host' # "reading" => AtRest') /\ (LastSeen => LastSeen')
  BY <1>1, <1>2, <1>4 DEF AtRest, LastSeen, pumpVars, armVars
<1>7. ~(budget.start > 0)
  BY <1>1 DEF SyncInv, LossOK
<1> QED
  BY <1>1, <1>2, <1>3, <1>5, <1>6, <1>7
     DEF SyncInv, ServedOK, StartOK, FlipOK, LossOK, pumpVars, armVars

\* The host drops what it has got already, and both toggles agree again.
LEMMA HostDropServes == RingInv /\ SyncInv /\ HostDrop => SyncInv'
<1> SUFFICES ASSUME RingInv, SyncInv, HostDrop PROVE SyncInv'
  OBVIOUS
<1>1. /\ host = "reading" /\ BusQuiet /\ epRes = "ACK" /\ epTog # hostTog
      /\ budget.mismatchAcked /\ epTog' = 1 - epTog /\ xferInt' = "in"
      /\ UNCHANGED <<pumpVars, armVars, hostVars, irqOn, startReq, resetInt>>
  BY DEF HostDrop, Acknowledged
<1>2. ringTail = Len(got) /\ ~startReq /\ pc # "reset"
  BY <1>1 DEF SyncInv, ServedOK, StartOK, Resent
<1>3. epTog \in {0, 1} /\ hostTog \in {0, 1}
  BY DEF RingInv, TypeOK, Ep2TypeOK, BusTypeOK
<1>4. ~Resent' /\ (LastSeen => LastSeen') /\ resetInt = "none"
  BY <1>1, <1>3 DEF Resent, LastSeen, BusQuiet, pumpVars, armVars, hostVars
<1> QED
  BY <1>1, <1>2, <1>4 DEF SyncInv, KindOK, Finishing, ServedOK, StartOK, FlipOK, LossOK, InOrder,
     pumpVars, armVars, hostVars

\* A request: the packet of the download before, if EP2 still held one, would
\* have had to be the last of a host that asks for no second.
LEMMA HostStartServes == RingInv /\ SyncInv /\ HostStart => SyncInv'
<1> SUFFICES ASSUME RingInv, SyncInv, HostStart PROVE SyncInv'
  OBVIOUS
<1>1. /\ xferInt = "none" /\ resetInt = "none" /\ host = "idle" /\ Spend("start")
      /\ host' = "starting" /\ got' = << >> /\ xferInt' = "start"
      /\ UNCHANGED <<pumpVars, armVars, hostTog, irqOn, startReq, epTog, resetInt>>
  BY DEF HostStart, BusQuiet, SyncInv, KindOK, Finishing
<1>2. /\ KindOK' /\ budget'.mismatchAcked = budget.mismatchAcked
      /\ budget.mismatchAcked => budget.start > 0 /\ ~(budget'.start > 0)
  BY <1>1, SpendKind DEF SyncInv
<1>3. /\ AtRest /\ epRes = "NAK" /\ ~Resent /\ ~startReq
      /\ budget.mismatchAcked => ringTail = 0
  BY <1>1, <1>2 DEF SyncInv, ServedOK, StartOK, LossOK, Resent
<1>4. AtRest' /\ ~Resent' /\ (LastSeen => LastSeen')
  BY <1>1, <1>2, <1>3 DEF AtRest, Resent, LastSeen, pumpVars, armVars
<1>5. InOrder'
  BY <1>1 DEF InOrder
<1> QED
  BY <1>1, <1>2, <1>3, <1>4, <1>5
     DEF SyncInv, ServedOK, StartOK, FlipOK, LossOK, pumpVars, armVars

LEMMA HostServes == RingInv /\ SyncInv /\ Host => SyncInv'
<1> SUFFICES ASSUME RingInv, SyncInv, Host PROVE SyncInv'
  OBVIOUS
<1> USE DEF SyncInv, ServedOK, StartOK, FlipOK, LossOK, Resent, InOrder, AtRest
<1>0. /\ epRes \in {"ACK", "NAK"} /\ xferInt \in {"none", "in", "start", "config"}
      /\ budget.mismatchAcked \in BOOLEAN /\ budget.aborts = FALSE
  BY DEF RingInv, TypeOK, Ep2TypeOK, BusTypeOK, HostKind, KindOK, Finishing
<1>1. ASSUME NEW b \in {"reopen", "config", "reset"}, Spend(b)
      PROVE  KindOK' /\ budget.mismatchAcked = FALSE /\ budget'.mismatchAcked = FALSE
  <2>1. /\ KindOK' /\ budget'.mismatchAcked = budget.mismatchAcked
        /\ budget.mismatchAcked => b \in {"start", "lostack"}
    BY <1>1, SpendKind
  <2> QED
    BY <1>0, <1>1, <2>1
<1>2. CASE HostConfigure
  <2>1. KindOK' /\ budget.mismatchAcked = FALSE /\ budget'.mismatchAcked = FALSE
    BY <1>1, <1>2 DEF HostConfigure
  <2> QED
    BY <1>0, <1>2, <2>1 DEF HostConfigure, BusQuiet, pumpVars, armVars
<1>3. CASE HostReopen
  <2>1. KindOK' /\ budget.mismatchAcked = FALSE /\ budget'.mismatchAcked = FALSE
    BY <1>1, <1>3 DEF HostReopen
  <2> QED
    BY <1>0, <1>3, <2>1 DEF HostReopen, pumpVars, armVars
<1>4. ASSUME NEW kind \in {"glitch", "held"}, BusReset(kind) PROVE SyncInv'
  <2>1. KindOK' /\ budget.mismatchAcked = FALSE /\ budget'.mismatchAcked = FALSE
    BY <1>1, <1>4 DEF BusReset
  <2> QED
    BY <1>0, <1>4, <2>1 DEF BusReset, pumpVars, armVars
<1> QED
  BY <1>2, <1>3, <1>4, HostStartServes, HostTakeServes, HostTakeLostAckServes, HostDropServes
     DEF Host

-----------------------------------------------------------------------------
LEMMA SyncInit == Finishers /\ Init => SyncInv
<1> SUFFICES ASSUME Finishers, Init PROVE SyncInv
  OBVIOUS
<1>1. KindOK
  BY DEF Finishers, Init, KindOK
<1>2. Len(<< >>) = 0 /\ 0 # Total
  BY ConstantsAssumption
<1> QED
  BY <1>1, <1>2 DEF Init, SyncInv, ServedOK, StartOK, FlipOK, LossOK, LastSeen, Resent,
     AtRest, InOrder

LEMMA SyncStep == RingInv /\ SyncInv /\ [Next]_vars => SyncInv'
<1>1. ASSUME SyncInv, UNCHANGED vars PROVE SyncInv'
  BY <1>1 DEF SyncInv, KindOK, Finishing, ServedOK, StartOK, FlipOK, LossOK, LastSeen, Resent,
     InOrder, AtRest, vars, pumpVars, armVars, hostVars
<1> QED
  BY <1>1, PumpServes, IsrServes, HostServes DEF Next

LEMMA SyncInvariant == Finishers => (Spec => [](RingInv /\ SyncInv))
<1> SUFFICES ASSUME Finishers PROVE Spec => [](RingInv /\ SyncInv)
  OBVIOUS
<1>1. Init => RingInv /\ SyncInv
  BY RingInit, SyncInit
<1>2. RingInv /\ SyncInv /\ [Next]_vars => (RingInv /\ SyncInv)'
  BY RingStep, SyncStep
<1> QED
  BY <1>1, <1>2, PTL DEF Spec

-----------------------------------------------------------------------------
\* Whatever comes between the packets -- a configuration, a bus reset, a re-open
\* that costs the toggle, the self-heal and its flip, or any number of handshakes
\* lost in a single download -- the host has received the packets of the file from
\* the first on, none twice and none left out.
THEOREM ReceivedInOrder == Finishers => (Spec => []InOrder)
<1> SUFFICES ASSUME Finishers PROVE Spec => []InOrder
  OBVIOUS
<1>1. SyncInv => InOrder
  BY DEF SyncInv
<1> QED
  BY <1>1, SyncInvariant, PTL

\* A finished download leaves no packet armed for the next one: once the ISR has
\* served the last acknowledgement, EP2 answers NAK until a request comes; where
\* that acknowledgement was lost, the host drops what EP2 holds for its toggle.
THEOREM NothingLeftArmed == Finishers => (Spec => []QuietWhenIdle)
<1> SUFFICES ASSUME Finishers PROVE Spec => []QuietWhenIdle
  OBVIOUS
<1>1. SyncInv => QuietWhenIdle
  BY DEF SyncInv, StartOK, Resent, QuietWhenIdle
<1> QED
  BY <1>1, SyncInvariant, PTL

LEMMA DownloadStep ==
    RingInv /\ SyncInv /\ [Next]_vars => [Download!DownloadNext]_(Download!fdVars)
<1> SUFFICES ASSUME RingInv, SyncInv, [Next]_vars
             PROVE  Download!DownloadNext \/ UNCHANGED Download!fdVars
  OBVIOUS
<1>1. CASE Pump
  BY <1>1 DEF Pump, PumpDisable, PumpNoRequest, PumpReset, ResetTo, PumpGenerate, PumpFilled,
     PumpGenerated, PumpPublish, PumpFinish, PumpArm, PumpClearNeedArm, PumpStart, PumpHeal,
     PumpWatch, PumpFlipRead, PumpFlipWrite, FlipWrite, hostVars, Download!fdVars
<1>2. CASE IsrIn \/ IsrConfig \/ IsrReset
  BY <1>2 DEF IsrIn, IsrConfig, IsrReset, hostVars, Download!fdVars
<1>3. CASE IsrStart
  <2>1. host = "starting" /\ got = << >> /\ host' = "reading" /\ got' = got
    BY <1>3 DEF IsrStart, SyncInv, StartOK
  <2> QED
    BY <2>1 DEF Download!DownloadNext, Download!Begin
<1>4. CASE HostStart
  <2>1. host = "idle" /\ host' = "starting" /\ got' = << >>
    BY <1>4 DEF HostStart, SyncInv, KindOK, Finishing
  <2> QED
    BY <2>1 DEF Download!DownloadNext, Download!Request
<1>5. CASE HostTake \/ HostTakeLostAck
  <2>1. /\ host = "reading" /\ got' = Append(got, Len(got))
        /\ host' = IF Len(got') < Total THEN "reading" ELSE "idle"
    BY <1>5, ReceivesNext DEF HostTake, HostTakeLostAck
  <2> QED
    BY <2>1 DEF Download!DownloadNext, Download!Deliver
<1>6. CASE Host /\ ~HostStart /\ ~(HostTake \/ HostTakeLostAck)
  BY <1>6 DEF Host, HostConfigure, HostReopen, HostDrop, BusReset, hostVars,
     SyncInv, KindOK, Finishing, Download!fdVars
<1>7. CASE UNCHANGED vars
  BY <1>7 DEF vars, hostVars, Download!fdVars
<1> QED
  BY <1>1, <1>2, <1>3, <1>4, <1>5, <1>6, <1>7 DEF Next, Isr

\* ch592f/app/filexfer.c does what FileDownload promises, but for that a
\* download ends: a request is answered with the file, first packet to last.
THEOREM DownloadInOrder == Finishers => (Spec => Download!DownloadOrder)
<1> SUFFICES ASSUME Finishers PROVE Spec => Download!DownloadOrder
  OBVIOUS
<1>1. Init => Download!InitDownload
  BY DEF Init, Download!InitDownload
<1> QED
  BY <1>1, SyncInvariant, DownloadStep, PTL DEF Spec, Download!DownloadOrder
=============================================================================
