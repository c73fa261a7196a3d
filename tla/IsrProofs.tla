----------------------------- MODULE IsrProofs ------------------------------
(***************************************************************************)
(* Proofs about the CH32L103 file download, for every size of ring and     *)
(* file: where the pump stays ahead and starts find it at rest, generating *)
(* in the main loop and in the interrupt gives the packets of the file, in *)
(* order and whole.  The runs show that neither condition can be spared.   *)
(* Then, for every size of image and packet, the bytes these packets hold: *)
(* both generators of BmpFile serve the same file.                         *)
(***************************************************************************)
EXTENDS IsrRing, BmpFile, SequenceTheorems, TLAPS

(***************************************************************************)
(* Arithmetic modulo C, which is how an index into a ring is computed.     *)
(***************************************************************************)

LEMMA ModRange == ASSUME NEW C \in Nat \ {0}, NEW x \in Int PROVE x % C \in 0 .. C - 1
  OBVIOUS

LEMMA ModUnique ==
    ASSUME NEW C \in Nat \ {0}, NEW q \in Int, NEW r \in 0 .. C - 1
    PROVE  (C * q + r) % C = r
  OBVIOUS

\* Numbers less than C apart are the same modulo C only if they are equal.
LEMMA ModDistinct ==
    ASSUME NEW C \in Nat \ {0}, NEW a \in Int, NEW b \in Int, a - b < C, b - a < C, a % C = b % C
    PROVE  a = b
<1>1. a = C * (a \div C) + (a % C) /\ b = C * (b \div C) + (b % C)
  OBVIOUS
<1>2. C * (a \div C - b \div C) < C /\ C * (b \div C - a \div C) < C
  BY <1>1
<1> QED
  BY <1>1, <1>2

\* What the firmware does not enforce, and is enough for it to be correct.
Paced == PumpAhead /\ ~RestartAnytime

(***************************************************************************)
(* The inductive invariant.                                                *)
(***************************************************************************)

Types ==
    /\ pc \in {"top", "half", "end", "publish"}
    /\ idx \in 0 .. Slots - 1 /\ offset \in 0 .. Total
    /\ ringData \in [0 .. Slots - 1 -> Int \X Int]
    /\ ringHead \in Nat /\ ringTail \in Nat /\ genPos \in 0 .. Total /\ walk \in Nat
    /\ ep2Buf \in Int \X Int /\ got \in Seq(Int \X Int)

Waiting == ringHead - ringTail

\* Number of the packet that the interrupt sends next.
NextOut == genPos - (IF pc = "publish" THEN 1 ELSE 0) - Waiting

WindowOK ==
    /\ 0 <= Waiting /\ Waiting <= Slots /\ 0 <= NextOut
    /\ pc # "top" => Waiting < Slots

\* The pixel walk is where s_genPos says, but for the halves of the packet that
\* the main loop is at, and that packet is in the slot at the head.
WalkOK ==
    /\ walk = 2 * genPos + (CASE pc = "half" -> 1 [] pc = "end" -> 2 [] OTHER -> 0)
    /\ pc # "top" => idx = Slot(ringHead)
    /\ pc \in {"half", "end"} => offset = genPos /\ genPos < Total
    /\ pc = "half" => ringData[idx] = <<2 * genPos, -1>>
    /\ pc = "end" => ringData[idx] = Packet(genPos)
    /\ pc = "publish" => ringData[idx] = Packet(genPos - 1)

\* A host that reads has got what came before the packet EP2 holds, and that
\* is the one before those in the ring.
HostOK ==
    /\ xferInt = "start" => host = "starting" /\ PumpResting
    /\ host = "starting" => xferInt = "start" /\ got = << >>
    /\ xferInt = "config" => host = "configuring"
    /\ host # "reset" => ~resetInt
    /\ host \in {"idle", "starting", "reading"} => devEnum
    /\ host = "reading" =>
          /\ xferInt \in {"none", "in"} /\ Len(got) < Total
          /\ xferInt = "in" => NextOut = Len(got)
          /\ xferInt = "none" /\ ep2Res = "ACK" =>
                ep2Buf = Packet(Len(got)) /\ NextOut = Len(got) + 1

IInv == Types /\ WindowOK /\ WalkOK /\ RingInOrder /\ HostOK /\ InOrder

(***************************************************************************)
(* Lemmas.                                                                 *)
(***************************************************************************)

LEMMA SlotTyped == ASSUME NEW i \in Nat PROVE Slot(i) \in 0 .. Slots - 1
<1>1. Slots \in Nat \ {0} /\ i \in Int
  BY ConstantsAssumption
<1> QED
  BY <1>1, ModRange DEF Slot

\* The slot at the head of a ring with room is none of those in use.
LEMMA HeadFree ==
    ASSUME ringHead \in Nat, ringTail \in Nat, 0 <= Waiting, Waiting < Slots,
           NEW i \in 0 .. Waiting - 1
    PROVE  Slot(ringTail + i) # Slot(ringHead)
<1> DEFINE j == ringTail + i
<1>1. /\ Slots \in Nat \ {0} /\ j \in Int /\ ringHead \in Int /\ j # ringHead
      /\ j - ringHead < Slots /\ ringHead - j < Slots
  BY ConstantsAssumption DEF Waiting
<1> HIDE DEF j
<1>2. j % Slots # ringHead % Slots
  BY <1>1, ModDistinct
<1> QED
  BY <1>2 DEF Slot, j

LEMMA PacketTyped == ASSUME NEW k \in Int PROVE Packet(k) \in Int \X Int
  BY DEF Packet

\* Writing the slot at the head leaves the ring in order.
LEMMA HeadWritten ==
    ASSUME Types, WindowOK, RingInOrder, Waiting < Slots, NEW v,
           ringData' = [ringData EXCEPT ![Slot(ringHead)] = v],
           UNCHANGED <<ringHead, ringTail, genPos>>, pc # "publish", pc' # "publish"
    PROVE  RingInOrder' /\ ringData'[Slot(ringHead)] = v
<1>1. ringHead \in Nat /\ ringTail \in Nat /\ 0 <= Waiting
  BY DEF Types, WindowOK
<1>2. Slot(ringHead) \in 0 .. Slots - 1 /\ ringData'[Slot(ringHead)] = v
  BY <1>1, SlotTyped DEF Types
<1>3. ASSUME NEW i \in 0 .. Waiting - 1
      PROVE  ringData'[Slot(ringTail + i)] = Packet(genPos - 0 - Waiting + i)
  <2>1. Slot(ringTail + i) # Slot(ringHead) /\ ringTail + i \in Nat
    BY <1>1, HeadFree
  <2>2. Slot(ringTail + i) \in 0 .. Slots - 1
    BY <2>1, SlotTyped
  <2>3. ringData'[Slot(ringTail + i)] = ringData[Slot(ringTail + i)]
    BY <1>2, <2>1, <2>2 DEF Types
  <2> QED
    BY <2>3 DEF RingInOrder, Waiting
<1> QED
  BY <1>2, <1>3 DEF RingInOrder, Waiting

\* What the interrupt takes out of the ring is the packet that is due.
LEMMA TailDue ==
    ASSUME Types, WindowOK, RingInOrder, ringHead # ringTail
    PROVE  ringData[Slot(ringTail)] = Packet(NextOut)
<1>1. 0 \in 0 .. Waiting - 1 /\ ringTail + 0 = ringTail /\ NextOut + 0 = NextOut
  BY DEF Types, WindowOK, Waiting, NextOut
<1>2. ringData[Slot(ringTail + 0)] = Packet(NextOut + 0)
  BY <1>1 DEF RingInOrder, NextOut, Waiting
<1> QED
  BY <1>1, <1>2

(***************************************************************************)
(* Steps.                                                                  *)
(***************************************************************************)

\* A step that leaves generation and the ring alone.
LEMMA Elsewhere ==
    ASSUME IInv, UNCHANGED <<genVars, ringTail, ep2Buf>>, HostOK', InOrder', got' \in Seq(Int \X Int)
    PROVE  IInv'
  BY DEF IInv, Types, WindowOK, WalkOK, RingInOrder, Waiting, NextOut, genVars

LEMMA PumpBeginKeeps == ASSUME IInv, PumpBegin PROVE IInv'
<1>1. /\ pc = "top" /\ Waiting < Slots /\ genPos < Total
      /\ pc' = "half" /\ idx' = Slot(ringHead) /\ offset' = genPos
      /\ ringData' = [ringData EXCEPT ![Slot(ringHead)] = <<walk, -1>>]
      /\ walk' = walk + 1
      /\ UNCHANGED <<ringHead, genPos, epVars, devEnum, xferInt, resetInt, hostVars>>
  BY DEF PumpBegin, Waiting
<1>2. RingInOrder' /\ ringData'[Slot(ringHead)] = <<walk, -1>>
  BY <1>1, HeadWritten DEF IInv, epVars
<1>3. walk = 2 * genPos /\ walk \in Int
  BY <1>1 DEF IInv, WalkOK, Types
<1>4. Slot(ringHead) \in 0 .. Slots - 1
  BY SlotTyped DEF IInv, Types
<1>5. Types'
  BY <1>1, <1>3, <1>4 DEF IInv, Types, epVars, hostVars
<1>6. WindowOK' /\ NextOut' = NextOut
  BY <1>1 DEF IInv, WindowOK, Waiting, NextOut, epVars
<1>7. WalkOK'
  BY <1>1, <1>2, <1>3 DEF WalkOK
<1>8. HostOK'
  <2>1. xferInt # "start"
    BY <1>1, ConstantsAssumption DEF IInv, HostOK, PumpResting, Types, Waiting
  <2> QED
    BY <1>1, <1>6, <2>1 DEF IInv, HostOK, epVars, hostVars
<1>9. InOrder'
  BY <1>1 DEF IInv, InOrder, hostVars
<1> QED
  BY <1>2, <1>5, <1>6, <1>7, <1>8, <1>9 DEF IInv

LEMMA PumpSecondHalfKeeps == ASSUME IInv, PumpSecondHalf PROVE IInv'
<1>1. /\ pc = "half" /\ pc' = "end" /\ walk' = walk + 1
      /\ ringData' = [ringData EXCEPT ![idx][2] = walk]
      /\ UNCHANGED <<idx, offset, ringHead, genPos, epVars, devEnum, xferInt, resetInt, hostVars>>
  BY DEF PumpSecondHalf
<1>2. /\ idx = Slot(ringHead) /\ ringData[idx] = <<2 * genPos, -1>> /\ walk = 2 * genPos + 1
      /\ offset = genPos /\ genPos < Total /\ Waiting < Slots /\ genPos \in Int
  BY <1>1 DEF IInv, WalkOK, WindowOK, Types
<1>3. [ringData[idx] EXCEPT ![2] = walk] = Packet(genPos)
  BY <1>2 DEF Packet
<1>4. ringData' = [ringData EXCEPT ![Slot(ringHead)] = Packet(genPos)]
  BY <1>1, <1>2, <1>3
<1>5. RingInOrder' /\ ringData'[Slot(ringHead)] = Packet(genPos)
  BY <1>1, <1>2, <1>4, HeadWritten DEF IInv, epVars
<1>6. Types'
  BY <1>1, <1>2, <1>4, PacketTyped DEF IInv, Types, epVars, hostVars
<1>7. WindowOK' /\ NextOut' = NextOut
  BY <1>1 DEF IInv, WindowOK, Waiting, NextOut, epVars
<1>8. WalkOK'
  BY <1>1, <1>2, <1>5 DEF WalkOK, Packet
<1>9. HostOK' /\ InOrder'
  BY <1>1, <1>7 DEF IInv, HostOK, InOrder, PumpResting, epVars, hostVars
<1> QED
  BY <1>5, <1>6, <1>7, <1>8, <1>9 DEF IInv

LEMMA PumpEndKeeps == ASSUME IInv, PumpEnd PROVE IInv'
<1>1. /\ pc = "end" /\ pc' = "publish" /\ genPos' = offset + 1
      /\ UNCHANGED <<idx, offset, ringData, ringHead, walk, epVars, devEnum, xferInt,
                     resetInt, hostVars>>
  BY DEF PumpEnd
<1>2. /\ idx = Slot(ringHead) /\ ringData[idx] = Packet(genPos) /\ walk = 2 * genPos + 2
      /\ genPos' = genPos + 1 /\ genPos \in Nat /\ genPos < Total /\ xferInt # "start"
      /\ offset \in 0 .. Total /\ Waiting < Slots
  BY <1>1 DEF IInv, WalkOK, WindowOK, Types, HostOK, PumpResting
<1>3. NextOut' = NextOut /\ Waiting' = Waiting
  BY <1>1, <1>2 DEF NextOut, Waiting, epVars
<1>4. Types'
  BY <1>1, <1>2, ConstantsAssumption DEF IInv, Types, epVars, hostVars
<1>5. WindowOK'
  BY <1>1, <1>2, <1>3 DEF IInv, WindowOK
<1>6. WalkOK'
  BY <1>1, <1>2 DEF WalkOK
<1>7. RingInOrder'
  <2>1. \A i \in 0 .. Waiting - 1 : ringData[Slot(ringTail + i)] = Packet(genPos - 0 - Waiting + i)
    BY <1>1 DEF IInv, RingInOrder, Waiting
  <2>2. \A i \in 0 .. Waiting - 1 : genPos' - 1 - Waiting + i = genPos - 0 - Waiting + i
    BY <1>2 DEF IInv, Types, Waiting
  <2> QED
    BY <1>1, <2>1, <2>2 DEF RingInOrder, Waiting, epVars
<1>8. HostOK' /\ InOrder'
  BY <1>1, <1>2, <1>3 DEF IInv, HostOK, InOrder, epVars, hostVars
<1> QED
  BY <1>4, <1>5, <1>6, <1>7, <1>8 DEF IInv

LEMMA PumpPublishKeeps == ASSUME IInv, PumpPublish PROVE IInv'
<1>1. /\ pc = "publish" /\ pc' = "top" /\ ringHead' = ringHead + 1
      /\ UNCHANGED <<idx, offset, ringData, genPos, walk, epVars, devEnum, xferInt,
                     resetInt, hostVars>>
  BY DEF PumpPublish
<1>2. /\ ringData[Slot(ringHead)] = Packet(genPos - 1) /\ xferInt # "start"
      /\ Waiting < Slots /\ ringHead \in Nat /\ ringTail \in Nat /\ genPos \in 0 .. Total
      /\ walk = 2 * genPos /\ 0 <= Waiting
  BY <1>1 DEF IInv, WalkOK, WindowOK, Types, HostOK, PumpResting
<1>3. NextOut' = NextOut /\ Waiting' = Waiting + 1
  BY <1>1, <1>2 DEF NextOut, Waiting, epVars
<1>4. Types'
  BY <1>1, <1>2 DEF IInv, Types, epVars, hostVars
<1>5. WindowOK'
  BY <1>1, <1>2, <1>3, ConstantsAssumption DEF IInv, WindowOK, Waiting
<1>6. WalkOK'
  BY <1>1, <1>2 DEF WalkOK
<1>7. RingInOrder'
  <2>1. ASSUME NEW i \in 0 .. Waiting PROVE ringData[Slot(ringTail + i)] = Packet(genPos - 0 - (Waiting + 1) + i)
    <3>1. CASE i = Waiting
      <4>1. ringTail + i = ringHead /\ genPos - 0 - (Waiting + 1) + i = genPos - 1
        BY <1>2, <3>1 DEF Waiting
      <4> QED
        BY <1>2, <4>1
    <3>2. CASE i # Waiting
      <4>1. i \in 0 .. Waiting - 1 /\ genPos - 0 - (Waiting + 1) + i = genPos - 1 - Waiting + i
        BY <1>2, <3>2 DEF Waiting
      <4> QED
        BY <1>1, <4>1 DEF IInv, RingInOrder, Waiting
    <3> QED
      BY <3>1, <3>2
  <2>2. ringHead' - ringTail' = Waiting + 1 /\ (Waiting + 1) - 1 = Waiting
    BY <1>2, <1>3 DEF Waiting
  <2>3. pc' # "publish" /\ UNCHANGED <<ringData, ringTail, genPos>>
    BY <1>1 DEF epVars
  <2> QED
    BY <2>1, <2>2, <2>3 DEF RingInOrder
<1>8. HostOK' /\ InOrder'
  BY <1>1, <1>2, <1>3 DEF IInv, HostOK, InOrder, epVars, hostVars
<1> QED
  BY <1>4, <1>5, <1>6, <1>7, <1>8 DEF IInv

\* The interrupt, with the pump between two chunks when it has to generate.
LEMMA IsrInKeeps == ASSUME IInv, IsrIn, PumpAhead PROVE IInv'
<1>1. /\ xferInt = "in" /\ xferInt' = "none" /\ (ringHead # ringTail \/ pc = "top")
      /\ UNCHANGED <<pc, idx, offset, ringData, ringHead, devEnum, resetInt, hostVars>>
  BY DEF IsrIn
<1>2. /\ ringHead \in Nat /\ ringTail \in Nat /\ genPos \in Nat /\ Total \in Nat
      /\ genPos \in 0 .. Total
  BY ConstantsAssumption DEF IInv, Types
<1>3. CASE ringHead # ringTail
  <2>1. ep2Buf' = ringData[Slot(ringTail)] /\ ringTail' = ringTail + 1 /\ UNCHANGED <<genPos, walk>>
    BY <1>3 DEF IsrIn
  <2>2. ringData[Slot(ringTail)] = Packet(NextOut)
    BY <1>3, TailDue DEF IInv
  <2>3. Waiting' = Waiting - 1 /\ NextOut' = NextOut + 1 /\ Waiting > 0
        /\ NextOut \in Nat /\ Waiting \in Nat
    BY <1>1, <1>2, <1>3, <2>1 DEF Waiting, NextOut, IInv, WindowOK
  <2>4. Types'
    BY <1>1, <1>2, <2>1, <2>2, <2>3, PacketTyped DEF IInv, Types, hostVars
  <2>5. WindowOK'
    BY <1>1, <2>3, ConstantsAssumption DEF IInv, WindowOK
  <2>6. WalkOK'
    BY <1>1, <2>1 DEF IInv, WalkOK
  <2>7. RingInOrder'
    <3> DEFINE a == IF pc = "publish" THEN 1 ELSE 0
    <3>0. a \in Int
      OBVIOUS
    <3>1. ASSUME NEW i \in 0 .. Waiting - 2
          PROVE  ringData[Slot((ringTail + 1) + i)] = Packet(genPos - a - (Waiting - 1) + i)
      <4> HIDE DEF a
      <4>1. /\ i + 1 \in 0 .. Waiting - 1 /\ (ringTail + 1) + i = ringTail + (i + 1)
            /\ genPos - a - (Waiting - 1) + i = genPos - a - Waiting + (i + 1)
        BY <1>2, <2>3, <3>0
      <4>2. ringData[Slot(ringTail + (i + 1))] = Packet(genPos - a - Waiting + (i + 1))
        BY <4>1 DEF IInv, RingInOrder, Waiting, a
      <4> QED
        BY <4>1, <4>2
    <3>2. ringHead' - ringTail' = Waiting - 1 /\ (Waiting - 1) - 1 = Waiting - 2
      BY <2>3 DEF Waiting
    <3> QED
      BY <1>1, <2>1, <3>1, <3>2 DEF RingInOrder
  <2>8. HostOK' /\ InOrder'
    BY <1>1, <2>1, <2>2, <2>3 DEF IInv, HostOK, InOrder, hostVars
  <2> QED
    BY <2>4, <2>5, <2>6, <2>7, <2>8 DEF IInv
<1>4. CASE ringHead = ringTail /\ genPos >= Total
  <2>1. ep2Res' = "NAK" /\ UNCHANGED <<ep2Buf, ringTail, genPos, walk>>
    BY <1>2, <1>4 DEF IsrIn
  <2>2. Types' /\ WindowOK' /\ WalkOK' /\ RingInOrder'
    BY <1>1, <2>1 DEF IInv, Types, WindowOK, WalkOK, RingInOrder, Waiting, NextOut, hostVars
  <2>3. HostOK' /\ InOrder'
    BY <1>1, <2>1 DEF IInv, HostOK, InOrder, hostVars
  <2> QED
    BY <2>2, <2>3 DEF IInv
<1>5. CASE ringHead = ringTail /\ genPos < Total
  <2>1. /\ ep2Buf' = <<walk, walk + 1>> /\ walk' = walk + 2 /\ genPos' = genPos + 1
        /\ pc = "top" /\ UNCHANGED ringTail
    BY <1>1, <1>2, <1>5 DEF IsrIn
  <2>2. walk = 2 * genPos /\ Waiting = 0 /\ Waiting' = 0 /\ NextOut = genPos /\ NextOut' = genPos + 1
    BY <1>1, <1>2, <1>5, <2>1 DEF IInv, WalkOK, Waiting, NextOut
  <2>3. ep2Buf' = Packet(NextOut)
    BY <2>1, <2>2 DEF Packet
  <2>4. Types'
    BY <1>1, <1>2, <1>5, <2>1, <2>2 DEF IInv, Types, hostVars
  <2>5. WindowOK' /\ WalkOK'
    BY <1>1, <1>2, <2>1, <2>2, ConstantsAssumption DEF IInv, WindowOK, WalkOK
  <2>6. RingInOrder'
    BY <2>2 DEF RingInOrder, Waiting
  <2>7. HostOK' /\ InOrder'
    BY <1>1, <2>2, <2>3 DEF IInv, HostOK, InOrder, hostVars
  <2> QED
    BY <2>4, <2>5, <2>6, <2>7 DEF IInv
<1> QED
  BY <1>2, <1>3, <1>4, <1>5

\* FileXfer_Start finds the pump at rest and rewrites the ring under nobody.
LEMMA IsrStartKeeps == ASSUME IInv, IsrStart PROVE IInv'
<1> DEFINE n == IF Total < Slots THEN Total ELSE Slots
<1>1. /\ xferInt = "start" /\ xferInt' = "none" /\ host' = "reading"
      /\ ringData' = [i \in 0 .. Slots - 1 |-> IF i < n THEN Packet(i) ELSE ringData[i]]
      /\ ringHead' = n /\ genPos' = n /\ walk' = 2 * n
      /\ \/ devEnum /\ ep2Buf' = ringData'[0] /\ ringTail' = 1 /\ ep2Res' = "ACK"
         \/ ~devEnum /\ ringTail' = 0 /\ UNCHANGED <<ep2Buf, ep2Res>>
      /\ UNCHANGED <<pc, idx, offset, devEnum, resetInt, got, starts, resets>>
  BY DEF IsrStart
<1>2. n \in 1 .. Total /\ n \in 1 .. Slots /\ n \in Nat
  BY ConstantsAssumption
<1> HIDE DEF n
<1>3. pc = "top" /\ host = "starting" /\ got = << >> /\ devEnum /\ ~resetInt /\ Len(got) = 0
  BY <1>1 DEF IInv, HostOK, PumpResting
<1>4. ep2Buf' = ringData'[0] /\ ringTail' = 1 /\ ep2Res' = "ACK"
  BY <1>1, <1>3
<1>5. /\ ringData' \in [0 .. Slots - 1 -> Int \X Int]
      /\ \A i \in 0 .. n - 1 : ringData'[i] = Packet(i)
  <2>1. \A i \in 0 .. Slots - 1 : Packet(i) \in Int \X Int
    BY PacketTyped, ConstantsAssumption
  <2>2. ringData' \in [0 .. Slots - 1 -> Int \X Int]
    BY <1>1, <2>1 DEF IInv, Types
  <2>3. \A i \in 0 .. n - 1 : ringData'[i] = Packet(i)
    BY <1>1, <1>2, ConstantsAssumption
  <2> QED
    BY <2>2, <2>3
<1>6. ep2Buf' = Packet(0)
  BY <1>2, <1>4, <1>5
<1>7. Waiting' = n - 1 /\ NextOut' = 1
  BY <1>1, <1>2, <1>3, <1>4 DEF Waiting, NextOut
<1>8. Types'
  <2>1. Packet(0) \in Int \X Int
    BY PacketTyped
  <2>2. n \in 0 .. Total /\ 2 * n \in Nat
    BY <1>2, ConstantsAssumption
  <2> QED
    BY <1>1, <1>2, <1>4, <1>5, <1>6, <2>1, <2>2 DEF IInv, Types
<1>9. WindowOK'
  BY <1>1, <1>2, <1>3, <1>7, ConstantsAssumption DEF WindowOK
<1>10. WalkOK'
  BY <1>1, <1>2, <1>3 DEF WalkOK
<1>11. RingInOrder'
  <2>1. ASSUME NEW i \in 0 .. n - 2
        PROVE  ringData'[Slot(1 + i)] = Packet(n - 0 - (n - 1) + i)
    <3>1. 1 + i \in 0 .. n - 1 /\ 1 + i \in 0 .. Slots - 1 /\ n - 0 - (n - 1) + i = 1 + i
      BY <1>2, ConstantsAssumption
    <3>2. Slot(1 + i) = 1 + i
      <4>1. Slots * 0 + (1 + i) = 1 + i /\ Slots \in Nat \ {0}
        BY <3>1, ConstantsAssumption
      <4> QED
        BY <3>1, <4>1, ModUnique DEF Slot
    <3> QED
      BY <1>5, <3>1, <3>2
  <2>2. ringHead' - ringTail' = n - 1 /\ (n - 1) - 1 = n - 2
    BY <1>2, <1>7 DEF Waiting
  <2>3. pc' # "publish" /\ genPos' = n /\ ringTail' = 1
    BY <1>1, <1>3, <1>4
  <2> QED
    BY <2>1, <2>2, <2>3 DEF RingInOrder
<1>12. HostOK' /\ InOrder'
  BY <1>1, <1>2, <1>3, <1>4, <1>6, <1>7, ConstantsAssumption DEF IInv, HostOK, InOrder
<1> QED
  BY <1>8, <1>9, <1>10, <1>11, <1>12 DEF IInv

\* The host takes what EP2 holds, which is the packet it has not got.
LEMMA HostTakeKeeps ==
    ASSUME IInv, HostTake
    PROVE  /\ IInv' /\ ep2Buf = Packet(Len(got)) /\ Len(got) \in Nat
           /\ got' = Append(got, ep2Buf) /\ host' = IF Len(got) + 1 < Total THEN "reading" ELSE "idle"
<1>1. /\ BusQuiet /\ host = "reading" /\ ep2Res = "ACK"
      /\ got' = Append(got, ep2Buf) /\ xferInt' = "in"
      /\ host' = IF Len(got') = Total THEN "idle" ELSE "reading"
      /\ UNCHANGED <<genVars, epVars, devEnum, resetInt, starts, resets>>
  BY DEF HostTake
<1>2. /\ ep2Buf = Packet(Len(got)) /\ NextOut = Len(got) + 1 /\ devEnum /\ ~resetInt
      /\ Len(got) < Total /\ Total \in Nat
  BY <1>1, ConstantsAssumption DEF IInv, HostOK, BusQuiet
<1>3. /\ Len(got) \in Nat /\ got' \in Seq(Int \X Int) /\ Len(got') = Len(got) + 1
      /\ \A i \in 1 .. Len(got) : got'[i] = got[i]
      /\ got'[Len(got) + 1] = ep2Buf
  BY <1>1 DEF IInv, Types
<1>4. InOrder'
  <2>1. ASSUME NEW i \in 1 .. Len(got') PROVE got'[i] = Packet(i - 1)
    <3>1. CASE i = Len(got) + 1
      BY <1>2, <1>3, <3>1
    <3>2. CASE i # Len(got) + 1
      <4>1. i \in 1 .. Len(got)
        BY <1>3, <3>2
      <4> QED
        BY <1>3, <4>1 DEF IInv, InOrder
    <3> QED
      BY <3>1, <3>2
  <2> QED
    BY <2>1 DEF InOrder
<1>5. host' = IF Len(got) + 1 < Total THEN "reading" ELSE "idle"
  BY <1>1, <1>2, <1>3
<1>6. NextOut' = NextOut
  BY <1>1 DEF NextOut, Waiting, genVars, epVars
<1>7. HostOK'
  BY <1>1, <1>2, <1>3, <1>5, <1>6 DEF HostOK
<1>8. IInv'
  BY <1>1, <1>3, <1>4, <1>7, Elsewhere DEF epVars
<1> QED
  BY <1>1, <1>2, <1>3, <1>5, <1>8

\* The rest of the host and of the interrupt; starts find the pump at rest.
LEMMA BusKeeps ==
    ASSUME IInv, ~RestartAnytime,
           HostConfigure \/ HostStart \/ BusReset \/ IsrConfig \/ IsrReset
    PROVE  IInv'
<1>1. UNCHANGED <<genVars, ringTail, ep2Buf>> /\ got' \in Seq(Int \X Int)
  <2>1. UNCHANGED <<genVars, ringTail, ep2Buf>> /\ (got' = got \/ got' = << >>)
    BY DEF HostConfigure, HostStart, BusReset, IsrConfig, IsrReset, epVars, hostVars
  <2>2. got \in Seq(Int \X Int) /\ << >> \in Seq(Int \X Int)
    BY DEF IInv, Types
  <2> QED
    BY <2>1, <2>2
<1>2. InOrder' /\ NextOut' = NextOut
  BY <1>1 DEF HostConfigure, HostStart, BusReset, IsrConfig, IsrReset, hostVars, IInv, InOrder,
     NextOut, Waiting, genVars
<1>3. CASE HostConfigure
  BY <1>1, <1>2, <1>3, Elsewhere DEF HostConfigure, HostOK, IInv, BusQuiet
<1>4. CASE HostStart
  BY <1>1, <1>2, <1>4, Elsewhere
     DEF HostStart, HostOK, IInv, BusQuiet, PumpResting, genVars, epVars
<1>5. CASE BusReset
  BY <1>1, <1>2, <1>5, Elsewhere DEF BusReset, HostOK, IInv
<1>6. CASE IsrConfig
  BY <1>1, <1>2, <1>6, Elsewhere DEF IsrConfig, HostOK, IInv
<1>7. CASE IsrReset
  BY <1>1, <1>2, <1>7, Elsewhere DEF IsrReset, HostOK, IInv, hostVars
<1> QED
  BY <1>3, <1>4, <1>5, <1>6, <1>7

LEMMA IInvInit == Init => IInv
<1> SUFFICES ASSUME Init PROVE IInv
  OBVIOUS
<1>1. Torn \in Int \X Int /\ 0 \in 0 .. Slots - 1
  BY ConstantsAssumption DEF Torn
<1>2. Types
  BY <1>1, ConstantsAssumption DEF Init, Types
<1>3. Waiting = 0 /\ NextOut = 0 /\ Slots \in Nat
  BY ConstantsAssumption DEF Init, Waiting, NextOut
<1>4. WindowOK /\ WalkOK /\ RingInOrder
  BY <1>3 DEF Init, WindowOK, WalkOK, RingInOrder, Waiting
<1>5. HostOK /\ InOrder
  BY DEF Init, HostOK, InOrder
<1> QED
  BY <1>2, <1>4, <1>5 DEF IInv

LEMMA IInvStep == Paced /\ IInv /\ [Next]_vars => IInv'
<1> SUFFICES ASSUME Paced, IInv, [Next]_vars PROVE IInv'
  OBVIOUS
<1>1. CASE Pump
  BY <1>1, PumpBeginKeeps, PumpSecondHalfKeeps, PumpEndKeeps, PumpPublishKeeps DEF Pump
<1>2. CASE IsrIn
  BY <1>2, IsrInKeeps DEF Paced
<1>3. CASE IsrStart
  BY <1>3, IsrStartKeeps
<1>4. CASE HostTake
  BY <1>4, HostTakeKeeps
<1>5. CASE HostConfigure \/ HostStart \/ BusReset \/ IsrConfig \/ IsrReset
  BY <1>5, BusKeeps DEF Paced
<1>6. CASE UNCHANGED vars
  BY <1>6, Elsewhere DEF vars, epVars, hostVars, genVars, IInv, Types, HostOK, InOrder,
     PumpResting, NextOut, Waiting
<1> QED
  BY <1>1, <1>2, <1>3, <1>4, <1>5, <1>6 DEF Next, Isr

(***************************************************************************)
(* The refinement of FileDownload, but for its liveness.                   *)
(***************************************************************************)

\* The packets received, each by its first half: the mapping of Download.
Numbers(g) == [i \in 1 .. Len(g) |-> g[i][1] \div 2]

LEMMA NumbersAppend ==
    ASSUME NEW g \in Seq(Int \X Int), NEW k \in Nat
    PROVE  Numbers(Append(g, Packet(k))) = Append(Numbers(g), k)
<1> DEFINE g2 == Append(g, Packet(k))
<1>1. Len(g2) = Len(g) + 1 /\ Len(g) \in Nat
  BY PacketTyped
<1>2. Numbers(g) \in Seq(Int) /\ Len(Numbers(g)) = Len(g)
  <2>1. \A i \in 1 .. Len(g) : g[i][1] \div 2 \in Int
    OBVIOUS
  <2> QED
    BY <1>1, <2>1 DEF Numbers
<1>3. Numbers(g2) \in Seq(Int) /\ Len(Numbers(g2)) = Len(g) + 1
  <2>1. g2 \in Seq(Int \X Int)
    <3>1. Packet(k) \in Int \X Int
      BY DEF Packet
    <3> QED
      BY <3>1
  <2>2. \A i \in 1 .. Len(g2) : g2[i][1] \div 2 \in Int
    BY <2>1
  <2> HIDE DEF g2
  <2> QED
    BY <1>1, <2>2 DEF Numbers
<1>4. ASSUME NEW i \in 1 .. Len(g) + 1
      PROVE  Numbers(g2)[i] = Append(Numbers(g), k)[i]
  <2>1. Numbers(g2)[i] = g2[i][1] \div 2
    BY <1>1 DEF Numbers
  <2>2. CASE i = Len(g) + 1
    <3>1. g2[i] = Packet(k)
      BY <1>1, <2>2
    <3>2. Packet(k)[1] \div 2 = k
      BY DEF Packet
    <3>3. Append(Numbers(g), k)[i] = k
      BY <1>2, <2>2
    <3> QED
      BY <2>1, <3>1, <3>2, <3>3
  <2>3. CASE i # Len(g) + 1
    <3>1. i \in 1 .. Len(g)
      BY <1>1, <2>3
    <3>2. g2[i] = g[i] /\ Append(Numbers(g), k)[i] = Numbers(g)[i]
      BY <1>2, <3>1
    <3> QED
      BY <2>1, <3>1, <3>2 DEF Numbers
  <2> QED
    BY <2>2, <2>3
<1>5. Append(Numbers(g), k) \in Seq(Int) /\ Len(Append(Numbers(g), k)) = Len(g) + 1
  BY <1>2
<1> HIDE DEF g2
<1>6. Numbers(g2) = Append(Numbers(g), k)
  BY <1>3, <1>4, <1>5, SeqEqual
<1> QED
  BY <1>6 DEF g2

LEMMA NumbersEmpty == Numbers(<< >>) = << >>
  BY DEF Numbers

LEMMA DownloadStep ==
    Paced /\ IInv /\ [Next]_vars => [Download!DownloadNext]_(Download!fdVars)
<1> SUFFICES ASSUME Paced, IInv, [Next]_vars
             PROVE  Download!DownloadNext \/ UNCHANGED Download!fdVars
  OBVIOUS
<1> USE DEF Numbers
<1>1. CASE Pump
  BY <1>1 DEF Pump, PumpBegin, PumpSecondHalf, PumpEnd, PumpPublish, hostVars, Download!fdVars
<1>2. CASE IsrIn \/ IsrReset
  BY <1>2 DEF IsrIn, IsrReset, hostVars, Download!fdVars
<1>3. CASE IsrConfig
  BY <1>3 DEF IsrConfig, IInv, HostOK, Download!fdVars
<1>4. CASE HostConfigure \/ BusReset
  BY <1>4 DEF HostConfigure, BusReset, Download!fdVars
<1>5. CASE IsrStart
  <2>1. host = "starting" /\ got = << >> /\ host' = "reading" /\ got' = got
    BY <1>5 DEF IsrStart, IInv, HostOK
  <2> QED
    BY <2>1, NumbersEmpty DEF Download!DownloadNext, Download!Begin
<1>6. CASE HostStart
  <2>1. host = "idle" /\ host' = "starting" /\ got' = << >>
    BY <1>6 DEF HostStart, Paced
  <2> QED
    BY <2>1, NumbersEmpty DEF Download!DownloadNext, Download!Request
<1>7. CASE HostTake
  <2>1. /\ host = "reading" /\ got' = Append(got, Packet(Len(got)))
        /\ got \in Seq(Int \X Int) /\ Len(got) \in Nat
        /\ host' = IF Len(got) + 1 < Total THEN "reading" ELSE "idle"
    BY <1>7, HostTakeKeeps DEF IInv, Types, HostTake
  <2>2. Numbers(got') = Append(Numbers(got), Len(got)) /\ Len(got') = Len(got) + 1
    <3>1. Packet(Len(got)) \in Int \X Int
      BY <2>1, PacketTyped
    <3>2. Numbers(Append(got, Packet(Len(got)))) = Append(Numbers(got), Len(got))
      BY <2>1, NumbersAppend
    <3>3. Len(Append(got, Packet(Len(got)))) = Len(got) + 1
      BY <2>1, <3>1
    <3> QED
      BY <2>1, <3>2, <3>3
  <2>3. Len(Numbers(got)) = Len(got) /\ Len(Numbers(got')) = Len(got) + 1
    BY <2>1, <2>2
  <2> QED
    BY <2>1, <2>2, <2>3 DEF Download!DownloadNext, Download!Deliver
<1>8. CASE UNCHANGED vars
  BY <1>8 DEF vars, hostVars, Download!fdVars
<1> QED
  BY <1>1, <1>2, <1>3, <1>4, <1>5, <1>6, <1>7, <1>8 DEF Next, Isr

(***************************************************************************)
(* Theorems.                                                               *)
(***************************************************************************)

\* filexfer.c of the CH32L103: the ring keeps the order of the file.
THEOREM RingKeepsOrder == Paced => (Spec => []RingInOrder)
<1> SUFFICES ASSUME Paced PROVE Spec => []RingInOrder
  OBVIOUS
<1>1. IInv /\ [Next]_vars => IInv'
  BY IInvStep
<1>2. IInv => RingInOrder
  BY DEF IInv
<1> QED
  BY <1>1, <1>2, IInvInit, PTL DEF Spec

\* filexfer.c of the CH32L103: the host gets whole packets, in order.
THEOREM ReceivedInOrder == Paced => (Spec => []InOrder)
<1> SUFFICES ASSUME Paced PROVE Spec => []InOrder
  OBVIOUS
<1>1. IInv /\ [Next]_vars => IInv'
  BY IInvStep
<1>2. IInv => InOrder
  BY DEF IInv
<1> QED
  BY <1>1, <1>2, IInvInit, PTL DEF Spec

\* filexfer.c of the CH32L103 does what FileDownload promises, but for that a
\* download ends: a request is answered with the file, first packet to last.
THEOREM DownloadInOrder == Paced => (Spec => Download!DownloadOrder)
<1> SUFFICES ASSUME Paced PROVE Spec => Download!DownloadOrder
  OBVIOUS
<1>1. Init => Download!InitDownload
  BY NumbersEmpty DEF Init, Download!InitDownload, Numbers
<1>2. IInv /\ [Next]_vars => [Download!DownloadNext]_(Download!fdVars)
  BY DownloadStep
<1>3. IInv /\ [Next]_vars => IInv'
  BY IInvStep
<1> QED
  BY <1>1, <1>2, <1>3, IInvInit, PTL DEF Spec, Download!DownloadOrder

(***************************************************************************)
(* The bytes of the file, which the ring above carries: BmpFile.  An       *)
(* offset in the image is a row, a column in it and a channel in that, and *)
(* the walk and the rows are followed in these three numbers.              *)
(***************************************************************************)

LEMMA DivUnique ==
    ASSUME NEW C \in Nat \ {0}, NEW q \in Int, NEW r \in 0 .. C - 1
    PROVE  (C * q + r) \div C = q
  OBVIOUS

LEMMA DivMod ==
    ASSUME NEW C \in Nat \ {0}, NEW x \in Nat
    PROVE  x \div C \in Nat /\ x % C \in 0 .. C - 1 /\ x = C * (x \div C) + (x % C)
  OBVIOUS

LEMMA FileSizes ==
    /\ Width \in Nat /\ Width > 1 /\ Height \in Nat /\ Height > 1 /\ Word \in Nat /\ Word > Height
    /\ RowBytes \in Nat \ {0} /\ RowBytes = 3 * Width
    /\ RowBytes * Height \in Nat /\ TotalSize = 54 + RowBytes * Height /\ TotalSize \in Nat
<1>1. Width \in Nat /\ Width > 1 /\ Height \in Nat /\ Height > 1 /\ Word \in Nat /\ Word > Height
  BY FileAssumption
<1>2. RowBytes \in Nat \ {0} /\ RowBytes = 3 * Width
  BY <1>1 DEF RowBytes
<1>3. RowBytes * Height \in Nat
  BY <1>1, <1>2
<1> QED
  BY <1>1, <1>2, <1>3 DEF TotalSize, HeaderLen

\* The offset in the image of a byte of a pixel.
PixelAt(row, col, channel) == RowBytes * row + (3 * col + channel)

RowAt(p) == p \div RowBytes
ColAt(p) == (p % RowBytes) \div 3
ChannelAt(p) == p % 3

LEMMA PixelParts ==
    ASSUME NEW r \in Nat, NEW c \in 0 .. Width - 1, NEW ch \in 0 .. 2,
           NEW p, p = PixelAt(r, c, ch)
    PROVE  p \in Nat /\ RowAt(p) = r /\ ColAt(p) = c /\ ChannelAt(p) = ch
<1> DEFINE C == RowBytes
           m == 3 * c + ch
<1>1. C \in Nat \ {0} /\ C = 3 * Width /\ Width \in Nat /\ m \in 0 .. C - 1 /\ r \in Int
  BY FileSizes
<1>2. m \div 3 = c
  BY DivUnique
<1>3. (C * r + m) % 3 = ch
  <2> DEFINE q == Width * r
  <2>1. C * r = 3 * q /\ q \in Nat
    BY <1>1
  <2>2. C * r + m = 3 * (q + c) + ch /\ q + c \in Int
    BY <2>1
  <2> HIDE DEF q
  <2> QED
    BY <2>2, ModUnique
<1> HIDE DEF C, m
<1>4. (C * r + m) % C = m /\ (C * r + m) \div C = r /\ C * r + m \in Nat
  BY <1>1, ModUnique, DivUnique
<1>5. p = C * r + m
  BY DEF PixelAt, C, m
<1>6. RowAt(p) = r /\ ColAt(p) = m \div 3 /\ ChannelAt(p) = ch
  BY <1>3, <1>4, <1>5 DEF RowAt, ColAt, ChannelAt, C
<1> QED
  BY <1>2, <1>4, <1>5, <1>6

LEMMA PixelSplit ==
    ASSUME NEW p \in Nat
    PROVE  \E r \in Nat, c \in 0 .. Width - 1, ch \in 0 .. 2 : p = PixelAt(r, c, ch)
<1> DEFINE C == RowBytes
           r == p \div C
           m == p % C
<1>1. C \in Nat \ {0} /\ C = 3 * Width /\ Width \in Nat
  BY FileSizes
<1> HIDE DEF C
<1>2. r \in Nat /\ m \in 0 .. C - 1 /\ p = C * r + m
  BY <1>1, DivMod
<1> HIDE DEF r, m
<1>3. m \div 3 \in Nat /\ m % 3 \in 0 .. 2 /\ m = 3 * (m \div 3) + (m % 3)
  BY <1>1, <1>2, DivMod
<1>4. m \div 3 \in 0 .. Width - 1
  BY <1>1, <1>2, <1>3
<1>5. p = PixelAt(r, m \div 3, m % 3)
  BY <1>2, <1>3 DEF PixelAt, C
<1> QED
  BY <1>2, <1>3, <1>4, <1>5

LEMMA PixelInImage ==
    ASSUME NEW r \in Nat, NEW c \in 0 .. Width - 1, NEW ch \in 0 .. 2,
           PixelAt(r, c, ch) < RowBytes * Height
    PROVE  r \in 0 .. Height - 1
<1> DEFINE C == RowBytes
<1>1. C \in Nat \ {0} /\ Height \in Nat /\ C * r + (3 * c + ch) < C * Height /\ 3 * c + ch \in Nat
  BY FileSizes DEF PixelAt
<1> HIDE DEF C
<1>2. ASSUME r >= Height PROVE FALSE
  <2>1. C * r >= C * Height /\ C * r \in Nat /\ C * Height \in Nat
    BY <1>1, <1>2
  <2> QED
    BY <1>1, <2>1
<1> QED
  BY <1>1, <1>2

(***************************************************************************)
(* The header, field after field.                                          *)
(***************************************************************************)

FileByte == 0 .. 255

LEMMA FunctionSeq ==
    ASSUME NEW S, NEW n \in Nat, NEW f \in [1 .. n -> S]
    PROVE  f \in Seq(S) /\ Len(f) = n
  OBVIOUS

HasAt(file, at, field) == \A k \in 1 .. Len(field) : file[at + k] = field[k]

Begins(s, t) == Len(s) <= Len(t) /\ \A i \in 1 .. Len(s) : t[i] = s[i]

\* A field appended to the fields so far.
LEMMA FieldAppended ==
    ASSUME NEW s \in Seq(FileByte), NEW u \in Seq(FileByte)
    PROVE  /\ s \o u \in Seq(FileByte) /\ Len(s \o u) = Len(s) + Len(u)
           /\ HasAt(s \o u, Len(s), u) /\ Begins(s, s \o u)
<1> DEFINE t == s \o u
<1>1. /\ t \in Seq(FileByte) /\ Len(t) = Len(s) + Len(u) /\ Len(s) \in Nat /\ Len(u) \in Nat
      /\ \A i \in 1 .. Len(s) + Len(u) : t[i] = IF i <= Len(s) THEN s[i] ELSE u[i - Len(s)]
  BY ConcatProperties
<1> HIDE DEF t
<1>2. ASSUME NEW k \in 1 .. Len(u) PROVE t[Len(s) + k] = u[k]
  <2>1. /\ Len(s) + k \in 1 .. Len(s) + Len(u) /\ ~(Len(s) + k <= Len(s))
        /\ (Len(s) + k) - Len(s) = k
    BY <1>1
  <2>2. t[Len(s) + k] = u[(Len(s) + k) - Len(s)]
    BY <1>1, <2>1
  <2> QED
    BY <2>1, <2>2
<1>3. \A i \in 1 .. Len(s) : t[i] = s[i]
  BY <1>1
<1> QED
  BY <1>1, <1>2, <1>3 DEF HasAt, Begins, t

LEMMA BeginsTrans ==
    ASSUME NEW s \in Seq(FileByte), NEW t \in Seq(FileByte), NEW u \in Seq(FileByte),
           Begins(s, t), Begins(t, u)
    PROVE  Begins(s, u)
<1>1. Len(s) \in Nat /\ Len(t) \in Nat /\ Len(u) \in Nat
  OBVIOUS
<1> QED
  BY <1>1 DEF Begins

\* A field stays where it is in all that begins with it.
LEMMA FieldStays ==
    ASSUME NEW s \in Seq(FileByte), NEW t \in Seq(FileByte), Begins(s, t),
           NEW at \in Nat, NEW v \in Seq(FileByte), at + Len(v) <= Len(s), HasAt(s, at, v)
    PROVE  HasAt(t, at, v)
<1>1. Len(s) \in Nat /\ Len(v) \in Nat
  OBVIOUS
<1>2. ASSUME NEW k \in 1 .. Len(v) PROVE t[at + k] = v[k]
  <2>1. at + k \in 1 .. Len(s)
    BY <1>1
  <2> QED
    BY <2>1 DEF HasAt, Begins
<1> QED
  BY <1>2 DEF HasAt

LEMMA HeaderFields ==
    /\ Header \in Seq(FileByte) /\ Len(Header) = 54
    /\ HasAt(Header, 2, LE32(TotalSize)) /\ HasAt(Header, 10, LE32(54))
    /\ HasAt(Header, 18, LE32(Width)) /\ HasAt(Header, 22, LE32(Height))
    /\ HasAt(Header, 34, LE32(RowBytes * Height))
<1> DEFINE S == FileByte
<1>1. ASSUME NEW v \in Nat PROVE LE32(v) \in Seq(S) /\ Len(LE32(v)) = 4
  BY DEF LE32, FileByte
<1>2. ASSUME NEW n \in Nat PROVE Zeros(n) \in Seq(S) /\ Len(Zeros(n)) = n
  <2>1. Zeros(n) \in [1 .. n -> S]
    BY DEF Zeros, FileByte
  <2> QED
    BY <2>1, FunctionSeq
<1>3. <<66, 77>> \in Seq(S) /\ <<1, 0, 24, 0>> \in Seq(S)
  BY DEF FileByte
<1> DEFINE z1 == <<66, 77>>
           z2 == LE32(TotalSize)
           z3 == Zeros(4)
           z4 == LE32(HeaderLen)
           z5 == LE32(40)
           z6 == LE32(Width)
           z7 == LE32(Height)
           z8 == <<1, 0, 24, 0>>
           z9 == LE32(RowBytes * Height)
           z10 == Zeros(16)
<1>4. /\ z1 \in Seq(S) /\ z2 \in Seq(S) /\ z3 \in Seq(S) /\ z4 \in Seq(S) /\ z5 \in Seq(S)
      /\ z6 \in Seq(S) /\ z7 \in Seq(S) /\ z8 \in Seq(S) /\ z9 \in Seq(S) /\ z10 \in Seq(S)
  BY <1>1, <1>2, <1>3, FileSizes DEF HeaderLen
<1>5. /\ Len(z1) = 2 /\ Len(z2) = 4 /\ Len(z3) = 4 /\ Len(z4) = 4 /\ Len(z5) = 4 /\ Len(z6) = 4
      /\ Len(z7) = 4 /\ Len(z8) = 4 /\ Len(z9) = 4 /\ Len(z10) = 16
  BY <1>1, <1>2, FileSizes DEF HeaderLen
<1>5a. z4 = LE32(54)
  BY DEF HeaderLen
<1> HIDE DEF S, z1, z2, z3, z4, z5, z6, z7, z8, z9, z10
<1> USE DEF S
<1> DEFINE h2  == z1 \o z2
           h3  == h2 \o z3
           h4  == h3 \o z4
           h5  == h4 \o z5
           h6  == h5 \o z6
           h7  == h6 \o z7
           h8  == h7 \o z8
           h9  == h8 \o z3
           h10 == h9 \o z9
           h11 == h10 \o z10
<1>6. /\ h2 \in Seq(S) /\ Len(h2) = Len(z1) + Len(z2)
      /\ HasAt(h2, Len(z1), z2) /\ Begins(z1, h2)
  BY <1>4, FieldAppended
<1> HIDE DEF h2
<1>7. /\ h3 \in Seq(S) /\ Len(h3) = Len(h2) + Len(z3)
      /\ HasAt(h3, Len(h2), z3) /\ Begins(h2, h3)
  BY <1>4, <1>6, FieldAppended
<1> HIDE DEF h3
<1>8. /\ h4 \in Seq(S) /\ Len(h4) = Len(h3) + Len(z4)
      /\ HasAt(h4, Len(h3), z4) /\ Begins(h3, h4)
  BY <1>4, <1>7, FieldAppended
<1> HIDE DEF h4
<1>9. /\ h5 \in Seq(S) /\ Len(h5) = Len(h4) + Len(z5)
      /\ HasAt(h5, Len(h4), z5) /\ Begins(h4, h5)
  BY <1>4, <1>8, FieldAppended
<1> HIDE DEF h5
<1>10. /\ h6 \in Seq(S) /\ Len(h6) = Len(h5) + Len(z6)
       /\ HasAt(h6, Len(h5), z6) /\ Begins(h5, h6)
  BY <1>4, <1>9, FieldAppended
<1> HIDE DEF h6
<1>11. /\ h7 \in Seq(S) /\ Len(h7) = Len(h6) + Len(z7)
       /\ HasAt(h7, Len(h6), z7) /\ Begins(h6, h7)
  BY <1>4, <1>10, FieldAppended
<1> HIDE DEF h7
<1>12. /\ h8 \in Seq(S) /\ Len(h8) = Len(h7) + Len(z8)
       /\ HasAt(h8, Len(h7), z8) /\ Begins(h7, h8)
  BY <1>4, <1>11, FieldAppended
<1> HIDE DEF h8
<1>13. /\ h9 \in Seq(S) /\ Len(h9) = Len(h8) + Len(z3)
       /\ HasAt(h9, Len(h8), z3) /\ Begins(h8, h9)
  BY <1>4, <1>12, FieldAppended
<1> HIDE DEF h9
<1>14. /\ h10 \in Seq(S) /\ Len(h10) = Len(h9) + Len(z9)
       /\ HasAt(h10, Len(h9), z9) /\ Begins(h9, h10)
  BY <1>4, <1>13, FieldAppended
<1> HIDE DEF h10
<1>15. /\ h11 \in Seq(S) /\ Len(h11) = Len(h10) + Len(z10)
       /\ HasAt(h11, Len(h10), z10) /\ Begins(h10, h11)
  BY <1>4, <1>14, FieldAppended
<1> HIDE DEF h11
<1>16. /\ Len(h2) = 6 /\ Len(h3) = 10 /\ Len(h4) = 14 /\ Len(h5) = 18 /\ Len(h6) = 22
       /\ Len(h7) = 26 /\ Len(h8) = 30 /\ Len(h9) = 34 /\ Len(h10) = 38 /\ Len(h11) = 54
  BY <1>5, <1>6, <1>7, <1>8, <1>9, <1>10, <1>11, <1>12, <1>13, <1>14, <1>15
<1>17. Begins(h7, h11) /\ Begins(h10, h11)
  <2>1. Begins(h9, h11)
    BY <1>13, <1>14, <1>15, BeginsTrans
  <2>2. Begins(h8, h11)
    BY <1>12, <1>13, <1>15, <2>1, BeginsTrans
  <2> QED
    BY <1>11, <1>12, <1>15, <2>2, BeginsTrans
<1>18. Begins(h6, h11)
  BY <1>10, <1>11, <1>15, <1>17, BeginsTrans
<1>19. Begins(h4, h11)
  <2>1. Begins(h5, h11)
    BY <1>9, <1>10, <1>15, <1>18, BeginsTrans
  <2> QED
    BY <1>8, <1>9, <1>15, <2>1, BeginsTrans
<1>20. Begins(h2, h11)
  <2>1. Begins(h3, h11)
    BY <1>7, <1>8, <1>15, <1>19, BeginsTrans
  <2> QED
    BY <1>6, <1>7, <1>15, <2>1, BeginsTrans
<1>21. HasAt(h11, Len(z1), z2)
  <2>1. Len(z1) \in Nat /\ Len(z1) + Len(z2) <= Len(h2)
    BY <1>5, <1>16
  <2> QED
    BY <1>4, <1>6, <1>15, <1>20, <2>1, FieldStays
<1>22. HasAt(h11, Len(h3), z4)
  <2>1. Len(h3) \in Nat /\ Len(h3) + Len(z4) <= Len(h4)
    BY <1>5, <1>16
  <2> QED
    BY <1>4, <1>8, <1>15, <1>19, <2>1, FieldStays
<1>23. HasAt(h11, Len(h5), z6)
  <2>1. Len(h5) \in Nat /\ Len(h5) + Len(z6) <= Len(h6)
    BY <1>5, <1>16
  <2> QED
    BY <1>4, <1>10, <1>15, <1>18, <2>1, FieldStays
<1>24. HasAt(h11, Len(h6), z7)
  <2>1. Len(h6) \in Nat /\ Len(h6) + Len(z7) <= Len(h7)
    BY <1>5, <1>16
  <2> QED
    BY <1>4, <1>11, <1>15, <1>17, <2>1, FieldStays
<1>25. HasAt(h11, Len(h9), z9)
  <2>1. Len(h9) \in Nat /\ Len(h9) + Len(z9) <= Len(h10)
    BY <1>5, <1>16
  <2> QED
    BY <1>4, <1>14, <1>15, <1>17, <2>1, FieldStays
<1>26. Header = h11
  BY DEF Header, h2, h3, h4, h5, h6, h7, h8, h9, h10, h11, z1, z2, z3, z4, z5, z6, z7, z8, z9, z10
<1> QED
  BY <1>5a, <1>5, <1>15, <1>16, <1>21, <1>22, <1>23, <1>24, <1>25, <1>26 DEF z2, z6, z7, z9

LEMMA HeaderTyped == Header \in Seq(FileByte) /\ Len(Header) = 54
  BY HeaderFields

LEMMA TablesTyped ==
    /\ \A c \in 0 .. Width - 1 : c \in DOMAIN s_blueByCol /\ s_blueByCol[c] \in FileByte
    /\ \A r \in 0 .. Height - 1 : r \in DOMAIN s_greenByRow /\ s_greenByRow[r] \in FileByte
<1>1. Width - 1 \in Nat \ {0} /\ Height - 1 \in Nat \ {0}
  BY FileSizes
<1>2. ASSUME NEW D \in Nat \ {0}, NEW x \in 0 .. D PROVE ((x * 255) \div D) % 256 \in FileByte
  BY <1>2 DEF FileByte
<1>3. /\ \A c \in 0 .. Width - 1 : ((c * 255) \div (Width - 1)) % 256 \in FileByte
      /\ \A r \in 0 .. Height - 1 : ((r * 255) \div (Height - 1)) % 256 \in FileByte
  BY <1>1, <1>2
<1> QED
  BY <1>3 DEF s_blueByCol, s_greenByRow

\* The pixel of a row, column and channel.
Pixel(r, c, ch) ==
    CASE ch = 0 -> s_blueByCol[c]
      [] ch = 1 -> s_greenByRow[Height - 1 - r]
      [] OTHER  -> (c + (Height - 1 - r)) % 256

LEMMA PixelTyped ==
    ASSUME NEW r \in 0 .. Height - 1, NEW c \in 0 .. Width - 1, NEW ch \in 0 .. 2
    PROVE  Pixel(r, c, ch) \in FileByte
<1>1. Height - 1 - r \in 0 .. Height - 1 /\ c + (Height - 1 - r) \in Int
  BY FileSizes
<1>2. (c + (Height - 1 - r)) % 256 \in FileByte
  BY <1>1 DEF FileByte
<1> QED
  BY <1>1, <1>2, TablesTyped DEF Pixel

\* The file past the header, in these numbers.
LEMMA BytePastHeader ==
    ASSUME NEW q \in Nat
    PROVE  ByteAt(54 + q) = Pixel(RowAt(q), ColAt(q), ChannelAt(q))
<1> DEFINE at == 54 + q
<1>1. at - HeaderLen = q /\ ~(at < HeaderLen) /\ at - HeaderLen >= 0
  BY DEF HeaderLen
<1> HIDE DEF at
<1>2. ByteAt(at) = Pixel(RowAt(at - HeaderLen), ColAt(at - HeaderLen), ChannelAt(at - HeaderLen))
  BY <1>1 DEF ByteAt, Pixel, RowAt, ColAt, ChannelAt
<1> QED
  BY <1>1, <1>2 DEF at

LEMMA FilePixel ==
    ASSUME NEW r \in Nat, NEW c \in 0 .. Width - 1, NEW ch \in 0 .. 2
    PROVE  ByteAt(54 + PixelAt(r, c, ch)) = Pixel(r, c, ch)
<1> SUFFICES ASSUME NEW p, p = PixelAt(r, c, ch)
             PROVE  ByteAt(54 + p) = Pixel(r, c, ch)
  OBVIOUS
<1>1. p \in Nat /\ RowAt(p) = r /\ ColAt(p) = c /\ ChannelAt(p) = ch
  BY PixelParts
<1> QED
  BY <1>1, BytePastHeader

(***************************************************************************)
(* The walk from one byte to the next.                                     *)
(***************************************************************************)

Walk(r, c, ch) == [channel |-> ch, col |-> c, row |-> Height - 1 - r]

LEMMA WalkByte ==
    ASSUME NEW r \in 0 .. Height - 1, NEW c \in 0 .. Width - 1, NEW ch \in 0 .. 2
    PROVE  PixelByte(Walk(r, c, ch)) = Pixel(r, c, ch)
<1>1. Height - 1 - r \in 0 .. Height - 1
  BY FileSizes
<1> QED
  BY <1>1, TablesTyped DEF PixelByte, Pixel, Walk

LEMMA WalkAdvance ==
    ASSUME NEW r \in 0 .. Height - 1, NEW c \in 0 .. Width - 1, NEW ch \in 0 .. 2
    PROVE  \E r2 \in Nat, c2 \in 0 .. Width - 1, ch2 \in 0 .. 2 :
               /\ PixelAt(r2, c2, ch2) = PixelAt(r, c, ch) + 1
               /\ Advance(Walk(r, c, ch)).channel = ch2 /\ Advance(Walk(r, c, ch)).col = c2
               /\ Advance(Walk(r, c, ch)).row = (Height - 1 - r2) % Word
<1> DEFINE w == Walk(r, c, ch)
           C == RowBytes
<1>1. /\ C \in Nat \ {0} /\ C = 3 * Width /\ Width \in Nat /\ Width > 1 /\ Height \in Nat
      /\ Word \in Nat /\ Word > Height
  BY FileSizes
<1>2. (Height - 1 - r) % Word = Height - 1 - r
  BY <1>1
<1>3. w.channel = ch /\ w.col = c /\ w.row = Height - 1 - r
  BY DEF Walk
<1>4. CASE ch + 1 < 3
  <2>1. Advance(w) = [w EXCEPT !.channel = @ + 1]
    BY <1>3, <1>4 DEF Advance
  <2>2. Advance(w).channel = ch + 1 /\ Advance(w).col = c /\ Advance(w).row = Height - 1 - r
    BY <2>1 DEF Walk
  <2>3. PixelAt(r, c, ch + 1) = PixelAt(r, c, ch) + 1
    BY <1>1 DEF PixelAt, C
  <2> QED
    BY <1>2, <1>4, <2>2, <2>3
<1>5. CASE ~(ch + 1 < 3) /\ c + 1 < Width
  <2>1. Advance(w) = [w EXCEPT !.channel = 0, !.col = @ + 1]
    BY <1>3, <1>5 DEF Advance
  <2>2. Advance(w).channel = 0 /\ Advance(w).col = c + 1 /\ Advance(w).row = Height - 1 - r
    BY <2>1 DEF Walk
  <2>3. PixelAt(r, c + 1, 0) = PixelAt(r, c, ch) + 1
    BY <1>1, <1>5 DEF PixelAt, C
  <2> QED
    BY <1>1, <1>2, <1>5, <2>2, <2>3
<1>6. CASE ~(ch + 1 < 3) /\ ~(c + 1 < Width)
  <2>1. Advance(w) = [w EXCEPT !.channel = 0, !.col = 0, !.row = (@ - 1) % Word]
    BY <1>3, <1>6 DEF Advance
  <2>2. Advance(w).channel = 0 /\ Advance(w).col = 0 /\ Advance(w).row = ((Height - 1 - r) - 1) % Word
    BY <2>1 DEF Walk
  <2>3. (Height - 1 - r) - 1 = Height - 1 - (r + 1)
    BY <1>1
  <2>4. PixelAt(r + 1, 0, 0) = PixelAt(r, c, ch) + 1
    <3>1. ch = 2 /\ 3 * c + ch + 1 = C
      BY <1>1, <1>6
    <3>2. C * (r + 1) = C * r + C /\ C * r \in Nat
      BY <1>1
    <3> HIDE DEF C
    <3> QED
      BY <1>1, <3>1, <3>2 DEF PixelAt, C
  <2>5. r + 1 \in Nat /\ 0 \in 0 .. Width - 1 /\ 0 \in 0 .. 2
    BY <1>1
  <2> QED
    BY <2>2, <2>3, <2>4, <2>5
<1> QED
  BY <1>4, <1>5, <1>6

(***************************************************************************)
(* A row, and what is cut out of it.                                       *)
(***************************************************************************)

LEMMA RowPixel ==
    ASSUME NEW r \in 0 .. Height - 1, NEW c \in 0 .. Width - 1, NEW ch \in 0 .. 2,
           NEW i \in Int, i = 3 * c + ch + 1
    PROVE  i \in 1 .. RowBytes /\ GenerateRow(r)[i] = Pixel(r, c, ch)
<1>1. i \in 1 .. RowBytes
  BY FileSizes
<1>2. (i - 1) % 3 = ch /\ (i - 1) \div 3 = c
  OBVIOUS
<1>3. GenerateRow(r)[i] =
          CASE ch = 0 -> s_blueByCol[c]
            [] ch = 1 -> s_greenByRow[Height - 1 - r]
            [] OTHER  -> (c + (Height - 1 - r)) % 256
  BY <1>1, <1>2 DEF GenerateRow
<1> QED
  BY <1>1, <1>3 DEF Pixel

\* A piece of row r from its byte off on is the file from the same byte on.
LEMMA RowPiece ==
    ASSUME NEW r \in 0 .. Height - 1, NEW off \in Nat, NEW n \in Nat, off + n <= RowBytes
    PROVE  LET u == SubSeq(GenerateRow(r), off + 1, off + n)
           IN  /\ u \in Seq(FileByte) /\ Len(u) = n
               /\ \A k \in 1 .. n : u[k] = ByteAt(54 + (RowBytes * r + off) + (k - 1))
<1> DEFINE u == SubSeq(GenerateRow(r), off + 1, off + n)
<1>1. ASSUME NEW m \in 0 .. RowBytes - 1
      PROVE  /\ GenerateRow(r)[m + 1] \in FileByte
             /\ GenerateRow(r)[m + 1] = ByteAt(54 + (RowBytes * r + m))
  <2>1. m \div 3 \in 0 .. Width - 1 /\ m % 3 \in 0 .. 2 /\ m = 3 * (m \div 3) + (m % 3)
    BY FileSizes, DivMod
  <2> SUFFICES ASSUME NEW c \in 0 .. Width - 1, NEW ch \in 0 .. 2, m = 3 * c + ch
               PROVE  /\ GenerateRow(r)[m + 1] \in FileByte
                      /\ GenerateRow(r)[m + 1] = ByteAt(54 + (RowBytes * r + m))
    BY <2>1
  <2>2. GenerateRow(r)[m + 1] = Pixel(r, c, ch)
    <3>1. m + 1 \in Int /\ m + 1 = 3 * c + ch + 1
      OBVIOUS
    <3> QED
      BY <3>1, RowPixel
  <2>3. RowBytes * r + m = PixelAt(r, c, ch)
    BY DEF PixelAt
  <2>4. ByteAt(54 + PixelAt(r, c, ch)) = Pixel(r, c, ch) /\ Pixel(r, c, ch) \in FileByte
    <3>1. r \in Nat
      BY FileSizes
    <3> QED
      BY <3>1, FilePixel, PixelTyped
  <2> QED
    BY <2>2, <2>3, <2>4 DEF FileByte
<1>2. RowBytes \in Nat /\ RowBytes * r \in Nat
  <2>1. RowBytes \in Nat /\ r \in Nat
    BY FileSizes
  <2> QED
    BY <2>1
<1>3. \A i \in off + 1 .. off + n : GenerateRow(r)[i] \in FileByte
  <2>1. ASSUME NEW i \in off + 1 .. off + n PROVE GenerateRow(r)[i] \in FileByte
    <3>1. i - 1 \in 0 .. RowBytes - 1 /\ (i - 1) + 1 = i
      BY <1>2
    <3> QED
      BY <1>1, <3>1
  <2> QED
    BY <2>1
<1>4. u \in Seq(FileByte) /\ Len(u) = (IF off + 1 <= off + n THEN off + n - (off + 1) + 1 ELSE 0)
      /\ \A k \in 1 .. off + n - (off + 1) + 1 : u[k] = GenerateRow(r)[off + 1 + k - 1]
  BY <1>3, SubSeqProperties
<1> HIDE DEF u
<1>5. Len(u) = n /\ off + n - (off + 1) + 1 = n
  BY <1>4
<1>6. ASSUME NEW k \in 1 .. n PROVE u[k] = ByteAt(54 + (RowBytes * r + off) + (k - 1))
  <2> DEFINE m == off + (k - 1)
  <2>1. m \in 0 .. RowBytes - 1 /\ off + 1 + k - 1 = m + 1
    BY <1>2
  <2>2. 54 + (RowBytes * r + off) + (k - 1) = 54 + (RowBytes * r + m)
    <3> DEFINE b == RowBytes * r
    <3> HIDE DEF b
    <3>1. b \in Nat
      BY <1>2 DEF b
    <3>2. 54 + (b + off) + (k - 1) = 54 + (b + m)
      BY <3>1
    <3> QED
      BY <3>2 DEF b
  <2> HIDE DEF m
  <2>3. u[k] = GenerateRow(r)[m + 1]
    BY <1>4, <1>5, <2>1
  <2> QED
    BY <1>1, <2>1, <2>2, <2>3
<1> QED
  BY <1>4, <1>5, <1>6 DEF u

(***************************************************************************)
(* The inductive invariant of the file, and what is served of it.          *)
(***************************************************************************)

FileTypes ==
    /\ s_genPos \in Nat /\ chunk \in Nat /\ done \in 0 .. chunk /\ s_genPos + chunk <= TotalSize
    /\ s_pos \in 0 .. TotalSize /\ (s_pos = 0 \/ s_pos >= 54)
    /\ walked \in Seq(FileByte) /\ rowed \in Seq(FileByte)

\* WalkAgrees with the byte after the header on both sides.
WalkIsAt(q) ==
    s_channel = ChannelAt(q) /\ s_col = ColAt(q) /\ s_actualRow = (Height - 1 - RowAt(q)) % Word
WalkInFile ==
    /\ Offset <= 54 => s_channel = 0 /\ s_col = 0 /\ s_actualRow = Height - 1
    /\ Offset >= 54 => WalkIsAt(Offset - 54)

FileIInv == FileTypes /\ WalkInFile /\ SameFile

LEMMA ExactNone == Exact(<< >>, 0) /\ << >> \in Seq(FileByte)
  BY DEF Exact

LEMMA ExactAppend ==
    ASSUME NEW s \in Seq(FileByte), NEW pos \in Nat, Exact(s, pos), NEW b \in FileByte,
           b = ByteAt(pos)
    PROVE  Append(s, b) \in Seq(FileByte) /\ Exact(Append(s, b), pos + 1)
<1> DEFINE t == Append(s, b)
<1>1. Len(s) = pos /\ \A i \in 1 .. pos : s[i] = ByteAt(i - 1)
  BY DEF Exact
<1>2. t \in Seq(FileByte) /\ Len(t) = Len(s) + 1 /\ t[Len(s) + 1] = b
      /\ \A i \in 1 .. Len(s) : t[i] = s[i]
  OBVIOUS
<1> HIDE DEF t
<1>3. ASSUME NEW i \in 1 .. pos + 1 PROVE t[i] = ByteAt(i - 1)
  <2>1. CASE i = pos + 1
    <3>1. i - 1 = pos
      BY <2>1
    <3> QED
      BY <1>1, <1>2, <2>1, <3>1
  <2>2. CASE i # pos + 1
    <3>1. i \in 1 .. pos
      BY <2>2
    <3> QED
      BY <1>1, <1>2, <3>1
  <2> QED
    BY <2>1, <2>2
<1>4. Len(t) = pos + 1
  BY <1>1, <1>2
<1> QED
  BY <1>2, <1>3, <1>4 DEF Exact, t

LEMMA ExactConcat ==
    ASSUME NEW s \in Seq(FileByte), NEW pos \in Nat, Exact(s, pos),
           NEW u \in Seq(FileByte), NEW n \in Nat, Len(u) = n,
           \A k \in 1 .. n : u[k] = ByteAt(pos + (k - 1))
    PROVE  s \o u \in Seq(FileByte) /\ Exact(s \o u, pos + n)
<1> DEFINE t == s \o u
<1>1. Len(s) = pos /\ \A i \in 1 .. pos : s[i] = ByteAt(i - 1)
  BY DEF Exact
<1>2. t \in Seq(FileByte) /\ Len(t) = Len(s) + Len(u)
      /\ \A i \in 1 .. Len(s) + Len(u) : t[i] = IF i <= Len(s) THEN s[i] ELSE u[i - Len(s)]
  BY ConcatProperties
<1> HIDE DEF t
<1>3. ASSUME NEW i \in 1 .. pos + n PROVE t[i] = ByteAt(i - 1)
  <2>1. CASE i <= pos
    BY <1>1, <1>2, <2>1
  <2>2. CASE ~(i <= pos)
    <3>1. i - pos \in 1 .. n /\ pos + ((i - pos) - 1) = i - 1
      BY <2>2
    <3>2. t[i] = u[i - pos]
      BY <1>1, <1>2, <2>2
    <3> QED
      BY <3>1, <3>2
  <2> QED
    BY <2>1, <2>2
<1>4. Len(t) = pos + n
  BY <1>1, <1>2
<1> QED
  BY <1>2, <1>3, <1>4 DEF Exact, t

LEMMA HeaderBytes ==
    ASSUME NEW at \in 0 .. 53
    PROVE  ByteAt(at) = Header[at + 1] /\ Header[at + 1] \in FileByte
<1>1. at < HeaderLen /\ ~(at - HeaderLen >= 0)
  BY DEF HeaderLen
<1>2. ByteAt(at) = Header[at + 1]
  BY <1>1 DEF ByteAt
<1>3. at + 1 \in 1 .. Len(Header)
  BY HeaderTyped
<1>4. Header[at + 1] \in FileByte
  BY <1>3, HeaderTyped, ElementOfSeq
<1> QED
  BY <1>2, <1>4

\* Where the image starts, the walk starts.
LEMMA AtStart ==
    /\ RowAt(0) = 0 /\ ColAt(0) = 0 /\ ChannelAt(0) = 0
    /\ (Height - 1 - 0) % Word = Height - 1
<1>1. 0 \in Nat /\ 0 \in 0 .. Width - 1 /\ 0 \in 0 .. 2 /\ 0 = PixelAt(0, 0, 0)
  BY FileSizes DEF PixelAt
<1>2. RowAt(0) = 0 /\ ColAt(0) = 0 /\ ChannelAt(0) = 0
  BY <1>1, PixelParts
<1> QED
  BY <1>2, FileSizes

LEMMA WalkInFileAgrees ==
    ASSUME Offset \in Nat, WalkInFile PROVE WalkAgrees
<1>1. CASE Offset <= HeaderLen
  BY <1>1 DEF WalkInFile, WalkAgrees, HeaderLen
<1>2. CASE ~(Offset <= HeaderLen)
  <2>1. Offset >= 54 /\ HeaderLen = 54
    BY <1>2 DEF HeaderLen
  <2> QED
    BY <1>2, <2>1 DEF WalkInFile, WalkIsAt, WalkAgrees, RowAt, ColAt, ChannelAt
<1> QED
  BY <1>1, <1>2

LEMMA FileIInit == FileInit => FileIInv
<1> SUFFICES ASSUME FileInit PROVE FileIInv
  OBVIOUS
<1>1. /\ s_genPos = 0 /\ s_channel = 0 /\ s_col = 0 /\ s_actualRow = Height - 1
      /\ chunk = 0 /\ done = 0 /\ walked = << >> /\ s_pos = 0 /\ rowed = << >>
  BY DEF FileInit
<1>2. Offset = 0
  BY <1>1 DEF Offset
<1>3. FileTypes
  BY <1>1, FileSizes, ExactNone DEF FileTypes
<1>4. WalkInFile
  BY <1>1, <1>2 DEF WalkInFile
<1>5. SameFile
  BY <1>1, <1>2, ExactNone DEF SameFile
<1> QED
  BY <1>3, <1>4, <1>5 DEF FileIInv

\* A step that leaves the walk where it is in the file keeps what is said of it.
LEMMA WalkKept ==
    ASSUME FileIInv, Offset' = Offset, UNCHANGED <<s_channel, s_col, s_actualRow, walked>>
    PROVE  WalkInFile' /\ Exact(walked, Offset)'
<1>1. WalkInFile'
  BY DEF FileIInv, WalkInFile, WalkIsAt, RowAt, ColAt, ChannelAt
<1>2. Exact(walked, Offset)'
  BY DEF FileIInv, SameFile, Exact
<1> QED
  BY <1>1, <1>2

LEMMA RowsKept ==
    ASSUME FileIInv, UNCHANGED rowVars
    PROVE  /\ Exact(rowed, s_pos)' /\ s_pos' \in 0 .. TotalSize /\ (s_pos' = 0 \/ s_pos' >= 54)
           /\ rowed' \in Seq(FileByte)
  BY DEF FileIInv, FileTypes, SameFile, Exact, rowVars

LEMMA WalkUntouched ==
    ASSUME FileIInv, UNCHANGED walkVars
    PROVE  /\ WalkInFile' /\ Exact(walked, Offset)'
           /\ s_genPos' \in Nat /\ chunk' \in Nat /\ done' \in 0 .. chunk'
           /\ s_genPos' + chunk' <= TotalSize /\ walked' \in Seq(FileByte)
<1>1. Offset' = Offset
  BY DEF Offset, walkVars
<1>2. WalkInFile' /\ Exact(walked, Offset)'
  BY <1>1, WalkKept DEF walkVars
<1> QED
  BY <1>2 DEF FileIInv, FileTypes, walkVars

LEMMA ChunkBeginKeeps == FileIInv /\ ChunkBegin => FileIInv'
<1> SUFFICES ASSUME FileIInv, ChunkBegin PROVE FileIInv'
  OBVIOUS
<1>1. /\ chunk = 0 /\ s_genPos < TotalSize /\ s_genPos \in Nat /\ TotalSize \in Nat /\ done = 0
      /\ walked \in Seq(FileByte)
  BY FileSizes DEF ChunkBegin, FileIInv, FileTypes
<1>2. PICK maxlen \in FsPackets : chunk' = Smaller(TotalSize - s_genPos, maxlen)
  BY DEF ChunkBegin
<1>3. maxlen \in Nat \ {0}
  BY FileAssumption
<1>4. /\ s_genPos' = s_genPos /\ done' = done /\ UNCHANGED <<s_channel, s_col, s_actualRow, walked>>
      /\ UNCHANGED rowVars
  BY DEF ChunkBegin
<1>5. chunk' \in Nat /\ s_genPos + chunk' <= TotalSize
  BY <1>1, <1>2, <1>3 DEF Smaller
<1>6. Offset' = Offset
  BY <1>4 DEF Offset
<1>7. WalkInFile' /\ Exact(walked, Offset)'
  BY <1>4, <1>6, WalkKept
<1>8. s_genPos' \in Nat /\ done' \in 0 .. chunk' /\ s_genPos' + chunk' <= TotalSize
  <2>1. s_genPos' = s_genPos /\ done' = 0
    BY <1>1, <1>4
  <2>2. s_genPos' \in Nat
    BY <1>1, <2>1
  <2>3. done' \in 0 .. chunk'
    BY <1>5, <2>1
  <2>4. s_genPos' + chunk' <= TotalSize
    BY <1>5, <2>1
  <2> QED
    BY <2>2, <2>3, <2>4
<1>9. walked' \in Seq(FileByte)
  BY <1>1, <1>4
<1> QED
  BY <1>5, <1>7, <1>8, <1>9, <1>4, RowsKept DEF FileIInv, FileTypes, SameFile

LEMMA ChunkEndKeeps == FileIInv /\ ChunkEnd => FileIInv'
<1> SUFFICES ASSUME FileIInv, ChunkEnd PROVE FileIInv'
  OBVIOUS
<1>1. /\ done = chunk /\ chunk \in Nat /\ s_genPos \in Nat /\ s_genPos + chunk <= TotalSize
      /\ walked \in Seq(FileByte)
  BY DEF ChunkEnd, FileIInv, FileTypes
<1>2. /\ s_genPos' = Offset /\ done' = 0 /\ chunk' = 0
      /\ UNCHANGED <<s_channel, s_col, s_actualRow, walked>> /\ UNCHANGED rowVars
  BY DEF ChunkEnd
<1>3. Offset' = Offset /\ Offset \in Nat /\ Offset <= TotalSize
  BY <1>1, <1>2 DEF Offset
<1>4. WalkInFile' /\ Exact(walked, Offset)'
  BY <1>2, <1>3, WalkKept
<1>5. s_genPos' + chunk' <= TotalSize
  BY <1>2, <1>3, FileSizes
<1> QED
  BY <1>1, <1>2, <1>3, <1>4, <1>5, RowsKept DEF FileIInv, FileTypes, SameFile

LEMMA RestartKeeps == FileIInv /\ Restart => FileIInv'
<1> SUFFICES ASSUME FileIInv, Restart PROVE FileIInv'
  OBVIOUS
<1>1. chunk = 0 /\ done = 0
  BY DEF Restart, FileIInv, FileTypes
<1>2. /\ s_genPos' = 0 /\ s_channel' = 0 /\ s_col' = 0 /\ s_actualRow' = Height - 1
      /\ walked' = << >> /\ chunk' = 0 /\ done' = 0 /\ UNCHANGED rowVars
  BY <1>1 DEF Restart
<1>3. Offset' = 0
  BY <1>2 DEF Offset
<1>4. WalkInFile'
  BY <1>2, <1>3 DEF WalkInFile
<1>5. Exact(walked, Offset)' /\ walked' \in Seq(FileByte)
  BY <1>2, <1>3, ExactNone DEF Exact
<1> QED
  BY <1>2, <1>4, <1>5, FileSizes, RowsKept DEF FileIInv, FileTypes, SameFile

LEMMA RowRestartKeeps == FileIInv /\ RowRestart => FileIInv'
<1> SUFFICES ASSUME FileIInv, RowRestart PROVE FileIInv'
  OBVIOUS
<1>1. s_pos' = 0 /\ rowed' = << >> /\ UNCHANGED walkVars
  BY DEF RowRestart
<1>2. Exact(rowed, s_pos)' /\ rowed' \in Seq(FileByte)
  BY <1>1, ExactNone DEF Exact
<1> QED
  BY <1>1, <1>2, FileSizes, WalkUntouched DEF FileIInv, FileTypes, SameFile

LEMMA ChunkByteKeeps == FileIInv /\ ChunkByte => FileIInv'
<1> SUFFICES ASSUME FileIInv, ChunkByte PROVE FileIInv'
  OBVIOUS
<1>1. /\ done \in Nat /\ chunk \in Nat /\ done < chunk /\ s_genPos \in Nat
      /\ s_genPos + chunk <= TotalSize /\ walked \in Seq(FileByte)
  BY DEF ChunkByte, FileIInv, FileTypes
<1>2. done' = done + 1 /\ s_genPos' = s_genPos /\ chunk' = chunk /\ UNCHANGED rowVars
  BY DEF ChunkByte
<1>3. Offset \in Nat /\ Offset < TotalSize /\ Offset' = Offset + 1
  BY <1>1, <1>2, FileSizes DEF Offset
<1>4. WalkInFile /\ Exact(walked, Offset)
  BY DEF FileIInv, SameFile
<1>5. s_genPos' \in Nat /\ chunk' \in Nat /\ done' \in 0 .. chunk' /\ s_genPos' + chunk' <= TotalSize
  BY <1>1, <1>2
<1>6. WalkInFile' /\ walked' \in Seq(FileByte) /\ Exact(walked', Offset + 1)
  <2>1. CASE Offset < 54
    <3>1. /\ walked' = Append(walked, Header[Offset + 1])
          /\ UNCHANGED <<s_channel, s_col, s_actualRow>>
      BY <2>1 DEF ChunkByte, HeaderLen
    <3>2. Header[Offset + 1] \in FileByte /\ Header[Offset + 1] = ByteAt(Offset)
      BY <1>3, <2>1, HeaderBytes
    <3>3. walked' \in Seq(FileByte) /\ Exact(walked', Offset + 1)
      BY <1>1, <1>3, <1>4, <3>1, <3>2, ExactAppend
    <3>4. s_channel' = 0 /\ s_col' = 0 /\ s_actualRow' = Height - 1
      BY <1>3, <1>4, <2>1, <3>1 DEF WalkInFile
    <3>5. Offset' >= 54 => Offset' - 54 = 0
      BY <1>3, <2>1
    <3>6. WalkInFile'
      BY <3>4, <3>5, AtStart DEF WalkInFile, WalkIsAt, RowAt, ColAt, ChannelAt
    <3> QED
      BY <3>3, <3>6
  <2>2. CASE ~(Offset < 54)
    <3>1. PICK r \in Nat, c \in 0 .. Width - 1, ch \in 0 .. 2 : Offset - 54 = PixelAt(r, c, ch)
      <4>1. Offset - 54 \in Nat
        BY <1>3, <2>2
      <4> QED
        BY <4>1, PixelSplit
    <3>2. r \in 0 .. Height - 1
      <4>1. Offset - 54 < RowBytes * Height
        <5>1. RowBytes * Height \in Nat /\ TotalSize = 54 + RowBytes * Height
          BY FileSizes
        <5> DEFINE b == RowBytes * Height
        <5> HIDE DEF b
        <5>2. b \in Nat /\ TotalSize = 54 + b
          BY <5>1 DEF b
        <5>3. Offset - 54 < b
          BY <1>3, <5>2
        <5> QED
          BY <5>3 DEF b
      <4> QED
        BY <3>1, <4>1, PixelInImage
    <3> DEFINE w == [channel |-> s_channel, col |-> s_col, row |-> s_actualRow]
    <3>3. w = Walk(r, c, ch)
      <4>1. RowAt(Offset - 54) = r /\ ColAt(Offset - 54) = c /\ ChannelAt(Offset - 54) = ch
        BY <3>1, PixelParts
      <4>2. Offset >= 54
        BY <1>3, <2>2
      <4>3. s_channel = ch /\ s_col = c /\ s_actualRow = (Height - 1 - r) % Word
        BY <1>4, <4>1, <4>2 DEF WalkInFile, WalkIsAt
      <4>4. (Height - 1 - r) % Word = Height - 1 - r
        BY <3>2, FileSizes
      <4> QED
        BY <4>3, <4>4 DEF Walk
    <3>4. /\ walked' = Append(walked, PixelByte(w))
          /\ s_channel' = Advance(w).channel /\ s_col' = Advance(w).col /\ s_actualRow' = Advance(w).row
      BY <2>2 DEF ChunkByte, HeaderLen
    <3> HIDE DEF w
    <3>5. PixelByte(w) = ByteAt(Offset) /\ PixelByte(w) \in FileByte
      <4>1. PixelByte(w) = Pixel(r, c, ch)
        BY <3>2, <3>3, WalkByte
      <4>2. Pixel(r, c, ch) \in FileByte
        BY <3>2, PixelTyped
      <4>3. ByteAt(54 + (Offset - 54)) = Pixel(r, c, ch) /\ 54 + (Offset - 54) = Offset
        BY <1>3, <3>1, FilePixel
      <4> QED
        BY <4>1, <4>2, <4>3 DEF FileByte
    <3>6. walked' \in Seq(FileByte) /\ Exact(walked', Offset + 1)
      BY <1>1, <1>3, <1>4, <3>4, <3>5, ExactAppend
    <3>7. PICK r2 \in Nat, c2 \in 0 .. Width - 1, ch2 \in 0 .. 2 :
              /\ PixelAt(r2, c2, ch2) = PixelAt(r, c, ch) + 1
              /\ Advance(Walk(r, c, ch)).channel = ch2 /\ Advance(Walk(r, c, ch)).col = c2
              /\ Advance(Walk(r, c, ch)).row = (Height - 1 - r2) % Word
      BY <3>2, WalkAdvance
    <3>8. Offset' - 54 = PixelAt(r2, c2, ch2)
      BY <1>3, <3>1, <3>7
    <3>9. RowAt(Offset' - 54) = r2 /\ ColAt(Offset' - 54) = c2 /\ ChannelAt(Offset' - 54) = ch2
      <4>1. ASSUME NEW p, p = PixelAt(r2, c2, ch2)
            PROVE  RowAt(p) = r2 /\ ColAt(p) = c2 /\ ChannelAt(p) = ch2
        BY <4>1, PixelParts
      <4> QED
        BY <3>8, <4>1
    <3>10. /\ s_channel' = ChannelAt(Offset' - 54) /\ s_col' = ColAt(Offset' - 54)
           /\ s_actualRow' = (Height - 1 - RowAt(Offset' - 54)) % Word
      BY <3>3, <3>4, <3>7, <3>9
    <3>11. ~(Offset' <= 54)
      BY <1>3, <2>2
    <3>12. WalkInFile'
      BY <3>10, <3>11 DEF WalkInFile, WalkIsAt, RowAt, ColAt, ChannelAt
    <3> QED
      BY <3>6, <3>12
  <2> QED
    BY <2>1, <2>2
<1>7. Exact(walked, Offset)'
  BY <1>3, <1>6 DEF Exact
<1> QED
  BY <1>2, <1>5, <1>6, <1>7, RowsKept DEF FileIInv, FileTypes, SameFile

LEMMA RowPacketKeeps == FileIInv /\ RowPacket => FileIInv'
<1> SUFFICES ASSUME FileIInv, RowPacket PROVE FileIInv'
  OBVIOUS
<1>1. s_pos \in Nat /\ s_pos < TotalSize /\ (s_pos = 0 \/ s_pos >= 54) /\ rowed \in Seq(FileByte)
  BY FileSizes DEF RowPacket, FileIInv, FileTypes
<1>2. Exact(rowed, s_pos)
  BY DEF FileIInv, SameFile
<1>3. UNCHANGED walkVars
  BY DEF RowPacket
<1>4. \E n \in Nat : /\ s_pos' = s_pos + n /\ s_pos + n <= TotalSize /\ s_pos + n >= 54
                     /\ rowed' \in Seq(FileByte) /\ Exact(rowed', s_pos + n)
  <2>1. CASE s_pos < 54
    <3>1. s_pos = 0
      BY <1>1, <2>1
    <3>2. rowed' = rowed \o Header /\ s_pos' = s_pos + 54
      BY <2>1 DEF RowPacket, HeaderLen
    <3>3. \A k \in 1 .. 54 : Header[k] = ByteAt(s_pos + (k - 1))
      <4>1. ASSUME NEW k \in 1 .. 54 PROVE Header[k] = ByteAt(s_pos + (k - 1))
        <5>1. k - 1 \in 0 .. 53 /\ (k - 1) + 1 = k /\ s_pos + (k - 1) = k - 1
          BY <3>1
        <5> QED
          BY <5>1, HeaderBytes
      <4> QED
        BY <4>1
    <3>4. rowed' \in Seq(FileByte) /\ Exact(rowed', s_pos + 54)
      <4>1. ASSUME NEW n \in Nat, n = 54 PROVE rowed' \in Seq(FileByte) /\ Exact(rowed', s_pos + n)
        <5>1. Len(Header) = n /\ \A k \in 1 .. n : Header[k] = ByteAt(s_pos + (k - 1))
          BY <3>3, <4>1, HeaderTyped
        <5> QED
          BY <1>1, <1>2, <3>2, <5>1, HeaderTyped, ExactConcat
      <4> QED
        BY <4>1
    <3>5. s_pos + 54 <= TotalSize /\ s_pos + 54 >= 54
      BY <3>1, FileSizes
    <3> QED
      BY <3>2, <3>4, <3>5
  <2>2. CASE ~(s_pos < 54)
    <3> DEFINE q == s_pos - 54
               r == q \div RowBytes
               off == q % RowBytes
    <3>1. PICK maxlen \in HsPackets :
              /\ rowed' = rowed \o SubSeq(GenerateRow(r), off + 1, off + Smaller(RowBytes - off, maxlen))
              /\ s_pos' = s_pos + Smaller(RowBytes - off, maxlen)
      BY <2>2 DEF RowPacket, HeaderLen
    <3> DEFINE n == Smaller(RowBytes - off, maxlen)
    <3>2. q \in Nat
      BY <1>1, <2>2
    <3>3. maxlen \in Nat
      BY FileAssumption
    <3> HIDE DEF q
    <3>4. r \in Nat /\ off \in 0 .. RowBytes - 1 /\ q = RowBytes * r + off
      BY <3>2, FileSizes, DivMod
    <3> HIDE DEF r, off
    <3>5. n \in Nat /\ off + n <= RowBytes
      BY <3>3, <3>4, FileSizes DEF Smaller
    <3> HIDE DEF n
    <3>6. r \in 0 .. Height - 1 /\ s_pos + n <= TotalSize
      <4> DEFINE C == RowBytes
      <4>1. C \in Nat \ {0} /\ Height \in Nat /\ C * Height \in Nat /\ TotalSize = 54 + C * Height
        BY FileSizes
      <4>2. off \in 0 .. C - 1 /\ q = C * r + off /\ off + n <= C
        BY <3>4, <3>5
      <4> HIDE DEF C
      <4>3. q < C * Height /\ s_pos = q + 54
        BY <1>1, <3>2, <4>1 DEF q
      <4>4. C * r \in Nat /\ C * (r + 1) = C * r + C
        BY <3>4, <4>1
      <4>5. r < Height
        <5>1. ASSUME r >= Height PROVE FALSE
          <6>1. C * r >= C * Height
            BY <3>4, <4>1, <5>1
          <6> QED
            BY <4>1, <4>2, <4>3, <4>4, <6>1
        <5> QED
          BY <3>4, <4>1, <5>1
      <4>6. C * (r + 1) <= C * Height
        BY <3>4, <4>1, <4>5
      <4> QED
        BY <3>4, <3>5, <4>1, <4>2, <4>3, <4>4, <4>5, <4>6
    <3> DEFINE u == SubSeq(GenerateRow(r), off + 1, off + n)
    <3>7. /\ u \in Seq(FileByte) /\ Len(u) = n
          /\ \A k \in 1 .. n : u[k] = ByteAt(54 + (RowBytes * r + off) + (k - 1))
      <4>1. off \in Nat
        BY <3>4, FileSizes
      <4> QED
        BY <3>5, <3>6, <4>1, RowPiece
    <3>8. rowed' = rowed \o u /\ s_pos' = s_pos + n
      BY <3>1 DEF n
    <3> HIDE DEF u
    <3>9. 54 + (RowBytes * r + off) = s_pos
      <4>1. 54 + q = s_pos
        BY <1>1 DEF q
      <4> QED
        BY <3>4, <4>1
    <3>10. \A k \in 1 .. n : u[k] = ByteAt(s_pos + (k - 1))
      BY <3>7, <3>9
    <3>11. rowed' \in Seq(FileByte) /\ Exact(rowed', s_pos + n)
      BY <1>1, <1>2, <3>5, <3>7, <3>8, <3>10, ExactConcat
    <3> QED
      BY <1>1, <2>2, <3>5, <3>6, <3>8, <3>11
  <2> QED
    BY <2>1, <2>2
<1>5. Exact(rowed, s_pos)' /\ s_pos' \in 0 .. TotalSize /\ s_pos' >= 54 /\ rowed' \in Seq(FileByte)
  BY <1>1, <1>4, FileSizes DEF Exact
<1> QED
  BY <1>3, <1>5, WalkUntouched DEF FileIInv, FileTypes, SameFile

LEMMA FileStep == FileIInv /\ [FileNext]_fileVars => FileIInv'
<1> SUFFICES ASSUME FileIInv, [FileNext]_fileVars PROVE FileIInv'
  OBVIOUS
<1>1. CASE UNCHANGED fileVars
  BY <1>1, WalkUntouched, RowsKept DEF fileVars, FileIInv, FileTypes, SameFile
<1>2. CASE FileNext
  BY <1>2, ChunkBeginKeeps, ChunkByteKeeps, ChunkEndKeeps, RestartKeeps, RowPacketKeeps,
     RowRestartKeeps DEF FileNext
<1> QED
  BY <1>1, <1>2

\* Whatever sizes the packets of CH592F and CH32L103 have and wherever the last
\* download was abandoned, the counters from which GenerateChunk takes the next
\* byte name the channel, column and row of that byte in the file.
THEOREM WalkStays == FileSpec => []WalkAgrees
<1>1. FileIInv => WalkAgrees
  <2> SUFFICES ASSUME FileIInv PROVE WalkAgrees
    OBVIOUS
  <2>1. Offset \in Nat /\ WalkInFile
    BY DEF FileIInv, FileTypes, Offset
  <2> QED
    BY <2>1, WalkInFileAgrees
<1> QED
  BY <1>1, FileIInit, FileStep, PTL DEF FileSpec

\* For an image of any size and any set of packet sizes, the boards that walk
\* from pixel to pixel and the boards that cut packets out of rows serve the same
\* file, byte for byte, each download from its beginning.
THEOREM SameFileServed == FileSpec => []SameFile
<1>1. FileIInv => SameFile
  BY DEF FileIInv
<1> QED
  BY <1>1, FileIInit, FileStep, PTL DEF FileSpec

LEMMA FieldRead ==
    ASSUME NEW file, NEW at \in Nat, NEW v \in Nat, v < 4294967296, HasAt(file, at, LE32(v))
    PROVE  Field(file, at) = v
<1>1. /\ Len(LE32(v)) = 4 /\ LE32(v)[1] = v % 256 /\ LE32(v)[2] = (v \div 256) % 256
      /\ LE32(v)[3] = (v \div 65536) % 256 /\ LE32(v)[4] = (v \div 16777216) % 256
  BY DEF LE32
<1>2. /\ file[at + 1] = v % 256 /\ file[at + 2] = (v \div 256) % 256
      /\ file[at + 3] = (v \div 65536) % 256 /\ file[at + 4] = (v \div 16777216) % 256
  BY <1>1 DEF HasAt
<1>3. (v % 256) + 256 * ((v \div 256) % 256) + 65536 * ((v \div 65536) % 256)
          + 16777216 * ((v \div 16777216) % 256) = v
  <2>1. v = 256 * (v \div 256) + (v % 256) /\ v \div 256 \in Nat
    OBVIOUS
  <2>2. v \div 256 = 256 * (v \div 65536) + ((v \div 256) % 256) /\ v \div 65536 \in Nat
    OBVIOUS
  <2>3. v \div 65536 = 256 * (v \div 16777216) + ((v \div 65536) % 256) /\ v \div 16777216 \in Nat
    OBVIOUS
  <2>4. v \div 16777216 < 256
    OBVIOUS
  <2>5. (v \div 16777216) % 256 = v \div 16777216
    BY <2>3, <2>4
  <2> QED
    BY <2>1, <2>2, <2>3, <2>5
<1> QED
  BY <1>2, <1>3 DEF Field

\* What a complete file tells, once its first bytes are the header.
LEMMA HeaderRead ==
    ASSUME TotalSize < 4294967296, NEW file, Exact(file, TotalSize)
    PROVE  /\ Field(file, 2) = TotalSize /\ Field(file, 10) = 54
           /\ Field(file, 18) = Width /\ Field(file, 22) = Height
           /\ Field(file, 34) = RowBytes * Height
<1> DEFINE b == RowBytes * Height
<1>1. /\ TotalSize = 54 + b /\ b \in Nat /\ Width \in Nat /\ Height \in Nat /\ TotalSize \in Nat
      /\ Width <= b /\ Height <= b
  <2>1. Width \in Nat \ {0} /\ Height \in Nat \ {0} /\ RowBytes = 3 * Width
    BY FileSizes
  <2>2. ASSUME NEW m \in Nat \ {0}, NEW n \in Nat \ {0} PROVE m * n >= m /\ m * n >= n
    OBVIOUS
  <2>3. RowBytes \in Nat \ {0} /\ Width <= RowBytes
    BY <2>1
  <2> QED
    BY <2>1, <2>2, <2>3, FileSizes
<1>2. \A i \in 1 .. 54 : file[i] = Header[i]
  <2>1. ASSUME NEW i \in 1 .. 54 PROVE file[i] = Header[i]
    <3>1. i - 1 \in 0 .. 53 /\ (i - 1) + 1 = i
      OBVIOUS
    <3>2. i \in 1 .. TotalSize
      <4> HIDE DEF b
      <4> QED
        BY <1>1
    <3>3. file[i] = ByteAt(i - 1)
      BY <3>2 DEF Exact
    <3> QED
      BY <3>1, <3>3, HeaderBytes
  <2> QED
    BY <2>1
<1>3. ASSUME NEW at \in 0 .. 50, NEW v \in Nat, v <= TotalSize, HasAt(Header, at, LE32(v))
      PROVE  Field(file, at) = v
  <2>1. Len(LE32(v)) = 4
    BY DEF LE32
  <2>2. HasAt(file, at, LE32(v))
    BY <1>2, <1>3, <2>1 DEF HasAt
  <2>3. v < 4294967296
    BY <1>1, <1>3
  <2> QED
    BY <2>2, <2>3, FieldRead
<1> HIDE DEF b
<1>4. 54 <= TotalSize /\ b <= TotalSize /\ Width <= TotalSize /\ Height <= TotalSize
  BY <1>1
<1>5. /\ HasAt(Header, 2, LE32(TotalSize)) /\ HasAt(Header, 10, LE32(54))
      /\ HasAt(Header, 18, LE32(Width)) /\ HasAt(Header, 22, LE32(Height))
      /\ HasAt(Header, 34, LE32(b))
  BY HeaderFields DEF b
<1>6. Field(file, 2) = TotalSize /\ Field(file, 10) = 54
  BY <1>1, <1>3, <1>4, <1>5
<1>7. Field(file, 18) = Width /\ Field(file, 22) = Height /\ Field(file, 34) = b
  BY <1>1, <1>3, <1>4, <1>5
<1> QED
  BY <1>6, <1>7 DEF b

\* Where the size of the file fits the 32-bit field of its header, a file that was
\* served completely is what that header tells: its size, where its pixels start,
\* and as many pixels as its dimensions promise.
THEOREM HeaderStands == TotalSize < 4294967296 /\ FileSpec => []HeaderTells
<1>1. ASSUME TotalSize < 4294967296, FileIInv PROVE HeaderTells
  <2> SUFFICES ASSUME NEW file \in {walked, rowed}, Len(file) = TotalSize
               PROVE  /\ Field(file, 2) = Len(file)
                      /\ Field(file, 10) + Field(file, 34) = Len(file)
                      /\ Field(file, 34) = 3 * Field(file, 18) * Field(file, 22)
    BY DEF HeaderTells
  <2>1. Exact(file, TotalSize)
    BY <1>1 DEF FileIInv, SameFile, Exact
  <2>2. /\ Field(file, 2) = TotalSize /\ Field(file, 10) = 54
        /\ Field(file, 18) = Width /\ Field(file, 22) = Height
        /\ Field(file, 34) = RowBytes * Height
    BY <1>1, <2>1, HeaderRead
  <2> QED
    BY <2>2, FileSizes
<1>2. CASE TotalSize < 4294967296
  <2>1. FileIInv => HeaderTells
    BY <1>1, <1>2
  <2> QED
    BY <2>1, FileIInit, FileStep, PTL DEF FileSpec
<1> QED
  BY <1>2

\* No counter of either generator leaves the file, the column and the channel stay
\* in their tables, the row too but for the wrap after the last pixel, and what is
\* served is bytes.
THEOREM FileTypeCorrect == FileSpec => []FileTypeOK
<1>1. FileIInv => FileTypeOK
  <2> SUFFICES ASSUME FileIInv PROVE FileTypeOK
    OBVIOUS
  <2>1. /\ s_genPos \in Nat /\ chunk \in Nat /\ done \in 0 .. chunk
        /\ s_genPos + chunk <= TotalSize /\ s_pos \in 0 .. TotalSize
        /\ walked \in Seq(FileByte) /\ rowed \in Seq(FileByte) /\ TotalSize \in Nat
    BY FileSizes DEF FileIInv, FileTypes
  <2>2. {s_genPos, s_pos, Offset} \subseteq 0 .. TotalSize
    BY <2>1 DEF Offset
  <2>3. \A file \in {walked, rowed} : \A i \in DOMAIN file : file[i] \in 0 .. 255
    <3>1. ASSUME NEW file \in Seq(FileByte), NEW i \in DOMAIN file PROVE file[i] \in 0 .. 255
      <4>1. i \in 1 .. Len(file)
        OBVIOUS
      <4>2. file[i] \in FileByte
        BY <4>1, ElementOfSeq
      <4> QED
        BY <4>2 DEF FileByte
    <3> QED
      BY <2>1, <3>1
  <2>4. s_channel \in 0 .. 2 /\ s_col \in 0 .. Width - 1 /\ s_actualRow \in 0 .. Height - 1 \cup {Word - 1}
    <3>1. CASE Offset <= 54
      BY <3>1, FileSizes DEF FileIInv, WalkInFile
    <3>2. CASE ~(Offset <= 54)
      <4>1. Offset \in Nat /\ Offset - 54 \in Nat /\ Offset >= 54 /\ Offset <= TotalSize
        BY <2>1, <3>2 DEF Offset
      <4>2. PICK r \in Nat, c \in 0 .. Width - 1, ch \in 0 .. 2 : Offset - 54 = PixelAt(r, c, ch)
        BY <4>1, PixelSplit
      <4>3. RowAt(Offset - 54) = r /\ ColAt(Offset - 54) = c /\ ChannelAt(Offset - 54) = ch
        BY <4>2, PixelParts
      <4>4. s_channel = ch /\ s_col = c /\ s_actualRow = (Height - 1 - r) % Word
        BY <4>1, <4>3 DEF FileIInv, WalkInFile, WalkIsAt
      <4>5. r <= Height
        <5> DEFINE C == RowBytes
        <5>1. /\ C \in Nat \ {0} /\ Height \in Nat /\ C * Height \in Nat /\ C * r \in Nat
              /\ TotalSize = 54 + C * Height /\ C * (Height + 1) = C * Height + C
          BY FileSizes
        <5>2. Offset - 54 = C * r + (3 * c + ch) /\ 3 * c + ch \in Nat
          BY <4>2, FileSizes DEF PixelAt
        <5> HIDE DEF C
        <5>3. C * r <= C * Height
          BY <4>1, <5>1, <5>2
        <5>4. ASSUME r >= Height + 1 PROVE FALSE
          <6>1. C * r >= C * (Height + 1)
            BY <5>1, <5>4
          <6> QED
            BY <5>1, <5>3, <6>1
        <5> QED
          BY <5>1, <5>4
      <4>6. (Height - 1 - r) % Word \in 0 .. Height - 1 \cup {Word - 1}
        <5>1. CASE r < Height
          BY <5>1, FileSizes
        <5>2. CASE r = Height
          <6>1. Word \in Nat \ {0} /\ Word - 1 \in 0 .. Word - 1 /\ Word * (-1) + (Word - 1) = -1
            BY FileSizes
          <6>2. (Word * (-1) + (Word - 1)) % Word = Word - 1
            BY <6>1, ModUnique
          <6>3. Height - 1 - r = -1
            BY <5>2, FileSizes
          <6> QED
            BY <6>1, <6>2, <6>3
        <5> QED
          BY <4>5, <5>1, <5>2, FileSizes
      <4> QED
        BY <4>4, <4>6
    <3> QED
      BY <2>1, <3>1, <3>2 DEF Offset
  <2> QED
    BY <2>1, <2>2, <2>3, <2>4 DEF FileTypeOK
<1> QED
  BY <1>1, FileIInit, FileStep, PTL DEF FileSpec
=============================================================================
