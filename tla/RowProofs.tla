----------------------------- MODULE RowProofs ------------------------------
(***************************************************************************)
(* Proofs about the file download of the two high-speed boards, for every  *)
(* size of image, number of row buffers and bound on what the host does,   *)
(* on CH585 toggle resets and self-heals included: where the host finishes *)
(* what it starts and the pump stays ahead of it, zero copy out of the     *)
(* rotating rows gives the file, in order.  On CH32V307 the self-heal      *)
(* would break that, and is shown never to act for a host that keeps its   *)
(* toggle.  The README says what goes wrong without the hypotheses.        *)
(***************************************************************************)
EXTENDS RowXfer, TLAPS

(***************************************************************************)
(* Arithmetic modulo C, which is how an index into a ring is computed.     *)
(***************************************************************************)

LEMMA ModRange == ASSUME NEW C \in Nat \ {0}, NEW x \in Int PROVE x % C \in 0 .. C - 1
  OBVIOUS

LEMMA ModUnique ==
    ASSUME NEW C \in Nat \ {0}, NEW q \in Int, NEW r \in 0 .. C - 1
    PROVE  (C * q + r) % C = r
  OBVIOUS

\* Whole turns do not show.
LEMMA ModShift ==
    ASSUME NEW C \in Nat \ {0}, NEW x \in Int, NEW q \in Int
    PROVE  (x + C * q) % C = x % C
<1>1. x + C * q = C * (x \div C + q) + (x % C)
  OBVIOUS
<1>2. x % C \in 0 .. C - 1 /\ x \div C \in Int /\ x \div C + q \in Int
  OBVIOUS
<1> QED
  BY <1>1, <1>2, ModUnique

\* Numbers less than C apart are the same modulo C only if they are equal.
LEMMA ModDistinct ==
    ASSUME NEW C \in Nat \ {0}, NEW a \in Int, NEW b \in Int, a - b < C, b - a < C, a % C = b % C
    PROVE  a = b
<1>1. a = C * (a \div C) + (a % C) /\ b = C * (b \div C) + (b % C)
  OBVIOUS
<1>2. C * (a \div C - b \div C) < C /\ C * (b \div C - a \div C) < C
  BY <1>1
<1> QED
  BY <1>1, <1>2

\* Hosts that finish what they start and do not outrun the pump; on the board
\* with a DMA pointer per toggle they also keep the toggles in step, and the image
\* has rows for more than two rounds of the buffers (1024 rows, 4 buffers).
PacedUse(u) ==
    /\ u.pumpAhead /\ ~u.aborts
    /\ u.doubleBuffer => u.reopen = 0 /\ Rows > 2 * Bufs
Paced == \A u \in Uses : PacedUse(u)

(***************************************************************************)
(* The inductive invariant.                                                *)
(***************************************************************************)

Types ==
    /\ rows \in [0 .. Bufs - 1 -> Int] /\ genRow \in 0 .. Rows /\ genPos \in 0 .. Total
    /\ dma \in [{0, 1} -> Int] /\ got \in Seq(Int) /\ limit \in Int
    /\ xferInt \in {"none", "in", "start"} /\ epRes \in {"ACK", "NAK"}
    /\ epTog \in {0, 1} /\ hostTog \in {0, 1} /\ host \in {"idle", "starting", "reading"}
    /\ budget \in Use /\ PacedUse(budget)

Holds(r) == rows[Buf(r)] = r

\* The last Bufs - 1 rows are in their buffers, but for one being written.
WindowOK ==
    \A k \in 0 .. genRow - 1 :
        k > genRow - Bufs => Holds(k) \/ (writing /\ k = genRow - 1 /\ rows[Buf(k)] = Torn)

\* No loop of the pump generates a row whose buffer is still to be read, and
\* s_genPos is never more than one row past the rows begun.
PaceOK ==
    /\ writing => pc \in {"prefill", "ahead"} /\ genRow > 0
    /\ pc = "prefill" => limit = Bufs - 1
    /\ pc = "ahead" => limit <= Ahead(RowOf(genPos))
    /\ RowOf(genPos) <= genRow + 1

Filled == genRow >= Bufs - 1 \/ genRow = Rows

\* EP2 holds the packet below s_genPos, and that is the one the host waits for.
ArmedOK ==
    /\ epRes = "ACK" =>
          /\ Filled /\ genPos > 0 /\ dma[DmaReg(epTog)] = genPos - 1
          /\ genPos > 1 => Holds(RowOf(genPos - 1))
          /\ xferInt # "in" => host = "reading" /\ xferInt = "none" /\ genPos = Len(got) + 1
    /\ xferInt = "in" =>
          /\ epRes = "ACK" /\ genPos = Len(got)
          /\ host = "reading" => genPos < Total
          /\ genPos < Total => host = "reading" /\ Holds(RowOf(genPos))

\* From the request to the first packet EP2 is not armed.
StartOK ==
    /\ xferInt = "start" => host = "starting" /\ epRes = "NAK" /\ got = << >>
    /\ host = "starting" => xferInt = "start"
    /\ startReq => host = "reading" /\ epRes = "NAK" /\ xferInt = "none" /\ got = << >>
    /\ pc = "prefill" \/ needArm =>
          /\ host = "reading" /\ epRes = "NAK" /\ xferInt = "none" /\ got = << >>
          /\ ~startReq /\ genPos = 0
    /\ needArm => pc \in {"scan", "finish", "arm"} /\ Filled
    /\ resetInt => host = "idle"

\* The read-modify-write of the toggle flip has EP2 to itself: the host cannot
\* take what is armed, and nothing else arms it.
FlipOK ==
    /\ pc \in {"flip", "flipWrite"} => xferInt # "in" /\ (epRes = "ACK" => epTog # hostTog)
    /\ pc = "flipWrite" =>
          /\ (ctrlCopy.res = "ACK" <=> epRes = "ACK")
          /\ ctrlCopy.res \in {"ACK", "NAK"} /\ ctrlCopy.tog \in {0, 1}

RowsOK == Types /\ WindowOK /\ PaceOK /\ ArmedOK /\ StartOK /\ FlipOK /\ InOrder

\* lastPos keeps the end of one download into the next.  The pump sees s_genPos
\* elsewhere before the next one is at its end, two rounds of the buffers away.
LagOK ==
    active /\ lastPos = Total =>
        \/ genPos = Total /\ pc \in {"top", "scan", "ahead", "finish"}
        \/ pc \in {"prefill", "top", "scan"} /\ genRow < Bufs
        \/ pc = "ahead" /\ limit < 2 * Bufs /\ genRow < 2 * Bufs
        \/ pc \in {"finish", "arm"} /\ genRow < 2 * Bufs /\ (needArm => genRow < Bufs)

\* On the board with a DMA pointer per toggle a flip would send the packet of
\* the other pointer.  It is never reached: the toggles agree, a host that reads
\* has a packet armed or a start on its way, and no download is taken for stuck.
NoFlipOK ==
    budget.doubleBuffer =>
        /\ pc \notin {"flip", "flipWrite"}
        /\ resetInt => hostTog = 0
        /\ ~resetInt => (epTog = hostTog <=> xferInt # "in")
        /\ epBusy => epRes = "ACK"
        /\ host = "reading" /\ epRes = "NAK" => startReq \/ pc = "prefill" \/ needArm
        /\ host = "idle" /\ xferInt = "none" => genPos \in {0, Total}
        /\ active /\ genPos = 0 => pc = "prefill" \/ needArm
        /\ lastPos \in 0 .. Total /\ LagOK

IInv == RowsOK /\ NoFlipOK

\* DmaReg gives one of the two registers.
LEMMA DmaRegTyped == ASSUME NEW t \in {0, 1} PROVE DmaReg(t) \in {0, 1}
  BY DEF DmaReg

(***************************************************************************)
(* Rows and buffers.                                                       *)
(***************************************************************************)

LEMMA Sizes ==
    /\ Rows \in Nat \ {0} /\ RowPackets \in Nat \ {0} /\ Bufs \in Nat \ {0} /\ Bufs >= 2
    /\ Total \in Nat /\ Total > 1
<1>1. Rows \in Nat \ {0} /\ RowPackets \in Nat \ {0} /\ Bufs \in Nat \ {0} /\ Bufs >= 2
  BY ConstantsAssumption
<1>2. Rows * RowPackets \in Nat /\ Rows * RowPackets > 0
  BY <1>1
<1> QED
  BY <1>1, <1>2 DEF Total

LEMMA DivUnique ==
    ASSUME NEW C \in Nat \ {0}, NEW q \in Int, NEW r \in 0 .. C - 1
    PROVE  (C * q + r) \div C = q
  OBVIOUS

LEMMA DivMod ==
    ASSUME NEW C \in Nat \ {0}, NEW x \in Int
    PROVE  x \div C \in Int /\ x % C \in 0 .. C - 1 /\ x = C * (x \div C) + (x % C)
  OBVIOUS

\* The next packet is in the same row or in the next one.
LEMMA RowNext ==
    ASSUME NEW p \in Int
    PROVE  RowOf(p) \in Int /\ RowOf(p + 1) \in {RowOf(p), RowOf(p) + 1}
<1> DEFINE C == RowPackets
           q == (p - 1) \div C
           r == (p - 1) % C
<1>1. C \in Nat \ {0} /\ q \in Int /\ r \in 0 .. C - 1 /\ p - 1 = C * q + r
  <2>1. C \in Nat \ {0} /\ p - 1 \in Int
    BY Sizes
  <2> HIDE DEF C
  <2> QED
    BY <2>1, DivMod
<1> HIDE DEF C, q, r
<1>2. p = C * q + r + 1 /\ C * q \in Int
  BY <1>1
<1>3. CASE r + 1 < C
  <2>1. r + 1 \in 0 .. C - 1 /\ p = C * q + (r + 1)
    BY <1>1, <1>2, <1>3
  <2>2. p \div C = q
    BY <1>1, <2>1, DivUnique
  <2> QED
    BY <1>1, <2>2 DEF RowOf, C, q
<1>4. CASE r + 1 >= C
  <2>1. C * (q + 1) = C * q + C
    BY <1>1
  <2>2. 0 \in 0 .. C - 1 /\ p = C * (q + 1) + 0 /\ q + 1 \in Int
    BY <1>1, <1>2, <1>4, <2>1
  <2>3. p \div C = q + 1
    BY <1>1, <2>2, DivUnique
  <2> QED
    BY <1>1, <2>3 DEF RowOf, C, q
<1> QED
  BY <1>1, <1>3, <1>4

LEMMA FirstRows == RowOf(0) \in Int /\ RowOf(0) <= 0 /\ RowOf(1) = 0
<1>1. RowOf(0 + 1) \in {RowOf(0), RowOf(0) + 1} /\ RowOf(0) \in Int
  BY RowNext
<1>2. RowOf(1) = 0
  <2>1. RowPackets \in Nat \ {0} /\ 0 \in 0 .. RowPackets - 1 /\ RowPackets * 0 + 0 = 0
    BY Sizes
  <2> QED
    BY <2>1, DivUnique DEF RowOf
<1> QED
  BY <1>1, <1>2

LEMMA RowInImage ==
    ASSUME NEW p \in 1 .. Total - 1 PROVE RowOf(p) \in 0 .. Rows - 1
<1> DEFINE C == RowPackets
           q == (p - 1) \div C
           r == (p - 1) % C
<1>1. /\ C \in Nat \ {0} /\ Rows \in Nat /\ q \in Int /\ r \in 0 .. C - 1 /\ p - 1 = C * q + r
      /\ p - 1 >= 0 /\ p - 1 < Rows * C
  <2>1. C \in Nat \ {0} /\ p - 1 \in Int /\ Rows \in Nat /\ p - 1 >= 0 /\ p - 1 < Rows * C
    BY Sizes DEF Total
  <2> HIDE DEF C
  <2> QED
    BY <2>1, DivMod
<1> HIDE DEF C, q, r
<1>2. ASSUME q < 0 PROVE FALSE
  <2>1. q <= -1 /\ C * q <= C * (-1)
    BY <1>1, <1>2
  <2> QED
    BY <1>1, <2>1
<1>3. ASSUME q >= Rows PROVE FALSE
  <2>1. C * q >= C * Rows /\ C * Rows = Rows * C /\ C * q \in Int /\ Rows * C \in Int
    BY <1>1, <1>3
  <2> QED
    BY <1>1, <2>1
<1> QED
  BY <1>1, <1>2, <1>3 DEF RowOf, C, q

LEMMA BufTyped == ASSUME NEW r \in Int PROVE Buf(r) \in 0 .. Bufs - 1
<1>1. Bufs \in Nat \ {0}
  BY Sizes
<1> QED
  BY <1>1, ModRange DEF Buf

LEMMA BufDistinct ==
    ASSUME NEW a \in Int, NEW b \in Int, a # b, a - b < Bufs, b - a < Bufs
    PROVE  Buf(a) # Buf(b)
<1>1. Bufs \in Nat \ {0}
  BY Sizes
<1>2. ASSUME a % Bufs = b % Bufs PROVE FALSE
  BY <1>1, <1>2, ModDistinct
<1> QED
  BY <1>2 DEF Buf

\* A packet of a row that is in its buffer goes out as it is.
LEMMA ContentWhole ==
    ASSUME NEW p \in 1 .. Total - 1, Holds(RowOf(p)) PROVE Content(p) = p
<1> DEFINE C == RowPackets
           q == (p - 1) \div C
           r == (p - 1) % C
<1>1. C \in Nat \ {0} /\ q \in Int /\ r \in 0 .. C - 1 /\ p - 1 = C * q + r /\ p \in Int /\ p > 0
  <2>1. C \in Nat \ {0} /\ p - 1 \in Int /\ p \in Int /\ p > 0
    BY Sizes
  <2> HIDE DEF C
  <2> QED
    BY <2>1, DivMod
<1>2. rows[Buf(RowOf(p))] = q /\ q # Torn
  BY RowInImage DEF Holds, RowOf, Torn
<1>3. Content(p) = q * C + r + 1
  BY <1>1, <1>2 DEF Content
<1> HIDE DEF C, q, r
<1>4. q * C = C * q /\ C * q \in Int
  BY <1>1
<1> QED
  BY <1>1, <1>3, <1>4

(***************************************************************************)
(* The pump.                                                               *)
(***************************************************************************)

\* A row begun or ended changes no row but its own.
LEMMA OtherRows ==
    ASSUME Types, NEW g \in Int, NEW v \in Int, rows' = [rows EXCEPT ![Buf(g)] = v],
           NEW r \in Int, r # g, r - g < Bufs, g - r < Bufs
    PROVE  rows'[Buf(r)] = rows[Buf(r)]
<1>1. Buf(r) # Buf(g) /\ Buf(r) \in 0 .. Bufs - 1 /\ Buf(g) \in 0 .. Bufs - 1
  BY BufDistinct, BufTyped
<1> QED
  BY <1>1 DEF Types

\* A row EP2 has, or is to have next, is not the one whose buffer is taken.
LEMMA RowBeginSpares ==
    ASSUME RowsOK, RowBegin, pc = "ahead", NEW r \in Int, Holds(r),
           RowOf(genPos) - 1 <= r, r <= RowOf(genPos)
    PROVE  rows'[Buf(r)] = r
<1>1. /\ genRow \in Int /\ genRow < limit /\ RowOf(genPos) \in Int /\ Bufs \in Nat /\ Bufs >= 2
      /\ limit <= RowOf(genPos) + Bufs - 1 /\ RowOf(genPos) <= genRow + 1 /\ limit \in Int
  BY Sizes, RowNext DEF RowsOK, Types, PaceOK, RowBegin, MoreRows, Ahead
<1>2. rows' = [rows EXCEPT ![Buf(genRow)] = IF @ = genRow THEN @ ELSE Torn]
  BY DEF RowBegin
<1>3. CASE r = genRow
  BY <1>2, <1>3, BufTyped DEF Holds, RowsOK, Types
<1>4. CASE r # genRow
  <2>1. r - genRow < Bufs /\ genRow - r < Bufs
    BY <1>1
  <2>2. Buf(r) # Buf(genRow) /\ Buf(r) \in 0 .. Bufs - 1
    BY <1>1, <1>4, <2>1, BufDistinct, BufTyped
  <2> QED
    BY <1>2, <2>2 DEF Holds, RowsOK, Types
<1> QED
  BY <1>3, <1>4

LEMMA RowBeginKeeps == ASSUME RowsOK, RowBegin PROVE RowsOK'
<1> DEFINE v == IF rows[Buf(genRow)] = genRow THEN genRow ELSE Torn
<1>1. /\ pc \in {"prefill", "ahead"} /\ ~writing /\ genRow < limit /\ genRow < Rows
      /\ writing' = TRUE /\ genRow' = genRow + 1
      /\ rows' = [rows EXCEPT ![Buf(genRow)] = v]
      /\ UNCHANGED <<pc, limit, ctrlCopy, active, needArm, stuck, lastPos,
                     epVars, startReq, xferInt, resetInt, hostVars>>
  BY DEF RowBegin, MoreRows
<1>2. /\ genRow \in Nat /\ v \in Int /\ (v = genRow \/ v = Torn) /\ Bufs \in Nat /\ Bufs >= 2
      /\ Rows \in Nat
  BY Sizes DEF RowsOK, Types, Torn
<1> HIDE DEF v
<1>3. Buf(genRow) \in 0 .. Bufs - 1
  BY <1>2, BufTyped
<1>4. rows' \in [0 .. Bufs - 1 -> Int] /\ rows'[Buf(genRow)] = v
  BY <1>1, <1>2, <1>3 DEF RowsOK, Types
<1>5. Types'
  BY <1>1, <1>2, <1>4 DEF RowsOK, Types, epVars, hostVars
<1>6. WindowOK'
  <2>1. ASSUME NEW k \in 0 .. genRow, k > genRow + 1 - Bufs
        PROVE  rows'[Buf(k)] = k \/ (k = genRow /\ rows'[Buf(k)] = Torn)
    <3>1. CASE k = genRow
      BY <1>2, <1>4, <3>1
    <3>2. CASE k # genRow
      <4>1. k \in 0 .. genRow - 1 /\ k > genRow - Bufs /\ k - genRow < Bufs /\ genRow - k < Bufs
        BY <1>2, <2>1, <3>2
      <4>2. rows[Buf(k)] = k
        BY <1>1, <4>1 DEF RowsOK, WindowOK, Holds
      <4>3. rows'[Buf(k)] = rows[Buf(k)]
        <5>1. k \in Int /\ genRow \in Int /\ Types
          BY <1>2 DEF RowsOK
        <5> QED
          BY <1>1, <1>2, <3>2, <4>1, <5>1, OtherRows
      <4> QED
        BY <4>2, <4>3
    <3> QED
      BY <3>1, <3>2
  <2>2. ASSUME NEW k \in 0 .. genRow' - 1, k > genRow' - Bufs
        PROVE  rows'[Buf(k)] = k \/ (writing' /\ k = genRow' - 1 /\ rows'[Buf(k)] = Torn)
    <3>1. k \in 0 .. genRow /\ k > genRow + 1 - Bufs /\ genRow' - 1 = genRow
      BY <1>1, <1>2, <2>2
    <3> QED
      BY <1>1, <2>1, <3>1
  <2> QED
    BY <2>2 DEF WindowOK, Holds
<1>7. PaceOK'
  BY <1>1, <1>2, RowNext DEF RowsOK, Types, PaceOK, Ahead, epVars
<1>8. ArmedOK'
  <2>1. CASE pc = "prefill"
    BY <1>1, <2>1 DEF RowsOK, ArmedOK, StartOK, epVars
  <2>2. CASE pc = "ahead"
    <3>1. RowOf(genPos) \in Int /\ RowOf(genPos - 1) \in Int
          /\ RowOf(genPos) \in {RowOf(genPos - 1), RowOf(genPos - 1) + 1}
      <4>1. genPos - 1 \in Int /\ (genPos - 1) + 1 = genPos /\ genPos \in Int
        BY DEF RowsOK, Types
      <4> QED
        BY <4>1, RowNext
    <3>2. Holds(RowOf(genPos)) => rows'[Buf(RowOf(genPos))] = RowOf(genPos)
      BY <2>2, <3>1, RowBeginSpares
    <3>3. Holds(RowOf(genPos - 1)) => rows'[Buf(RowOf(genPos - 1))] = RowOf(genPos - 1)
      BY <2>2, <3>1, RowBeginSpares
    <3>4. Filled => Filled'
      BY <1>1, <1>2 DEF Filled, RowsOK, Types
    <3> QED
      BY <1>1, <3>2, <3>3, <3>4 DEF RowsOK, ArmedOK, DmaReg, Holds, epVars, hostVars
  <2> QED
    BY <1>1, <2>1, <2>2
<1>9. StartOK'
  BY <1>1, <1>2 DEF RowsOK, StartOK, Filled, Types, epVars, hostVars
<1>10. FlipOK' /\ InOrder'
  BY <1>1 DEF RowsOK, FlipOK, InOrder, epVars, hostVars
<1> QED
  BY <1>5, <1>6, <1>7, <1>8, <1>9, <1>10 DEF RowsOK

LEMMA RowEndKeeps == ASSUME RowsOK, RowEnd PROVE RowsOK'
<1>1. /\ writing /\ writing' = FALSE /\ rows' = [rows EXCEPT ![Buf(genRow - 1)] = genRow - 1]
      /\ UNCHANGED <<pc, limit, ctrlCopy, genRow, active, needArm, stuck, lastPos,
                     epVars, startReq, xferInt, resetInt, hostVars>>
  BY DEF RowEnd
<1>2. /\ genRow \in Nat /\ genRow - 1 \in Int /\ Bufs \in Nat /\ Bufs >= 2
      /\ genRow > 0 /\ pc \in {"prefill", "ahead"}
  BY <1>1, Sizes DEF RowsOK, Types, PaceOK
<1>3. Buf(genRow - 1) \in 0 .. Bufs - 1
  BY <1>2, BufTyped
<1>4. rows' \in [0 .. Bufs - 1 -> Int] /\ rows'[Buf(genRow - 1)] = genRow - 1
  BY <1>1, <1>2, <1>3 DEF RowsOK, Types
<1>5. Types'
  BY <1>1, <1>4 DEF RowsOK, Types, epVars, hostVars
<1>6. ASSUME NEW r \in Int, r # genRow - 1, r - (genRow - 1) < Bufs, (genRow - 1) - r < Bufs
      PROVE  rows'[Buf(r)] = rows[Buf(r)]
  BY <1>1, <1>2, <1>6, OtherRows DEF RowsOK
<1>7. WindowOK'
  <2>1. ASSUME NEW k \in 0 .. genRow - 1, k > genRow - Bufs
        PROVE  rows'[Buf(k)] = k
    <3>1. CASE k = genRow - 1
      BY <1>4, <3>1
    <3>2. CASE k # genRow - 1
      <4>1. rows[Buf(k)] = k
        BY <2>1, <3>2 DEF RowsOK, WindowOK, Holds
      <4>2. k - (genRow - 1) < Bufs /\ (genRow - 1) - k < Bufs
        BY <1>2, <2>1
      <4> QED
        BY <1>6, <3>2, <4>1, <4>2
    <3> QED
      BY <3>1, <3>2
  <2> QED
    BY <1>1, <2>1 DEF WindowOK, Holds
<1>8. PaceOK'
  BY <1>1 DEF RowsOK, PaceOK, Ahead, epVars
<1>9. ArmedOK'
  <2>1. rows[Buf(genRow - 1)] \in {genRow - 1, Torn}
    BY <1>1, <1>2 DEF RowsOK, WindowOK, Holds
  <2>2. ASSUME NEW r \in Nat, Holds(r) PROVE rows'[Buf(r)] = r
    <3>1. CASE r = genRow - 1
      BY <1>4, <3>1
    <3>2. CASE r # genRow - 1
      <4>1. Buf(r) # Buf(genRow - 1) /\ Buf(r) \in 0 .. Bufs - 1
        BY <2>1, <2>2, <3>2, BufTyped DEF Holds, Torn
      <4> QED
        BY <1>1, <2>2, <4>1 DEF Holds, RowsOK, Types
    <3> QED
      BY <3>1, <3>2
  <2>3. genPos > 1 => RowOf(genPos - 1) \in Nat
    BY RowInImage, Sizes DEF RowsOK, Types
  <2>4. genPos > 0 /\ genPos < Total => RowOf(genPos) \in Nat
    BY RowInImage, Sizes DEF RowsOK, Types
  <2> QED
    BY <1>1, <2>2, <2>3, <2>4 DEF RowsOK, ArmedOK, DmaReg, Holds, Filled, epVars, hostVars
<1>10. StartOK' /\ FlipOK' /\ InOrder'
  BY <1>1 DEF RowsOK, StartOK, FlipOK, InOrder, Filled, epVars, hostVars
<1> QED
  BY <1>5, <1>7, <1>8, <1>9, <1>10 DEF RowsOK

\* A step that leaves rows and generation alone, and so what the window says.
LEMMA SameRows ==
    ASSUME RowsOK, UNCHANGED <<rows, genRow, writing>>
    PROVE  WindowOK' /\ (Filled' <=> Filled) /\ \A r \in Int : Holds(r)' <=> Holds(r)
  BY DEF RowsOK, WindowOK, Filled, Holds

LEMMA PumpResetKeeps == ASSUME RowsOK, PumpReset PROVE RowsOK'
<1>1. /\ pc = "top" /\ startReq /\ startReq' = FALSE /\ genPos' = 0 /\ genRow' = 0
      /\ limit' = Bufs - 1 /\ pc' = "prefill"
      /\ UNCHANGED <<writing, ctrlCopy, rows, needArm, stuck, lastPos,
                     epRes, epTog, epBusy, dma, xferInt, resetInt, hostVars>>
  BY DEF PumpReset
<1>2. ~writing /\ epRes = "NAK" /\ xferInt = "none" /\ host = "reading" /\ got = << >> /\ ~needArm
  BY <1>1 DEF RowsOK, PaceOK, StartOK
<1>3. Types'
  BY <1>1, Sizes DEF RowsOK, Types, hostVars
<1>4. WindowOK'
  BY <1>1 DEF WindowOK
<1>5. PaceOK'
  <2>1. RowOf(0) \in Int /\ RowOf(0) <= 0
    BY FirstRows
  <2> QED
    BY <1>1, <1>2, <2>1 DEF PaceOK
<1>6. ArmedOK'
  BY <1>1, <1>2 DEF ArmedOK, DmaReg
<1>7. StartOK'
  BY <1>1, <1>2 DEF RowsOK, StartOK, hostVars
<1>8. FlipOK' /\ InOrder'
  BY <1>1 DEF RowsOK, FlipOK, InOrder, hostVars
<1> QED
  BY <1>3, <1>4, <1>5, <1>6, <1>7, <1>8 DEF RowsOK

\* Steps that only move the main loop on.
LEMMA PumpMovesKeep ==
    ASSUME RowsOK, PumpNoRequest \/ AheadDone \/ PumpFinish \/ PumpScan \/ PrefillDone
    PROVE  RowsOK'
<1>1. /\ UNCHANGED <<rows, genRow, writing, ctrlCopy, epVars, startReq, xferInt, resetInt,
                     hostVars>>
      /\ limit' \in Int /\ (limit' = limit \/ pc' = "ahead")
  <2>1. RowOf(genPos) \in Int /\ Bufs \in Nat
    BY RowNext, Sizes DEF RowsOK, Types
  <2> QED
    BY <2>1 DEF PumpNoRequest, AheadDone, PumpFinish, PumpScan, PrefillDone, RowsOK, Types, Ahead
<1>2. WindowOK' /\ (Filled' <=> Filled) /\ Types' /\ ArmedOK' /\ InOrder'
  BY <1>1, SameRows DEF RowsOK, Types, ArmedOK, DmaReg, InOrder, Holds, epVars, hostVars
<1>3. RowOf(genPos) \in Int /\ Bufs \in Nat /\ genRow \in Nat /\ Rows \in Nat
  BY RowNext, Sizes DEF RowsOK, Types
<1>4. CASE PumpNoRequest \/ AheadDone \/ PumpFinish
  BY <1>1, <1>2, <1>4 DEF PumpNoRequest, AheadDone, PumpFinish, RowsOK, PaceOK, StartOK, FlipOK,
     epVars, hostVars
<1>5. CASE PumpScan
  <2>1. PaceOK'
    BY <1>1, <1>3, <1>5 DEF PumpScan, RowsOK, PaceOK, Ahead, epVars
  <2>2. StartOK' /\ FlipOK'
    BY <1>1, <1>2, <1>5 DEF PumpScan, RowsOK, StartOK, FlipOK, epVars, hostVars
  <2> QED
    BY <1>2, <2>1, <2>2 DEF RowsOK
<1>6. CASE PrefillDone
  <2>1. /\ pc = "prefill" /\ ~writing /\ Filled /\ pc' = "scan" /\ needArm' = TRUE /\ limit' = limit
    BY <1>3, <1>6 DEF PrefillDone, MoreRows, Filled, RowsOK, PaceOK, Types
  <2> QED
    BY <1>1, <1>2, <2>1 DEF RowsOK, PaceOK, StartOK, FlipOK, epVars, hostVars
<1> QED
  BY <1>4, <1>5, <1>6

\* USBD_EP2_StartTransfer by the pump arms packet 0, for a host that waits.
LEMMA PumpArmKeeps == ASSUME RowsOK, PumpArm PROVE RowsOK'
<1>1. /\ pc = "arm" /\ needArm /\ pc' = "top" /\ needArm' = FALSE /\ StartTransfer
      /\ UNCHANGED <<limit, writing, ctrlCopy, rows, genRow, active, stuck, lastPos,
                     startReq, xferInt, resetInt, hostVars>>
  BY DEF PumpArm
<1>2. /\ host = "reading" /\ epRes = "NAK" /\ xferInt = "none" /\ got = << >> /\ Len(got) = 0
      /\ ~startReq /\ genPos = 0 /\ Filled /\ ~writing /\ ~resetInt
  BY <1>1 DEF RowsOK, StartOK, PaceOK
<1>3. WindowOK' /\ (Filled' <=> Filled) /\ InOrder'
  BY <1>1, SameRows DEF RowsOK, InOrder, hostVars
<1>4. CASE epBusy
  <2>1. UNCHANGED <<dma, genPos, epRes, epBusy, epTog>>
    BY <1>1, <1>4 DEF StartTransfer
  <2> QED
    BY <1>1, <1>2, <1>3, <2>1 DEF RowsOK, Types, PaceOK, ArmedOK, StartOK, FlipOK, hostVars
<1>5. CASE ~epBusy
  <2>1. /\ dma' = [dma EXCEPT ![DmaReg(epTog)] = 0] /\ genPos' = 1 /\ epRes' = "ACK"
        /\ UNCHANGED epTog
    BY <1>1, <1>2, <1>5, Sizes DEF StartTransfer, FillAndArm
  <2>2. DmaReg(epTog)' = DmaReg(epTog) /\ DmaReg(epTog) \in {0, 1}
    BY <1>1, <2>1, DmaRegTyped DEF RowsOK, Types, DmaReg, hostVars
  <2>3. Types' /\ dma'[DmaReg(epTog)'] = 0
    BY <1>1, <2>1, <2>2, Sizes DEF RowsOK, Types, hostVars
  <2>4. PaceOK'
    <3>1. RowOf(0) \in Int /\ RowOf(1) = 0
      BY FirstRows
    <3> QED
      BY <1>1, <1>2, <2>1, <3>1 DEF RowsOK, Types, PaceOK
  <2>5. ArmedOK'
    BY <1>1, <1>2, <1>3, <2>1, <2>3 DEF ArmedOK, hostVars
  <2>6. StartOK' /\ FlipOK'
    BY <1>1, <1>2, <2>1 DEF StartOK, FlipOK, hostVars
  <2> QED
    BY <1>3, <2>3, <2>4, <2>5, <2>6 DEF RowsOK
<1> QED
  BY <1>4, <1>5

\* The watch and the flip: EP2 stays armed or not armed.
LEMMA FlipKeeps ==
    ASSUME RowsOK, NoFlipOK, PumpWatch \/ PumpFlipRead \/ PumpFlipWrite
    PROVE  RowsOK'
<1>1. /\ UNCHANGED <<limit, writing, rows, genRow, needArm, genPos, epBusy, dma,
                     startReq, xferInt, resetInt, hostVars>>
      /\ pc \in {"arm", "flip", "flipWrite"} /\ pc' \in {"top", "flip", "flipWrite"}
      /\ pc = "arm" => ~needArm
  BY DEF PumpWatch, PumpFlipRead, PumpFlipWrite, FlipWrite, epVars
<1>2. epRes' = epRes /\ xferInt' = xferInt
  BY DEF PumpWatch, PumpFlipRead, PumpFlipWrite, FlipWrite, epVars, RowsOK, FlipOK, Types
<1>3. ~needArm /\ ~writing
  BY <1>1 DEF RowsOK, StartOK, PaceOK
<1>4. epTog' \in {0, 1} /\ DmaReg(epTog)' = DmaReg(epTog)
  <2>1. CASE PumpWatch \/ PumpFlipRead
    BY <1>1, <2>1 DEF PumpWatch, PumpFlipRead, RowsOK, Types, DmaReg, epVars, hostVars
  <2>2. CASE PumpFlipWrite
    BY <1>1, <2>2 DEF PumpFlipWrite, FlipWrite, RowsOK, FlipOK, NoFlipOK, DmaReg, hostVars
  <2> QED
    BY <2>1, <2>2
<1>5. WindowOK' /\ (Filled' <=> Filled) /\ InOrder' /\ Types'
  BY <1>1, <1>2, <1>4, SameRows DEF RowsOK, InOrder, Types, hostVars
<1>6. PaceOK' /\ ArmedOK' /\ StartOK'
  BY <1>1, <1>2, <1>3, <1>4, <1>5 DEF RowsOK, PaceOK, ArmedOK, StartOK, Holds, hostVars
<1>7. CASE PumpWatch
  <2>1. pc' = "flip" => Stalled
    BY <1>7 DEF PumpWatch, CountOver
  <2>2. pc' \in {"top", "flip"} /\ UNCHANGED epTog
    BY <1>7 DEF PumpWatch, epVars
  <2>3. FlipOK'
    BY <1>1, <1>2, <2>1, <2>2 DEF RowsOK, FlipOK, ArmedOK, Stalled, hostVars
  <2> QED
    BY <1>5, <1>6, <2>3 DEF RowsOK
<1>8. CASE PumpFlipRead
  BY <1>1, <1>2, <1>5, <1>6, <1>8 DEF PumpFlipRead, RowsOK, FlipOK, Types, epVars, hostVars
<1>9. CASE PumpFlipWrite
  BY <1>1, <1>2, <1>5, <1>6, <1>9 DEF PumpFlipWrite, FlipWrite, RowsOK, FlipOK
<1> QED
  BY <1>7, <1>8, <1>9

(***************************************************************************)
(* The interrupt.                                                          *)
(***************************************************************************)

\* The row the interrupt arms from is begun: only a row begun is ready, but
\* for one an earlier download has left, the first after those prefilled.
LEMMA ReadyBegun ==
    ASSUME Types, WindowOK, PaceOK, Filled, genPos > 0, genPos < Total, Holds(RowOf(genPos))
    PROVE  RowOf(genPos) <= genRow
<1> DEFINE r == RowOf(genPos)
<1>1. r \in 0 .. Rows - 1
  BY RowInImage, Sizes DEF Types
<1>2. /\ genRow \in 0 .. Rows /\ Bufs \in Nat /\ Bufs >= 2 /\ Rows \in Nat /\ r <= genRow + 1
      /\ genRow >= Bufs - 1 \/ genRow = Rows
  BY Sizes DEF Types, PaceOK, Filled
<1> HIDE DEF r
<1>3. ASSUME r = genRow + 1 PROVE FALSE
  <2> DEFINE k == r - Bufs
  <2>1. k \in 0 .. genRow - 1 /\ k > genRow - Bufs
    BY <1>1, <1>2, <1>3
  <2>2. rows[Buf(k)] \in {k, Torn}
    BY <2>1 DEF WindowOK, Holds
  <2>3. Buf(k) = Buf(r)
    <3>1. Bufs \in Nat \ {0} /\ r \in Int /\ -1 \in Int /\ r + Bufs * (-1) = k
      BY <1>1, <1>2
    <3> HIDE DEF k
    <3> QED
      BY <3>1, ModShift DEF Buf
  <2>4. rows[Buf(r)] = r
    BY DEF Holds, r
  <2> QED
    BY <1>1, <1>2, <2>2, <2>3, <2>4 DEF Torn
<1> QED
  BY <1>1, <1>2, <1>3 DEF r

LEMMA IsrInKeeps == ASSUME RowsOK, IsrIn PROVE RowsOK'
<1>1. /\ xferInt = "in" /\ xferInt' = "none" /\ epTog' = 1 - epTog /\ FillAndArm(1 - epTog)
      /\ UNCHANGED <<pumpVars, startReq, resetInt, hostVars>>
  BY DEF IsrIn
<1>2. /\ genPos = Len(got) /\ Filled /\ genPos > 0 /\ genPos \in 0 .. Total /\ Total \in Nat
      /\ ~startReq /\ ~needArm /\ pc \notin {"prefill", "flip", "flipWrite"}
      /\ genPos < Total => host = "reading" /\ Holds(RowOf(genPos))
  BY <1>1, Sizes DEF RowsOK, Types, ArmedOK, StartOK, FlipOK
<1>3. WindowOK' /\ (Filled' <=> Filled) /\ InOrder'
  BY <1>1, SameRows DEF RowsOK, InOrder, pumpVars, hostVars
<1>4. FlipOK'
  BY <1>1, <1>2 DEF FlipOK, pumpVars
<1>5. CASE genPos >= Total
  <2>1. epRes' = "NAK" /\ UNCHANGED <<dma, genPos>>
    BY <1>1, <1>5 DEF FillAndArm
  <2> QED
    BY <1>1, <1>2, <1>3, <1>4, <2>1
       DEF RowsOK, Types, PaceOK, ArmedOK, StartOK, Ahead, pumpVars, hostVars
<1>6. CASE ~(genPos >= Total)
  <2>1. dma' = [dma EXCEPT ![DmaReg(1 - epTog)] = genPos] /\ genPos' = genPos + 1 /\ epRes' = "ACK"
    BY <1>1, <1>6 DEF FillAndArm
  <2>2. genPos < Total /\ host = "reading" /\ Holds(RowOf(genPos)) /\ RowOf(genPos) <= genRow
    BY <1>2, <1>6, ReadyBegun DEF RowsOK
  <2>3. Types' /\ dma'[DmaReg(epTog)'] = genPos
    <3>1. 1 - epTog \in {0, 1} /\ DmaReg(epTog)' = DmaReg(1 - epTog)
      BY <1>1 DEF RowsOK, Types, DmaReg, hostVars
    <3>2. DmaReg(1 - epTog) \in {0, 1}
      BY <3>1, DmaRegTyped
    <3> QED
      BY <1>1, <1>2, <2>1, <2>2, <3>1, <3>2 DEF RowsOK, Types, pumpVars, hostVars
  <2>4. PaceOK'
    <3>1. /\ RowOf(genPos) \in Int /\ RowOf(genPos + 1) \in {RowOf(genPos), RowOf(genPos) + 1}
          /\ Bufs \in Nat /\ genRow \in Nat /\ limit \in Int
      BY <1>2, RowNext, Sizes DEF RowsOK, Types
    <3> QED
      BY <1>1, <1>2, <2>1, <2>2, <3>1 DEF RowsOK, PaceOK, Ahead, pumpVars
  <2>5. ArmedOK'
    <3>1. genPos' - 1 = genPos
      BY <1>2, <2>1
    <3>2. rows' = rows
      BY <1>1 DEF pumpVars
    <3> QED
      BY <1>1, <1>2, <1>3, <2>1, <2>2, <2>3, <3>1, <3>2 DEF ArmedOK, Holds, hostVars
  <2>6. StartOK'
    BY <1>1, <1>2, <2>1, <2>2 DEF RowsOK, StartOK, pumpVars, hostVars
  <2> QED
    BY <1>3, <1>4, <2>3, <2>4, <2>5, <2>6 DEF RowsOK
<1> QED
  BY <1>5, <1>6

LEMMA IsrStartKeeps == ASSUME RowsOK, IsrStart PROVE RowsOK'
<1>1. /\ xferInt = "start" /\ xferInt' = "none" /\ startReq' = TRUE /\ host' = "reading"
      /\ UNCHANGED <<pumpVars, epVars, resetInt, hostTog, got, budget>>
  BY DEF IsrStart
<1>2. WindowOK' /\ (Filled' <=> Filled) /\ InOrder' /\ PaceOK' /\ Types'
  BY <1>1, SameRows DEF RowsOK, InOrder, PaceOK, Types, Ahead, pumpVars, epVars
<1>3. host = "starting" /\ epRes = "NAK" /\ got = << >> /\ ~needArm /\ pc # "prefill" /\ ~resetInt
  BY <1>1 DEF RowsOK, StartOK
<1>4. ArmedOK' /\ StartOK' /\ FlipOK'
  BY <1>1, <1>3 DEF RowsOK, ArmedOK, StartOK, FlipOK, pumpVars, epVars
<1> QED
  BY <1>2, <1>4 DEF RowsOK

(***************************************************************************)
(* The host and the bus.                                                   *)
(***************************************************************************)

LEMMA SpendTyped ==
    ASSUME NEW b \in {"start", "reopen", "clear", "reset"}, Types, Spend(b)
    PROVE  /\ budget' \in Use /\ PacedUse(budget')
           /\ budget'.doubleBuffer = budget.doubleBuffer
           /\ budget.doubleBuffer => b # "reopen"
<1>1. /\ budget \in Use /\ budget.pumpAhead /\ ~budget.aborts
      /\ budget.doubleBuffer => budget.reopen = 0 /\ Rows > 2 * Bufs
      /\ budget[b] > 0 /\ budget' = [budget EXCEPT ![b] = @ - 1]
  BY DEF Types, Spend, PacedUse
<1>2. budget[b] \in Nat /\ budget[b] - 1 \in Nat
  BY <1>1 DEF Use
<1>3. budget' \in Use
  BY <1>1, <1>2 DEF Use
<1>4. /\ budget'.pumpAhead = budget.pumpAhead /\ budget'.aborts = budget.aborts
      /\ budget'.doubleBuffer = budget.doubleBuffer
      /\ b # "reopen" => budget'.reopen = budget.reopen
  BY <1>1 DEF Use
<1>5. budget.doubleBuffer => b # "reopen"
  BY <1>1
<1> QED
  BY <1>1, <1>3, <1>4, <1>5 DEF PacedUse

\* A host that is idle has left EP2 unarmed, once the last packet is served.
LEMMA IdleUnarmed ==
    ASSUME RowsOK, host = "idle", xferInt = "none"
    PROVE  epRes = "NAK" /\ ~startReq /\ ~needArm /\ pc # "prefill"
  BY DEF RowsOK, Types, ArmedOK, StartOK

LEMMA BusKeeps ==
    ASSUME RowsOK, HostStart \/ HostReopen \/ ClearHalt \/ BusReset \/ IsrReset
    PROVE  RowsOK'
<1>1. UNCHANGED <<pumpVars, genPos, startReq>>
  BY DEF HostStart, HostReopen, ClearHalt, BusReset, IsrReset, epVars
<1>2. WindowOK' /\ (Filled' <=> Filled) /\ PaceOK'
  BY <1>1, SameRows DEF RowsOK, PaceOK, Ahead, pumpVars
<1>3. budget.aborts = FALSE
  BY DEF RowsOK, Types, Use, PacedUse
<1>4. CASE HostStart
  <2>1. /\ BusQuiet /\ host = "idle" /\ Spend("start") /\ host' = "starting" /\ got' = << >>
        /\ xferInt' = "start" /\ UNCHANGED <<epVars, resetInt, hostTog>>
    BY <1>3, <1>4 DEF HostStart
  <2>2. epRes = "NAK" /\ ~startReq /\ ~needArm /\ pc # "prefill" /\ ~resetInt
    BY <2>1, IdleUnarmed DEF BusQuiet
  <2>3. Types' /\ InOrder'
    BY <1>1, <2>1, SpendTyped DEF RowsOK, Types, InOrder, pumpVars, epVars
  <2> QED
    BY <1>1, <1>2, <2>1, <2>2, <2>3 DEF RowsOK, ArmedOK, StartOK, FlipOK, pumpVars, epVars
<1>5. CASE HostReopen
  <2>1. /\ BusQuiet /\ host = "idle" /\ Spend("reopen") /\ hostTog' = 0
        /\ UNCHANGED <<epVars, xferInt, resetInt, host, got>>
    BY <1>5 DEF HostReopen
  <2>2. epRes = "NAK" /\ ~startReq /\ ~needArm /\ pc # "prefill" /\ xferInt = "none"
    BY <2>1, IdleUnarmed DEF BusQuiet
  <2>3. Types' /\ InOrder'
    BY <1>1, <2>1, SpendTyped DEF RowsOK, Types, InOrder, pumpVars, epVars
  <2> QED
    BY <1>1, <1>2, <2>1, <2>2, <2>3 DEF RowsOK, ArmedOK, StartOK, FlipOK, pumpVars, epVars
<1>6. CASE ClearHalt
  <2>1. /\ BusQuiet /\ host = "idle" /\ Spend("clear") /\ host' = "idle" /\ epRes' = "NAK"
        /\ epTog' = 0 /\ hostTog' = 0 /\ UNCHANGED <<dma, xferInt, resetInt, got>>
    BY <1>3, <1>6 DEF ClearHalt
  <2>2. epRes = "NAK" /\ ~startReq /\ ~needArm /\ pc # "prefill" /\ xferInt = "none"
    BY <2>1, IdleUnarmed DEF BusQuiet
  <2>3. Types' /\ InOrder'
    BY <1>1, <2>1, SpendTyped DEF RowsOK, Types, InOrder, pumpVars
  <2> QED
    BY <1>1, <1>2, <2>1, <2>2, <2>3 DEF RowsOK, ArmedOK, StartOK, FlipOK, pumpVars
<1>7. CASE BusReset
  <2>1. /\ host = "idle" /\ Spend("reset") /\ host' = "idle" /\ resetInt' = TRUE
        /\ hostTog' = 0 /\ UNCHANGED <<epVars, xferInt, got>>
    BY <1>3, <1>7 DEF BusReset
  <2>2. Types' /\ InOrder'
    BY <1>1, <2>1, SpendTyped DEF RowsOK, Types, InOrder, pumpVars, epVars
  <2>3. epRes = "ACK" => xferInt = "in"
    BY <2>1 DEF RowsOK, ArmedOK, DmaReg
  <2>4. ArmedOK'
    BY <1>1, <1>2, <2>1, <2>3, SpendTyped DEF RowsOK, ArmedOK, DmaReg, Holds, pumpVars, epVars
  <2>5. StartOK' /\ FlipOK'
    BY <1>1, <1>2, <2>1, <2>3 DEF RowsOK, StartOK, FlipOK, pumpVars, epVars
  <2> QED
    BY <1>2, <2>2, <2>4, <2>5 DEF RowsOK
<1>8. CASE IsrReset
  <2>1. /\ xferInt = "none" /\ resetInt /\ resetInt' = FALSE /\ epRes' = "NAK" /\ epTog' = 0
        /\ dma' = [dma EXCEPT ![0] = Nowhere] /\ UNCHANGED <<xferInt, hostVars>>
    BY <1>8 DEF IsrReset
  <2>2. host = "idle" /\ epRes = "NAK" /\ ~startReq /\ ~needArm /\ pc # "prefill"
    BY <2>1, IdleUnarmed DEF RowsOK, StartOK
  <2>3. Types' /\ InOrder'
    BY <1>1, <2>1 DEF RowsOK, Types, InOrder, Nowhere, pumpVars, hostVars
  <2> QED
    BY <1>1, <1>2, <2>1, <2>2, <2>3 DEF RowsOK, ArmedOK, StartOK, FlipOK, pumpVars, hostVars
<1> QED
  BY <1>4, <1>5, <1>6, <1>7, <1>8

\* What EP2 sends is the packet below s_genPos, whole.
LEMMA ArmedContent ==
    ASSUME RowsOK, epRes = "ACK"
    PROVE  dma[DmaReg(epTog)] = genPos - 1 /\ Content(genPos - 1) = genPos - 1
<1>1. dma[DmaReg(epTog)] = genPos - 1 /\ genPos \in 1 .. Total /\ Total \in Nat
      /\ (genPos > 1 => Holds(RowOf(genPos - 1)))
  BY Sizes DEF RowsOK, Types, ArmedOK
<1>2. CASE genPos = 1
  BY <1>1, <1>2 DEF Content
<1>3. CASE genPos > 1
  <2>1. genPos - 1 \in 1 .. Total - 1
    BY <1>1, <1>3
  <2> QED
    BY <1>1, <1>3, <2>1, ContentWhole
<1> QED
  BY <1>1, <1>2, <1>3

LEMMA HostTakeKeeps ==
    ASSUME RowsOK, HostTake
    PROVE  /\ RowsOK' /\ Len(got) \in Nat /\ got' = Append(got, Len(got))
           /\ host' = IF Len(got') < Total THEN "reading" ELSE "idle"
<1>1. /\ host = "reading" /\ BusQuiet /\ epRes = "ACK" /\ epTog = hostTog /\ RowReady
      /\ got' = Append(got, Content(dma[DmaReg(epTog)])) /\ xferInt' = "in"
      /\ hostTog' = 1 - hostTog
      /\ host' = IF Len(got') = Total THEN "idle" ELSE "reading"
      /\ UNCHANGED <<pumpVars, epVars, startReq, resetInt, budget>>
  BY DEF HostTake, RowsOK, Types, PacedUse
<1>2. /\ genPos = Len(got) + 1 /\ genPos \in 1 .. Total /\ Total \in Nat /\ xferInt = "none"
      /\ Len(got) \in Nat
  BY <1>1, Sizes DEF RowsOK, Types, ArmedOK, BusQuiet
<1>3. got' = Append(got, Len(got))
  BY <1>1, <1>2, ArmedContent
<1>4. /\ got' \in Seq(Int) /\ Len(got') = genPos /\ got'[Len(got) + 1] = Len(got)
      /\ \A i \in 1 .. Len(got) : got'[i] = got[i]
  BY <1>2, <1>3 DEF RowsOK, Types
<1>5. InOrder'
  <2>1. ASSUME NEW i \in 1 .. Len(got') PROVE got'[i] = i - 1
    <3>1. CASE i = Len(got) + 1
      BY <1>2, <1>4, <3>1
    <3>2. CASE i # Len(got) + 1
      <4>1. i \in 1 .. Len(got)
        BY <1>2, <1>4, <3>2
      <4> QED
        BY <1>4, <4>1 DEF RowsOK, InOrder
    <3> QED
      BY <3>1, <3>2
  <2> QED
    BY <2>1 DEF InOrder
<1>6. host' = IF Len(got') < Total THEN "reading" ELSE "idle"
  BY <1>1, <1>2, <1>4
<1>7. WindowOK' /\ (Filled' <=> Filled) /\ PaceOK' /\ Types'
  BY <1>1, <1>4, SameRows DEF RowsOK, PaceOK, Types, Ahead, pumpVars, epVars
<1>8. ArmedOK'
  <2>1. genPos < Total => Holds(RowOf(genPos))
    BY <1>1, <1>2 DEF RowReady, Holds
  <2> QED
    BY <1>1, <1>2, <1>4, <1>6, <1>7, <2>1 DEF RowsOK, ArmedOK, DmaReg, Holds, pumpVars, epVars
<1>9. StartOK' /\ FlipOK'
  BY <1>1, <1>2 DEF RowsOK, StartOK, FlipOK, BusQuiet, pumpVars, epVars
<1> QED
  BY <1>2, <1>3, <1>5, <1>6, <1>7, <1>8, <1>9 DEF RowsOK

(***************************************************************************)
(* Two DMA pointers: why no download is taken for stuck.                   *)
(***************************************************************************)

LEMMA RowsEnd == RowOf(Total) = Rows
<1>1. /\ RowPackets \in Nat \ {0} /\ Rows \in Int /\ 0 \in 0 .. RowPackets - 1
      /\ Total - 1 = RowPackets * Rows + 0
  BY Sizes DEF Total
<1> QED
  BY <1>1, DivUnique DEF RowOf

\* When the pump looks at s_genPos it is not still at the end it had last time.
LEMMA NewStartSeen ==
    ASSUME RowsOK, LagOK, budget.doubleBuffer, pc = "arm", active, genPos = lastPos
    PROVE  genPos # Total
<1>1. /\ genRow \in Nat /\ Bufs \in Nat /\ Rows \in Nat /\ Rows > 2 * Bufs
      /\ RowOf(genPos) <= genRow + 1
  BY Sizes DEF RowsOK, Types, PaceOK, PacedUse
<1>2. genPos = Total => genRow < 2 * Bufs
  BY DEF LagOK
<1> QED
  BY <1>1, <1>2, RowsEnd

LEMMA NeverStalled ==
    ASSUME RowsOK, NoFlipOK, budget.doubleBuffer, pc = "arm", ~needArm, active, genPos = lastPos
    PROVE  ~Stalled
<1> SUFFICES ASSUME Stalled PROVE FALSE
  OBVIOUS
<1>1. /\ xferInt = "none" /\ ~resetInt /\ ~startReq
      /\ ~(host = "reading" /\ epRes = "ACK" /\ epTog = hostTog)
  BY DEF Stalled
<1>2. genPos # Total
  BY NewStartSeen DEF NoFlipOK
<1>3. genPos # 0
  BY DEF NoFlipOK
<1>4. host = "reading"
  BY <1>1, <1>2, <1>3 DEF RowsOK, Types, StartOK, NoFlipOK
<1>5. epRes = "ACK"
  BY <1>1, <1>4 DEF RowsOK, Types, NoFlipOK
<1>6. epTog = hostTog
  BY <1>1 DEF NoFlipOK
<1> QED
  BY <1>1, <1>4, <1>5, <1>6

LEMMA PumpNoFlip == ASSUME RowsOK, NoFlipOK, Pump PROVE NoFlipOK'
<1> SUFFICES ASSUME budget'.doubleBuffer PROVE NoFlipOK'
  BY DEF NoFlipOK
<1>1. UNCHANGED <<xferInt, resetInt, hostVars>>
  BY DEF Pump, PumpReset, PumpNoRequest, RowBegin, RowEnd, PrefillDone, PumpScan, AheadDone,
     PumpFinish, PumpArm, PumpWatch, PumpFlipRead, PumpFlipWrite, FlipWrite
<1>2. budget.doubleBuffer /\ pc \notin {"flip", "flipWrite"}
  BY <1>1 DEF NoFlipOK, hostVars
<1>3. /\ genPos \in 0 .. Total /\ genRow \in 0 .. Rows /\ Total \in Nat /\ Bufs \in Nat /\ Total > 1
      /\ Bufs >= 2 /\ limit \in Int /\ Rows \in Nat
  BY Sizes DEF RowsOK, Types
<1> USE DEF NoFlipOK
<1>4. CASE PumpReset
  <2>1. LagOK'
    BY <1>3, <1>4 DEF PumpReset, LagOK
  <2> QED
    BY <1>1, <1>2, <1>3, <1>4, <2>1 DEF PumpReset, hostVars
<1>5. CASE PumpNoRequest
  <2>1. LagOK'
    BY <1>2, <1>5 DEF PumpNoRequest, LagOK, epVars
  <2> QED
    BY <1>1, <1>2, <1>5, <2>1 DEF PumpNoRequest, epVars, hostVars
<1>6. CASE RowBegin
  <2>1. LagOK'
    BY <1>2, <1>3, <1>6 DEF RowBegin, MoreRows, LagOK, epVars, RowsOK, PaceOK
  <2> QED
    BY <1>1, <1>2, <1>6, <2>1 DEF RowBegin, epVars, hostVars
<1>7. CASE RowEnd
  <2>1. LagOK'
    BY <1>2, <1>7 DEF RowEnd, LagOK, epVars
  <2> QED
    BY <1>1, <1>2, <1>7, <2>1 DEF RowEnd, epVars, hostVars
<1>8. CASE PrefillDone
  <2>1. LagOK'
    BY <1>2, <1>8 DEF PrefillDone, LagOK, epVars
  <2> QED
    BY <1>1, <1>2, <1>8, <2>1 DEF PrefillDone, epVars, hostVars
<1>9. CASE PumpScan
  <2>1. LagOK'
    <3>1. RowOf(genPos) \in Int /\ RowOf(genPos) <= genRow + 1
      BY <1>3, RowNext DEF RowsOK, PaceOK
    <3> QED
      BY <1>2, <1>3, <1>9, <3>1 DEF PumpScan, Ahead, LagOK, epVars, RowsOK, StartOK
  <2>2. pc' \in {"ahead", "finish"}
    BY <1>9 DEF PumpScan
  <2> QED
    BY <1>1, <1>2, <1>9, <2>1, <2>2 DEF PumpScan, epVars, hostVars
<1>10. CASE AheadDone
  <2>1. LagOK'
    BY <1>2, <1>10 DEF AheadDone, LagOK, epVars, RowsOK, StartOK
  <2> QED
    BY <1>1, <1>2, <1>10, <2>1 DEF AheadDone, epVars, hostVars
<1>11. CASE PumpFinish
  <2>1. active' => active /\ genPos < Total
    BY <1>11 DEF PumpFinish
  <2>2. LagOK'
    BY <1>2, <1>3, <1>11, <2>1 DEF PumpFinish, LagOK, epVars
  <2>3. /\ pc = "finish" /\ pc' = "arm"
        /\ UNCHANGED <<genPos, epRes, epTog, epBusy, startReq, needArm, lastPos>>
    BY <1>11 DEF PumpFinish, epVars
  <2> QED
    BY <1>1, <1>2, <2>1, <2>2, <2>3 DEF hostVars
<1>12. CASE PumpArm
  <2>1. genPos = 0 /\ ~epBusy /\ pc = "arm" /\ needArm /\ host = "reading"
    BY <1>2, <1>12 DEF PumpArm, RowsOK, StartOK
  <2>2. genPos' = 1 /\ epRes' = "ACK" /\ pc' = "top" /\ epTog' = epTog
    BY <1>3, <1>12, <2>1 DEF PumpArm, StartTransfer, FillAndArm
  <2>3. UNCHANGED <<active, lastPos, genRow>>
    BY <1>12 DEF PumpArm
  <2>4. LagOK'
    BY <1>2, <1>3, <2>1, <2>2, <2>3 DEF LagOK
  <2> QED
    BY <1>1, <1>2, <1>3, <2>1, <2>2, <2>3, <2>4 DEF hostVars
<1>13. CASE PumpWatch
  <2>1. pc = "arm" /\ ~needArm /\ pc' \in {"top", "flip"}
        /\ UNCHANGED <<genRow, active, needArm, genPos, epRes, epTog, epBusy, startReq>>
    BY <1>13 DEF PumpWatch, epVars
  <2>2. pc' = "top"
    <3>1. pc' = "flip" => active /\ genPos = lastPos /\ Stalled
      BY <1>13 DEF PumpWatch, CountOver
    <3> QED
      BY <1>2, <2>1, <3>1, NeverStalled
  <2>3. lastPos' \in 0 .. Total
    BY <1>2, <1>3, <1>13 DEF PumpWatch
  <2>4. active => lastPos' = genPos
    BY <1>13 DEF PumpWatch
  <2>5. LagOK'
    BY <2>1, <2>2, <2>4 DEF LagOK
  <2> QED
    BY <1>1, <1>2, <2>1, <2>2, <2>3, <2>5 DEF hostVars
<1>14. CASE PumpFlipRead \/ PumpFlipWrite
  BY <1>2, <1>14 DEF PumpFlipRead, PumpFlipWrite, FlipWrite
<1> QED
  BY <1>4, <1>5, <1>6, <1>7, <1>8, <1>9, <1>10, <1>11, <1>12, <1>13, <1>14 DEF Pump

LEMMA IsrNoFlip == ASSUME RowsOK, NoFlipOK, Isr PROVE NoFlipOK'
<1> SUFFICES ASSUME budget.doubleBuffer PROVE NoFlipOK'
  BY DEF NoFlipOK, Isr, IsrIn, IsrStart, IsrReset, hostVars
<1>1. /\ UNCHANGED <<pumpVars, hostTog, budget>> /\ pc \notin {"flip", "flipWrite"}
      /\ genPos \in 0 .. Total /\ Total \in Nat /\ epTog \in {0, 1} /\ hostTog \in {0, 1}
  BY Sizes DEF NoFlipOK, Isr, IsrIn, IsrStart, IsrReset, hostVars, RowsOK, Types
<1> USE DEF NoFlipOK
<1>2. CASE IsrIn
  <2>1. /\ xferInt = "in" /\ xferInt' = "none" /\ epTog' = 1 - epTog /\ FillAndArm(1 - epTog)
        /\ UNCHANGED <<startReq, resetInt, host>>
    BY <1>2 DEF IsrIn, hostVars
  <2>2. genPos > 0 /\ (host = "reading" <=> genPos < Total)
    BY <1>1, <2>1 DEF RowsOK, ArmedOK
  <2>3. /\ genPos' = (IF genPos < Total THEN genPos + 1 ELSE genPos)
        /\ epRes' = (IF genPos < Total THEN "ACK" ELSE "NAK")
        /\ epBusy' => epRes' = "ACK"
    BY <1>1, <2>1 DEF FillAndArm
  <2>4. genPos = Total => genPos' = genPos
    BY <1>1, <2>3
  <2>5. LagOK'
    BY <1>1, <2>4 DEF LagOK, pumpVars
  <2>6. ~resetInt' => (epTog' = hostTog' <=> xferInt' # "in")
    BY <1>1, <2>1
  <2> QED
    BY <1>1, <2>1, <2>2, <2>3, <2>5, <2>6 DEF pumpVars
<1>3. CASE IsrStart
  BY <1>1, <1>3 DEF IsrStart, LagOK, pumpVars, epVars
<1>4. CASE IsrReset
  <2>1. host = "idle"
    BY <1>4 DEF IsrReset, RowsOK, StartOK
  <2> QED
    BY <1>1, <1>4, <2>1 DEF IsrReset, LagOK, pumpVars, hostVars
<1> QED
  BY <1>2, <1>3, <1>4 DEF Isr

LEMMA HostNoFlip == ASSUME RowsOK, NoFlipOK, Host PROVE NoFlipOK'
<1>1. /\ UNCHANGED <<pumpVars, genPos, epBusy, startReq>>
      /\ budget'.doubleBuffer = budget.doubleBuffer
  BY SpendTyped DEF Host, HostStart, HostReopen, ClearHalt, BusReset, HostTake, epVars, RowsOK
<1> SUFFICES ASSUME budget.doubleBuffer PROVE NoFlipOK'
  BY <1>1 DEF NoFlipOK
<1>2. epTog \in {0, 1} /\ hostTog \in {0, 1} /\ budget.aborts = FALSE
  BY DEF RowsOK, Types, Use, PacedUse
<1>3. LagOK'
  BY <1>1 DEF NoFlipOK, LagOK, pumpVars
<1> USE DEF NoFlipOK
<1>4. CASE HostStart
  BY <1>1, <1>3, <1>4 DEF HostStart, BusQuiet, pumpVars, epVars
<1>5. CASE HostReopen
  BY <1>5, SpendTyped DEF HostReopen, RowsOK
<1>6. CASE ClearHalt
  <2>1. host = "idle" /\ xferInt = "none" /\ ~resetInt /\ epRes = "NAK"
    BY <1>2, <1>6, IdleUnarmed DEF ClearHalt, BusQuiet
  <2> QED
    BY <1>1, <1>3, <1>6, <2>1 DEF ClearHalt, pumpVars
<1>7. CASE BusReset
  <2>1. host = "idle"
    BY <1>2, <1>7 DEF BusReset
  <2> QED
    BY <1>1, <1>3, <1>7, <2>1 DEF BusReset, pumpVars, epVars
<1>8. CASE HostTake
  <2>1. hostTog' = 1 - hostTog /\ epTog = hostTog /\ epRes = "ACK" /\ xferInt' = "in"
        /\ ~resetInt /\ UNCHANGED <<epRes, epTog, resetInt>>
    BY <1>8 DEF HostTake, BusQuiet, epVars
  <2>2. epTog' # hostTog'
    BY <1>2, <2>1
  <2> QED
    BY <1>1, <1>3, <2>1, <2>2 DEF pumpVars
<1> QED
  BY <1>4, <1>5, <1>6, <1>7, <1>8 DEF Host

LEMMA NoFlipStep == IInv /\ [Next]_vars => NoFlipOK'
<1> SUFFICES ASSUME RowsOK, NoFlipOK, [Next]_vars PROVE NoFlipOK'
  BY DEF IInv
<1>1. CASE UNCHANGED vars
  BY <1>1 DEF vars, pumpVars, epVars, hostVars, NoFlipOK, LagOK
<1> QED
  BY <1>1, PumpNoFlip, IsrNoFlip, HostNoFlip DEF Next

LEMMA IInvInit == Paced /\ Init => IInv
<1> SUFFICES ASSUME Paced, Init PROVE IInv
  OBVIOUS
<1>1. budget \in Use /\ PacedUse(budget)
  BY ConstantsAssumption DEF Init, Paced
<1>2. Types /\ InOrder
  BY <1>1, Sizes DEF Init, Types, InOrder, Torn, Nowhere
<1>3. RowOf(0) \in Int /\ RowOf(0) <= 0
  BY FirstRows
<1>4. WindowOK /\ PaceOK /\ ArmedOK /\ StartOK /\ FlipOK
  BY <1>3 DEF Init, WindowOK, PaceOK, ArmedOK, StartOK, FlipOK
<1>5. NoFlipOK
  BY Sizes DEF Init, NoFlipOK, LagOK
<1> QED
  BY <1>2, <1>4, <1>5 DEF IInv, RowsOK

LEMMA RowsStep == IInv /\ [Next]_vars => RowsOK'
<1> SUFFICES ASSUME RowsOK, NoFlipOK, [Next]_vars PROVE RowsOK'
  BY DEF IInv
<1>1. CASE Pump
  BY <1>1, PumpResetKeeps, RowBeginKeeps, RowEndKeeps, PumpMovesKeep, PumpArmKeeps, FlipKeeps
     DEF Pump
<1>2. CASE IsrIn
  BY <1>2, IsrInKeeps
<1>3. CASE IsrStart
  BY <1>3, IsrStartKeeps
<1>4. CASE HostTake
  BY <1>4, HostTakeKeeps
<1>5. CASE HostStart \/ HostReopen \/ ClearHalt \/ BusReset \/ IsrReset
  BY <1>5, BusKeeps
<1>6. CASE UNCHANGED vars
  BY <1>6, SameRows DEF vars, pumpVars, epVars, hostVars, RowsOK, Types, PaceOK, ArmedOK, DmaReg,
     StartOK, FlipOK, InOrder, Holds, Ahead
<1> QED
  BY <1>1, <1>2, <1>3, <1>4, <1>5, <1>6 DEF Next, Isr, Host

LEMMA IInvStep == IInv /\ [Next]_vars => IInv'
  BY RowsStep, NoFlipStep DEF IInv

(***************************************************************************)
(* Theorems.                                                               *)
(***************************************************************************)

\* ch585m/app/filexfer.c and ch32v307/app/filexfer.c: the row EP2 sends from is
\* generated, and no row of those generated ahead is written over it.
THEOREM ZeroCopy == Paced => (Spec => []DmaRowIntact)
<1> SUFFICES ASSUME Paced PROVE Spec => []DmaRowIntact
  OBVIOUS
<1>1. Init => IInv
  BY IInvInit
<1>2. IInv => DmaRowIntact
  BY ArmedContent DEF DmaRowIntact, IInv
<1> QED
  BY <1>1, <1>2, IInvStep, PTL DEF Spec

\* ch32v307/app/filexfer.c: as long as whatever can move does so before the count
\* is over, the watch of FileXfer_Pump takes no download for stuck, and the flip of
\* toggle and pointer register is left to hosts that reset their toggle.
THEOREM NoSelfHeal == Paced => (Spec => [](budget.doubleBuffer => pc \notin {"flip", "flipWrite"}))
<1> SUFFICES ASSUME Paced PROVE Spec => [](budget.doubleBuffer => pc \notin {"flip", "flipWrite"})
  OBVIOUS
<1>1. Init => IInv
  BY IInvInit
<1>2. IInv => (budget.doubleBuffer => pc \notin {"flip", "flipWrite"})
  BY DEF IInv, NoFlipOK
<1> QED
  BY <1>1, <1>2, IInvStep, PTL DEF Spec

LEMMA DownloadStep == IInv /\ [Next]_vars => [Download!DownloadNext]_(Download!fdVars)
<1> SUFFICES ASSUME IInv, [Next]_vars
             PROVE  Download!DownloadNext \/ UNCHANGED Download!fdVars
  OBVIOUS
<1>1. CASE Pump
  BY <1>1 DEF Pump, PumpReset, PumpNoRequest, RowBegin, RowEnd, PrefillDone, PumpScan, AheadDone,
     PumpFinish, PumpArm, PumpWatch, PumpFlipRead, PumpFlipWrite, FlipWrite, hostVars,
     Download!fdVars
<1>2. CASE IsrIn \/ IsrReset
  BY <1>2 DEF IsrIn, IsrReset, hostVars, Download!fdVars
<1>3. CASE IsrStart
  <2>1. host = "starting" /\ got = << >> /\ host' = "reading" /\ got' = got
    BY <1>3 DEF IsrStart, IInv, RowsOK, StartOK
  <2> QED
    BY <2>1 DEF Download!DownloadNext, Download!Begin
<1>4. CASE HostStart
  <2>1. host = "idle" /\ host' = "starting" /\ got' = << >>
    BY <1>4 DEF HostStart, IInv, RowsOK, Types, PacedUse
  <2> QED
    BY <2>1 DEF Download!DownloadNext, Download!Request
<1>5. CASE HostReopen \/ ClearHalt \/ BusReset
  BY <1>5 DEF HostReopen, ClearHalt, BusReset, IInv, RowsOK, Types, PacedUse, Download!fdVars
<1>6. CASE HostTake
  <2>1. /\ host = "reading" /\ got' = Append(got, Len(got))
        /\ host' = IF Len(got') < Total THEN "reading" ELSE "idle"
    BY <1>6, HostTakeKeeps DEF HostTake, IInv
  <2> QED
    BY <2>1 DEF Download!DownloadNext, Download!Deliver
<1>7. CASE UNCHANGED vars
  BY <1>7 DEF vars, hostVars, Download!fdVars
<1> QED
  BY <1>1, <1>2, <1>3, <1>4, <1>5, <1>6, <1>7 DEF Next, Isr, Host

\* Both boards do what FileDownload promises, but for that a download ends: a
\* request is answered with the file, first packet to last.
THEOREM DownloadInOrder == Paced => (Spec => Download!DownloadOrder)
<1> SUFFICES ASSUME Paced PROVE Spec => Download!DownloadOrder
  OBVIOUS
<1>1. Init => IInv
  BY IInvInit
<1>2. Init => Download!InitDownload
  BY DEF Init, Download!InitDownload
<1> QED
  BY <1>1, <1>2, IInvStep, DownloadStep, PTL DEF Spec, Download!DownloadOrder
=============================================================================
