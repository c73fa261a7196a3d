----------------------------- MODULE UartProofs -----------------------------
(***************************************************************************)
(* Proofs about the debug UART transmitters, for every size of ring and of *)
(* FIFO and every sequence of writes: CH592F sends every byte it accepted  *)
(* in order and loses no kick, and CH32V307 leaves its channel at work.    *)
(***************************************************************************)
EXTENDS DebugUart, TLAPS

(***************************************************************************)
(* Arithmetic modulo C, which is how an index into a ring is computed.     *)
(***************************************************************************)

LEMMA ModRange == ASSUME NEW C \in Nat \ {0}, NEW x \in Int PROVE x % C \in 0 .. C - 1
  OBVIOUS

LEMMA ModUnique ==
    ASSUME NEW C \in Nat \ {0}, NEW q \in Int, NEW r \in 0 .. C - 1
    PROVE  (C * q + r) % C = r
  OBVIOUS

\* Whole turns do not show.
LEMMA ModShift ==
    ASSUME NEW C \in Nat \ {0}, NEW x \in Int, NEW q \in Int
    PROVE  (x + C * q) % C = x % C
<1>1. x + C * q = C * (x \div C + q) + (x % C)
  OBVIOUS
<1>2. x % C \in 0 .. C - 1 /\ x \div C \in Int /\ x \div C + q \in Int
  OBVIOUS
<1> QED
  BY <1>1, <1>2, ModUnique

\* A number may be added to, or taken from another, before or after its
\* modulus is taken.
LEMMA ModArith ==
    ASSUME NEW C \in Nat \ {0}, NEW n \in Int, NEW a \in Int
    PROVE  /\ (n - (a % C)) % C = (n - a) % C
           /\ ((a % C) + n) % C = (a + n) % C
<1>1. n - (a % C) = (n - a) + C * (a \div C) /\ a + n = ((a % C) + n) + C * (a \div C)
  OBVIOUS
<1>2. n - a \in Int /\ (a % C) + n \in Int /\ a \div C \in Int
  OBVIOUS
<1>3. ((n - a) + C * (a \div C)) % C = (n - a) % C
  BY <1>2, ModShift
<1>4. (((a % C) + n) + C * (a \div C)) % C = ((a % C) + n) % C
  BY <1>2, ModShift
<1> QED
  BY <1>1, <1>3, <1>4

\* Numbers less than C apart are the same modulo C only if they are equal.
LEMMA ModDistinct ==
    ASSUME NEW C \in Nat \ {0}, NEW a \in Int, NEW b \in Int, a - b < C, b - a < C, a % C = b % C
    PROVE  a = b
<1>1. a = C * (a \div C) + (a % C) /\ b = C * (b \div C) + (b % C)
  OBVIOUS
<1>2. C * (a \div C - b \div C) < C /\ C * (b \div C - a \div C) < C
  BY <1>1
<1> QED
  BY <1>1, <1>2

LEMMA BoardStays == [Next]_vars => board' = board
  BY DEF Next, Write, Isr, vars, WriteBegin, WriteByte, WritePublish, KickTest, KickLoad,
     KickEnable, DmaKickTest, DmaKick, IsrEnter, IsrByte, IsrLeave, DmaComplete, Shift, DmaByte

(***************************************************************************)
(* Kicks.                                                                  *)
(***************************************************************************)

\* CH592F: the interrupt is disabled with bytes waiting only while the write
\* that published them has yet to kick.
KickInv ==
    board = "CH592" =>
        /\ pc # "start" /\ ~tc /\ cntr = 0 /\ (isr => ier)
        /\ s_head # s_tail /\ ~ier => pc \in {"kick", "load", "store"}

\* Every step is one of the writer's, of an interrupt's, or of the hardware.
LEMMA KickStep == KickInv /\ [Next]_vars => KickInv'
<1> SUFFICES ASSUME KickInv, [Next]_vars PROVE KickInv'
  OBVIOUS
<1> USE DEF KickInv
<1>1. CASE WriteBegin
  BY <1>1 DEF WriteBegin, fifoVars, dmaVars
<1>2. CASE WriteByte
  BY <1>2 DEF WriteByte, fifoVars, dmaVars
<1>3. CASE WritePublish
  BY <1>3 DEF WritePublish, fifoVars, dmaVars
<1>4. CASE KickTest
  BY <1>4 DEF KickTest, fifoVars, dmaVars
<1>5. CASE KickLoad
  BY <1>5 DEF KickLoad, fifoVars, dmaVars
<1>6. CASE KickEnable
  BY <1>6 DEF KickEnable, fifoVars, dmaVars
<1>7. CASE DmaKickTest
  BY <1>7 DEF DmaKickTest
<1>8. CASE DmaKick
  BY <1>8 DEF DmaKick
<1>9. CASE IsrEnter
  BY <1>9 DEF IsrEnter, writeVars, dmaVars
<1>10. CASE IsrByte
  BY <1>10 DEF IsrByte, writeVars, dmaVars
<1>11. CASE IsrLeave
  BY <1>11 DEF IsrLeave, writeVars, dmaVars
<1>12. CASE DmaComplete
  BY <1>12 DEF DmaComplete
<1>13. CASE Shift
  BY <1>13 DEF Shift, writeVars, dmaVars
<1>14. CASE DmaByte
  BY <1>14 DEF DmaByte, writeVars, fifoVars
<1>15. CASE UNCHANGED vars
  BY <1>15 DEF vars, writeVars, fifoVars, dmaVars
<1> QED
  BY <1>1, <1>2, <1>3, <1>4, <1>5, <1>6, <1>7, <1>8, <1>9, <1>10, <1>11, <1>12, <1>13,
     <1>14, <1>15 DEF Next, Write, Isr

\* uart_tx.c: no lost kick.
THEOREM NoLostKick == Spec => []KickNotLost
<1>1. Init => KickInv
  BY DEF Init, KickInv
<1>2. KickInv => KickNotLost
  BY DEF KickInv, KickNotLost
<1> QED
  BY <1>1, <1>2, KickStep, PTL DEF Spec

(***************************************************************************)
(* CH592F: order.                                                          *)
(***************************************************************************)

Taken == Len(sent) + Len(fifo)

\* Bytes taken out of the ring come first, without a gap, and the bytes not yet
\* taken, which are fewer than the ring has slots, are each in its slot.  The
\* published head is that of some number of bytes between the two.
OrderTypes ==
    /\ buf \in [Indices -> Nat] /\ sent \in Seq(Nat) /\ fifo \in Seq(Nat)
    /\ accepted \in Nat

OrderInv ==
    board = "CH592" =>
        /\ OrderTypes
        /\ \A k \in 1 .. Len(sent) : sent[k] = k
        /\ \A k \in 1 .. Len(fifo) : fifo[k] = Len(sent) + k
        /\ Taken <= accepted /\ accepted - Taken < BufSize
        /\ \A k \in Taken + 1 .. accepted : buf[(k - 1) % BufSize] = k
        /\ s_tail = Taken % BufSize
        /\ \E p \in Taken .. accepted : s_head = p % BufSize
        /\ pc = "copy" => head = accepted % BufSize
        /\ pc # "copy" => s_head = accepted % BufSize

\* The next byte goes to a slot that no byte still in the ring has.
LEMMA Distinct ==
    ASSUME NEW a \in Nat, NEW t \in Nat, t <= a, a - t < BufSize,
           (a + 1) % BufSize # t % BufSize
    PROVE  /\ a + 1 - t < BufSize
           /\ \A k \in t + 1 .. a : (k - 1) % BufSize # a % BufSize
<1>0. BufSize \in Nat \ {0}
  BY ConstantsAssumption
<1>1. a + 1 - t < BufSize
  <2>1. ASSUME a + 1 = t + BufSize PROVE FALSE
    <3>1. (t + BufSize * 1) % BufSize = t % BufSize
      <4>1. t \in Int /\ 1 \in Int
        OBVIOUS
      <4> QED
        BY <1>0, <4>1, ModShift
    <3>2. t + BufSize * 1 = a + 1
      BY <1>0, <2>1
    <3> QED
      BY <3>1, <3>2
  <2>2. a + 1 # t + BufSize
    BY <2>1
  <2> QED
    BY <1>0, <2>2
<1>2. ASSUME NEW k \in t + 1 .. a, (k - 1) % BufSize = a % BufSize PROVE FALSE
  <2>1. k - 1 \in Int /\ a \in Int /\ a - (k - 1) < BufSize /\ (k - 1) - a < BufSize
        /\ k - 1 # a
    BY <1>0
  <2> QED
    BY <1>0, <1>2, <2>1, ModDistinct
<1> QED
  BY <1>1, <1>2

\* (i + 1) & TX_BUF_MASK is the index of the next byte.
LEMMA AfterNext ==
    ASSUME NEW a \in Nat
    PROVE  After(a % BufSize) = (a + 1) % BufSize /\ a % BufSize \in Indices
<1>0. BufSize \in Nat \ {0} /\ a \in Int /\ 1 \in Int
  BY ConstantsAssumption
<1>1. ((a % BufSize) + 1) % BufSize = (a + 1) % BufSize
  BY <1>0, ModArith
<1>2. a % BufSize \in 0 .. BufSize - 1
  BY <1>0, ModRange
<1> QED
  BY <1>1, <1>2 DEF After, Indices

LEMMA OrderStep == OrderInv /\ KickInv /\ [Next]_vars => OrderInv'
<1> SUFFICES ASSUME OrderInv, KickInv, [Next]_vars PROVE OrderInv'
  OBVIOUS
<1>a. board' = board
  BY BoardStays
<1> SUFFICES ASSUME board = "CH592" PROVE OrderInv'
  BY <1>a DEF OrderInv
<1>b. /\ OrderTypes
      /\ \A k \in 1 .. Len(sent) : sent[k] = k
      /\ \A k \in 1 .. Len(fifo) : fifo[k] = Len(sent) + k
      /\ Taken <= accepted /\ accepted - Taken < BufSize
      /\ \A k \in Taken + 1 .. accepted : buf[(k - 1) % BufSize] = k
      /\ s_tail = Taken % BufSize
      /\ \E p \in Taken .. accepted : s_head = p % BufSize
      /\ pc = "copy" => head = accepted % BufSize
      /\ pc # "copy" => s_head = accepted % BufSize
  BY DEF OrderInv
<1>c. pc # "start" /\ ~tc /\ cntr = 0
  BY DEF KickInv
<1>d. /\ BufSize \in Nat \ {0} /\ accepted \in Nat
      /\ Len(sent) \in Nat /\ Len(fifo) \in Nat /\ Taken \in Nat
  <2>1. BufSize \in Nat \ {0}
    BY ConstantsAssumption
  <2>2. accepted \in Nat /\ Len(sent) \in Nat /\ Len(fifo) \in Nat
    BY <1>b DEF OrderTypes
  <2>3. Taken \in Nat
    BY <2>2 DEF Taken
  <2> QED
    BY <2>1, <2>2, <2>3
<1>1. ASSUME UNCHANGED <<buf, s_head, s_tail, accepted, sent, fifo>>,
             pc' = "copy" => head' = accepted % BufSize,
             pc' # "copy" => s_head = accepted % BufSize
      PROVE  OrderInv'
  BY <1>b, <1>c, <1>d, <1>1 DEF OrderInv, OrderTypes, Taken
<1>2. CASE WriteBegin
  BY <1>b, <1>c, <1>d, <1>1, <1>2 DEF WriteBegin, fifoVars
<1>3. CASE WriteByte
  <2>1. /\ pc = "copy" /\ pc' = "copy" /\ After(head) # s_tail
        /\ buf' = [buf EXCEPT ![head] = accepted + 1]
        /\ accepted' = accepted + 1 /\ head' = After(head)
        /\ UNCHANGED <<s_head, s_tail, sent, fifo>>
    BY <1>3 DEF WriteByte, fifoVars
  <2>2. head = accepted % BufSize /\ accepted \in Nat
    BY <1>b, <1>c, <1>d, <2>1 DEF OrderTypes
  <2>3. After(head) = (accepted + 1) % BufSize /\ head \in Indices
    BY <2>2, AfterNext
  <2>4. /\ accepted + 1 - Taken < BufSize
        /\ \A k \in Taken + 1 .. accepted : (k - 1) % BufSize # head
    BY <1>b, <1>c, <1>d, <2>1, <2>2, <2>3, Distinct
  <2>5. buf' \in [Indices -> Nat] /\ buf'[head] = accepted + 1
        /\ \A j \in Indices : j # head => buf'[j] = buf[j]
    BY <1>b, <1>c, <1>d, <2>1, <2>2, <2>3 DEF OrderTypes
  <2>6. \A k \in Taken + 1 .. accepted + 1 : buf'[(k - 1) % BufSize] = k
    <3>1. ASSUME NEW k \in Taken + 1 .. accepted + 1 PROVE buf'[(k - 1) % BufSize] = k
      <4>1. CASE k = accepted + 1
        BY <2>2, <2>5, <4>1
      <4>2. CASE k # accepted + 1
        <5>1. k \in Taken + 1 .. accepted /\ k - 1 \in Nat
          BY <1>b, <1>c, <1>d, <2>2, <4>2
        <5>2. (k - 1) % BufSize \in Indices
          BY <5>1, AfterNext
        <5> QED
          BY <1>b, <1>c, <1>d, <2>4, <2>5, <5>1, <5>2
      <4> QED
        BY <4>1, <4>2
    <3> QED
      BY <3>1
  <2>7. \E p \in Taken .. accepted + 1 : s_head = p % BufSize
    <3>1. PICK p \in Taken .. accepted : s_head = p % BufSize
      BY <1>b, <1>c, <1>d
    <3>2. p \in Taken .. accepted + 1
      BY <1>b, <1>c, <1>d
    <3> QED
      BY <3>1, <3>2
  <2>8. Taken' = Taken
    BY <2>1 DEF Taken
  <2>9. OrderTypes'
    BY <1>b, <1>d, <2>1, <2>5 DEF OrderTypes
  <2>10. accepted' = accepted + 1 /\ Taken <= accepted + 1 /\ head' = (accepted + 1) % BufSize
    BY <1>b, <1>d, <2>1, <2>3
  <2>11. /\ \A k \in 1 .. Len(sent') : sent'[k] = k
         /\ \A k \in 1 .. Len(fifo') : fifo'[k] = Len(sent') + k
    BY <1>b, <2>1
  <2>12. /\ Taken' <= accepted' /\ accepted' - Taken' < BufSize
         /\ s_tail' = Taken' % BufSize
    BY <1>b, <1>d, <2>1, <2>4, <2>8, <2>10
  <2>13. \A k \in Taken' + 1 .. accepted' : buf'[(k - 1) % BufSize] = k
    BY <2>6, <2>8, <2>10
  <2>14. \E p \in Taken' .. accepted' : s_head' = p % BufSize
    BY <2>1, <2>7, <2>8, <2>10
  <2> QED
    BY <2>1, <2>9, <2>10, <2>11, <2>12, <2>13, <2>14 DEF OrderInv
<1>4. CASE WritePublish
  <2>1. /\ pc = "copy" /\ pc' = "kick" /\ s_head' = head
        /\ UNCHANGED <<buf, head, accepted, s_tail, sent, fifo>>
    BY <1>4 DEF WritePublish, fifoVars
  <2>2. \E p \in Taken .. accepted : s_head' = p % BufSize
    <3>1. accepted \in Taken .. accepted
      BY <1>b, <1>c, <1>d
    <3> QED
      BY <1>b, <1>c, <1>d, <2>1, <3>1
  <2>3. Taken' = Taken
    BY <2>1 DEF Taken
  <2> QED
    BY <1>b, <1>c, <1>d, <2>1, <2>2, <2>3 DEF OrderInv, OrderTypes
<1>5. CASE KickTest \/ KickLoad \/ KickEnable
  BY <1>b, <1>c, <1>d, <1>1, <1>5 DEF KickTest, KickLoad, KickEnable, fifoVars
<1>6. CASE DmaKickTest \/ DmaKick \/ DmaComplete \/ DmaByte
  BY <1>b, <1>c, <1>d, <1>6 DEF DmaKickTest, DmaKick, DmaComplete, DmaByte
<1>7. CASE IsrEnter \/ IsrLeave
  BY <1>b, <1>c, <1>d, <1>1, <1>7 DEF IsrEnter, IsrLeave, writeVars
<1>8. CASE IsrByte
  <2>1. /\ s_head # s_tail /\ fifo' = Append(fifo, buf[s_tail]) /\ s_tail' = After(s_tail)
        /\ UNCHANGED <<buf, s_head, pc, head, accepted, sent>>
    BY <1>8 DEF IsrByte, writeVars
  <2>2. s_tail = Taken % BufSize /\ Taken + 1 \in Taken + 1 .. accepted
        /\ \E p \in Taken + 1 .. accepted : s_head = p % BufSize
    <3>1. PICK p \in Taken .. accepted : s_head = p % BufSize
      BY <1>b, <1>c, <1>d
    <3>2. p # Taken
      BY <1>b, <1>c, <1>d, <2>1, <3>1
    <3>3. p \in Taken + 1 .. accepted /\ Taken + 1 \in Taken + 1 .. accepted
      BY <1>b, <1>c, <1>d, <3>2
    <3> QED
      BY <1>b, <1>c, <1>d, <3>1, <3>3
  <2>3. buf[s_tail] = Taken + 1 /\ s_tail' = (Taken + 1) % BufSize
    <3>1. (Taken + 1) - 1 = Taken
      BY <1>b, <1>c, <1>d
    <3>2. buf[((Taken + 1) - 1) % BufSize] = Taken + 1
      BY <1>b, <1>c, <1>d, <2>2
    <3> QED
      BY <1>b, <1>c, <1>d, <2>1, <2>2, <3>1, <3>2, AfterNext
  <2>4. fifo' = Append(fifo, Taken + 1)
    BY <2>1, <2>3
  <2>5. /\ fifo' \in Seq(Nat) /\ Len(fifo') = Len(fifo) + 1
        /\ \A k \in 1 .. Len(fifo) : fifo'[k] = fifo[k]
        /\ fifo'[Len(fifo) + 1] = Taken + 1
    BY <1>b, <1>c, <1>d, <2>4 DEF OrderTypes
  <2>6. \A k \in 1 .. Len(fifo') : fifo'[k] = Len(sent) + k
    <3>1. ASSUME NEW k \in 1 .. Len(fifo') PROVE fifo'[k] = Len(sent) + k
      <4>1. CASE k = Len(fifo) + 1
        BY <1>d, <2>5, <4>1 DEF Taken
      <4>2. CASE k # Len(fifo) + 1
        <5>1. k \in 1 .. Len(fifo)
          BY <1>d, <2>5, <4>2
        <5> QED
          BY <1>b, <2>5, <5>1
      <4> QED
        BY <4>1, <4>2
    <3> QED
      BY <3>1
  <2>7. Taken' = Taken + 1
    BY <1>b, <1>c, <1>d, <2>1, <2>5 DEF Taken
  <2>8. /\ Taken + 1 <= accepted /\ accepted - (Taken + 1) < BufSize
        /\ \A k \in (Taken + 1) + 1 .. accepted : buf[(k - 1) % BufSize] = k
    BY <1>b, <1>c, <1>d, <2>2
  <2> QED
    BY <1>b, <1>c, <1>d, <2>1, <2>2, <2>3, <2>5, <2>6, <2>7, <2>8 DEF OrderInv, OrderTypes
<1>9. CASE Shift
  <2>1. /\ fifo # << >> /\ sent' = Append(sent, Head(fifo)) /\ fifo' = Tail(fifo)
        /\ UNCHANGED <<buf, s_head, s_tail, pc, head, accepted>>
    BY <1>9 DEF Shift, writeVars
  <2>2. Head(fifo) = Len(sent) + 1 /\ Len(fifo) > 0
    BY <1>b, <1>c, <1>d, <2>1 DEF OrderTypes
  <2>3. /\ sent' \in Seq(Nat) /\ Len(sent') = Len(sent) + 1
        /\ \A k \in 1 .. Len(sent') : sent'[k] = k
    BY <1>b, <1>c, <1>d, <2>1, <2>2 DEF OrderTypes
  <2>4. /\ fifo' \in Seq(Nat) /\ Len(fifo') = Len(fifo) - 1
        /\ \A k \in 1 .. Len(fifo') : fifo'[k] = Len(sent) + 1 + k
    BY <1>b, <1>c, <1>d, <2>1, <2>2 DEF OrderTypes
  <2>5. Taken' = Taken
    BY <1>b, <1>c, <1>d, <2>3, <2>4 DEF Taken
  <2> QED
    BY <1>b, <1>c, <1>d, <2>1, <2>3, <2>4, <2>5 DEF OrderInv, OrderTypes
<1>10. CASE UNCHANGED vars
  BY <1>b, <1>c, <1>d, <1>1, <1>10 DEF vars, writeVars, fifoVars
<1> QED
  BY <1>2, <1>3, <1>4, <1>5, <1>6, <1>7, <1>8, <1>9, <1>10 DEF Next, Write, Isr

\* uart_tx.c: what leaves the UART is what was accepted, in order.
THEOREM SentInOrder == Spec => []InOrder
<1>1. Init => OrderInv /\ KickInv
  <2> SUFFICES ASSUME Init PROVE OrderInv /\ KickInv
    OBVIOUS
  <2>1. 0 % BufSize = 0 /\ buf \in [Indices -> Nat]
    BY ConstantsAssumption DEF Init
  <2>2. sent = << >> /\ fifo = << >> /\ accepted = 0 /\ Taken = 0
    BY DEF Init, Taken
  <2> QED
    BY <2>1, <2>2, ConstantsAssumption DEF Init, OrderInv, OrderTypes, KickInv
<1>2. OrderInv => InOrder
  <2> SUFFICES ASSUME OrderInv, board = "CH592", NEW k \in 1 .. Len(sent) + Len(fifo)
               PROVE  (sent \o fifo)[k] = k
    BY DEF InOrder
  <2>1. sent \in Seq(Nat) /\ fifo \in Seq(Nat) /\ Len(sent) \in Nat /\ Len(fifo) \in Nat
    BY DEF OrderInv, OrderTypes
  <2>2. CASE k <= Len(sent)
    BY <2>1, <2>2 DEF OrderInv
  <2>3. CASE k > Len(sent)
    <3>1. k - Len(sent) \in 1 .. Len(fifo)
      BY <2>1, <2>3
    <3>2. fifo[k - Len(sent)] = Len(sent) + (k - Len(sent))
      BY <3>1 DEF OrderInv
    <3> QED
      BY <2>1, <2>3, <3>2
  <2> QED
    BY <2>1, <2>2, <2>3
<1> QED
  BY <1>1, <1>2, KickStep, OrderStep, PTL DEF Spec

(***************************************************************************)
(* CH32V307: the channel.                                                  *)
(***************************************************************************)

\* Bytes wait without the channel at work only while the write that published
\* them has yet to kick, and an active channel has bytes left or an interrupt
\* pending, which takes it up again.
BusyInv ==
    board = "CH32V307" =>
        /\ {s_head, s_tail, head} \subseteq Indices /\ cntr \in Nat
        /\ pc \notin {"load", "store"} /\ ~ier /\ ~isr
        /\ s_dmaActive => cntr > 0 \/ tc
        /\ s_head # s_tail /\ ~s_dmaActive => pc \in {"kick", "start"}

\* UartDma_StartChunk leaves the channel idle only with the ring empty.
LEMMA ChunkStarts ==
    ASSUME s_head \in Indices, NEW t \in Indices, StartChunk(t), cntr \in Nat
    PROVE  /\ cntr' \in Nat
           /\ s_dmaActive' => cntr' > 0
           /\ ~s_dmaActive' => s_head = t
<1> DEFINE avail == (s_head - t) % BufSize
<1>1. BufSize \in Nat \ {0} /\ s_head \in Int /\ t \in Int /\ BufSize - t > 0
      /\ s_head - t < BufSize /\ t - s_head < BufSize
  BY ConstantsAssumption DEF Indices
<1>2. avail \in 0 .. BufSize - 1
  <2>1. s_head - t \in Int
    BY <1>1
  <2> QED
    BY <1>1, <2>1, ModRange
<1>3. avail = 0 => s_head = t
  <2>1. ASSUME avail = 0 PROVE s_head - t = 0
    <3>1. s_head - t \in Int /\ 0 \in Int /\ 0 % BufSize = 0
          /\ (s_head - t) - 0 < BufSize /\ 0 - (s_head - t) < BufSize
      BY <1>1
    <3> QED
      BY <1>1, <2>1, <3>1, ModDistinct
  <2> QED
    BY <1>1, <2>1
<1>4. CASE avail = 0
  BY <1>3, <1>4 DEF StartChunk
<1>5. CASE avail # 0
  <2>1. s_dmaActive' = TRUE /\ cntr' = Smaller(avail, BufSize - t)
    BY <1>5 DEF StartChunk
  <2> HIDE DEF avail
  <2>2. cntr' \in Nat /\ cntr' > 0
    BY <1>1, <1>2, <1>5, <2>1 DEF Smaller
  <2> QED
    BY <2>1, <2>2
<1> QED
  BY <1>4, <1>5

LEMMA BusyStep == BusyInv /\ [Next]_vars => BusyInv'
<1> SUFFICES ASSUME BusyInv, [Next]_vars PROVE BusyInv'
  OBVIOUS
<1>a. board' = board
  BY BoardStays
<1> SUFFICES ASSUME board = "CH32V307" PROVE BusyInv'
  BY <1>a DEF BusyInv
<1>b. /\ s_head \in Indices /\ s_tail \in Indices /\ head \in Indices /\ cntr \in Nat
      /\ pc \notin {"load", "store"} /\ ~ier /\ ~isr
      /\ s_dmaActive => cntr > 0 \/ tc
      /\ s_head # s_tail /\ ~s_dmaActive => pc \in {"kick", "start"}
  BY DEF BusyInv
<1>1. CASE WriteBegin
  BY <1>b, <1>1 DEF WriteBegin, BusyInv, fifoVars, dmaVars
<1>2. CASE WriteByte
  <2>1. After(head) \in Indices
    <3>1. BufSize \in Nat \ {0} /\ head + 1 \in Int
      BY <1>b, ConstantsAssumption DEF Indices
    <3> QED
      BY <3>1, ModRange DEF After, Indices
  <2> QED
    BY <1>b, <1>2, <2>1 DEF WriteByte, BusyInv, fifoVars, dmaVars
<1>3. CASE WritePublish
  BY <1>b, <1>3 DEF WritePublish, BusyInv, fifoVars, dmaVars
<1>4. CASE KickTest \/ KickLoad \/ KickEnable
  BY <1>b, <1>4 DEF KickTest, KickLoad, KickEnable
<1>5. CASE DmaKickTest
  BY <1>b, <1>5 DEF DmaKickTest, BusyInv, fifoVars, dmaVars
<1>6. CASE DmaKick
  <2>1. /\ pc' = "idle" /\ StartChunk(s_tail)
        /\ UNCHANGED <<s_head, head, s_tail, ier, isr>>
    BY <1>6 DEF DmaKick, fifoVars
  <2>2. cntr' \in Nat /\ (s_dmaActive' => cntr' > 0) /\ (~s_dmaActive' => s_head = s_tail)
    BY <1>b, <2>1, ChunkStarts
  <2> QED
    BY <1>b, <2>1, <2>2 DEF BusyInv
<1>7. CASE IsrEnter \/ IsrByte \/ IsrLeave
  BY <1>b, <1>7 DEF IsrEnter, IsrByte, IsrLeave
<1>8. CASE DmaComplete
  <2>1. /\ s_tail' = (s_tail + cntr) % BufSize /\ StartChunk(s_tail')
        /\ UNCHANGED <<s_head, head, pc, ier, isr>>
    BY <1>8 DEF DmaComplete, writeVars, fifoVars
  <2>2. s_tail' \in Indices
    <3>1. BufSize \in Nat \ {0} /\ s_tail + cntr \in Int
      BY <1>b, ConstantsAssumption DEF Indices
    <3> QED
      BY <2>1, <3>1, ModRange DEF Indices
  <2>3. cntr' \in Nat /\ (s_dmaActive' => cntr' > 0) /\ (~s_dmaActive' => s_head = s_tail')
    BY <1>b, <2>1, <2>2, ChunkStarts
  <2> QED
    BY <1>b, <2>1, <2>2, <2>3 DEF BusyInv
<1>9. CASE Shift
  BY <1>b, <1>9 DEF Shift, BusyInv, writeVars, dmaVars
<1>10. CASE DmaByte
  <2>1. /\ cntr > 0 /\ cntr' = cntr - 1 /\ (cntr = 1 => tc')
        /\ UNCHANGED <<s_head, s_tail, head, pc, ier, isr, s_dmaActive>>
    BY <1>10 DEF DmaByte, writeVars, fifoVars
  <2>2. cntr' \in Nat /\ (cntr' > 0 \/ cntr = 1)
    BY <1>b, <2>1
  <2> QED
    BY <1>b, <2>1, <2>2 DEF BusyInv
<1>11. CASE UNCHANGED vars
  BY <1>b, <1>11 DEF vars, BusyInv, writeVars, fifoVars, dmaVars
<1> QED
  BY <1>1, <1>2, <1>3, <1>4, <1>5, <1>6, <1>7, <1>8, <1>9, <1>10, <1>11 DEF Next, Write, Isr

\* uart_dma.c: a write that ends never leaves bytes waiting on an idle channel.
THEOREM ChannelBusy == Spec => []DmaKeptBusy
<1>1. Init => BusyInv
  <2>1. 0 \in Indices
    BY ConstantsAssumption DEF Indices
  <2> QED
    BY <2>1 DEF Init, BusyInv
<1>2. BusyInv => DmaKeptBusy
  BY DEF BusyInv, DmaKeptBusy
<1> QED
  BY <1>1, <1>2, BusyStep, PTL DEF Spec

\* The interrupt comes with CNTR at 0, so the tail never moves from 0 and the
\* ring is filled once: no slot of it is ever written a second time.
ReachInv ==
    board = "CH32V307" =>
        /\ s_tail = 0 /\ (tc => cntr = 0) /\ (~s_dmaActive => cntr = 0 /\ ~tc)
        /\ pc = "start" => ~s_dmaActive
        /\ pc \notin {"load", "store"} /\ ~ier /\ ~isr /\ fifo = << >>
        /\ buf \in [Indices -> Nat] /\ head \in Indices /\ s_head \in 0 .. head
        /\ accepted = head /\ \A j \in 0 .. head - 1 : buf[j] = j + 1
        /\ pc # "copy" => s_head = head
        /\ maddr \in Nat /\ cntr \in Nat /\ (cntr > 0 => maddr + cntr <= s_head)

\* A chunk started at 0 is all that is published.
LEMMA ChunkFromStart ==
    ASSUME s_head \in Indices, StartChunk(0), maddr \in Nat, cntr = 0
    PROVE  \/ ~s_dmaActive' /\ maddr' = maddr /\ cntr' = 0
           \/ s_dmaActive' /\ maddr' = 0 /\ cntr' = s_head
<1>1. BufSize \in Nat \ {0} /\ s_head \in 0 .. BufSize - 1 /\ s_head \in Int
  BY ConstantsAssumption DEF Indices
<1>2. BufSize * 0 + s_head = s_head /\ s_head - 0 = s_head
  BY <1>1
<1>3. s_head % BufSize = s_head
  BY <1>1, <1>2, ModUnique
<1>4. CASE s_head = 0
  <2>1. (s_head - 0) % BufSize = 0
    BY <1>2, <1>3, <1>4
  <2> QED
    BY <2>1 DEF StartChunk
<1>5. CASE s_head # 0
  <2>1. (s_head - 0) % BufSize = s_head
    BY <1>2, <1>3
  <2>2. s_dmaActive' = TRUE /\ maddr' = 0 /\ cntr' = Smaller(s_head, BufSize - 0)
    BY <1>5, <2>1 DEF StartChunk
  <2>3. Smaller(s_head, BufSize - 0) = s_head
    BY <1>1 DEF Smaller
  <2> QED
    BY <2>2, <2>3
<1> QED
  BY <1>4, <1>5

LEMMA ReachStep == ReachInv /\ [Next]_vars => ReachInv'
<1> SUFFICES ASSUME ReachInv, [Next]_vars PROVE ReachInv'
  OBVIOUS
<1>a. board' = board
  BY BoardStays
<1> SUFFICES ASSUME board = "CH32V307" PROVE ReachInv'
  BY <1>a DEF ReachInv
<1>b. /\ s_tail = 0 /\ (tc => cntr = 0) /\ (~s_dmaActive => cntr = 0 /\ ~tc)
      /\ pc = "start" => ~s_dmaActive
      /\ pc \notin {"load", "store"} /\ ~ier /\ ~isr /\ fifo = << >>
      /\ buf \in [Indices -> Nat] /\ head \in Indices /\ s_head \in 0 .. head
      /\ accepted = head /\ \A j \in 0 .. head - 1 : buf[j] = j + 1
      /\ pc # "copy" => s_head = head
      /\ maddr \in Nat /\ cntr \in Nat /\ (cntr > 0 => maddr + cntr <= s_head)
  BY DEF ReachInv
<1>c. BufSize \in Nat \ {0} /\ 0 \in Indices /\ head \in Nat /\ s_head \in Indices
      /\ 0 % BufSize = 0
  BY <1>b, ConstantsAssumption DEF Indices
<1>1. CASE WriteBegin
  BY <1>b, <1>c, <1>1 DEF WriteBegin, ReachInv, fifoVars, dmaVars
<1>2. CASE WriteByte
  <2>1. /\ pc = "copy" /\ pc' = "copy" /\ After(head) # 0
        /\ buf' = [buf EXCEPT ![head] = accepted + 1]
        /\ accepted' = accepted + 1 /\ head' = After(head)
        /\ UNCHANGED <<s_head, s_tail, fifoVars, dmaVars>>
    BY <1>b, <1>2 DEF WriteByte
  <2>2. After(head) = head + 1 /\ head + 1 \in Indices
    <3>1. head + 1 # BufSize
      BY <1>c, <2>1 DEF After
    <3>2. head + 1 \in 0 .. BufSize - 1 /\ BufSize * 0 + (head + 1) = head + 1
      BY <1>b, <1>c, <3>1 DEF Indices
    <3> QED
      BY <1>c, <3>2, ModUnique DEF After, Indices
  <2>3. /\ buf' \in [Indices -> Nat]
        /\ \A j \in 0 .. head' - 1 : buf'[j] = j + 1
    BY <1>b, <1>c, <2>1, <2>2 DEF Indices
  <2>4. s_head \in 0 .. head'
    BY <1>b, <1>c, <2>1, <2>2
  <2> QED
    BY <1>b, <2>1, <2>2, <2>3, <2>4 DEF ReachInv, fifoVars, dmaVars
<1>3. CASE WritePublish
  BY <1>b, <1>c, <1>3 DEF WritePublish, ReachInv, fifoVars, dmaVars
<1>4. CASE KickTest \/ KickLoad \/ KickEnable
  BY <1>b, <1>4 DEF KickTest, KickLoad, KickEnable
<1>5. CASE DmaKickTest
  BY <1>b, <1>5 DEF DmaKickTest, ReachInv, fifoVars, dmaVars
<1>6. CASE DmaKick
  <2>1. /\ pc = "start" /\ pc' = "idle" /\ StartChunk(0)
        /\ UNCHANGED <<buf, s_head, head, accepted, s_tail, fifoVars, tc>>
    BY <1>b, <1>6 DEF DmaKick
  <2>2. \/ ~s_dmaActive' /\ maddr' = maddr /\ cntr' = 0
        \/ s_dmaActive' /\ maddr' = 0 /\ cntr' = s_head
    BY <1>b, <1>c, <2>1, ChunkFromStart
  <2> QED
    BY <1>b, <1>c, <2>1, <2>2 DEF ReachInv, fifoVars
<1>7. CASE IsrEnter \/ IsrByte \/ IsrLeave \/ Shift
  BY <1>b, <1>7 DEF IsrEnter, IsrByte, IsrLeave, Shift
<1>8. CASE DmaComplete
  <2>1. tc /\ ~tc' /\ cntr = 0 /\ s_dmaActive /\ pc # "start"
    BY <1>b, <1>8 DEF DmaComplete
  <2>2. s_tail' = 0
    BY <1>b, <1>c, <1>8, <2>1 DEF DmaComplete
  <2>3. /\ StartChunk(0)
        /\ UNCHANGED <<buf, s_head, head, pc, accepted, fifoVars>>
    BY <1>8, <2>2 DEF DmaComplete, writeVars
  <2>4. \/ ~s_dmaActive' /\ maddr' = maddr /\ cntr' = 0
        \/ s_dmaActive' /\ maddr' = 0 /\ cntr' = s_head
    BY <1>b, <1>c, <2>1, <2>3, ChunkFromStart
  <2> QED
    BY <1>b, <1>c, <2>1, <2>2, <2>3, <2>4 DEF ReachInv, fifoVars
<1>9. CASE DmaByte
  <2>1. /\ cntr > 0 /\ cntr' = cntr - 1 /\ maddr' = maddr + 1 /\ (tc' => cntr = 1)
        /\ UNCHANGED <<writeVars, s_tail, fifoVars, s_dmaActive>>
    BY <1>9 DEF DmaByte
  <2>2. /\ cntr' \in Nat /\ maddr' \in Nat /\ (tc' => cntr' = 0) /\ s_dmaActive
        /\ maddr' + cntr' <= s_head
    BY <1>b, <1>c, <2>1
  <2> QED
    BY <1>b, <2>1, <2>2 DEF ReachInv, writeVars, fifoVars
<1>10. CASE UNCHANGED vars
  BY <1>b, <1>10 DEF vars, ReachInv, writeVars, fifoVars, dmaVars
<1> QED
  BY <1>1, <1>2, <1>3, <1>4, <1>5, <1>6, <1>7, <1>8, <1>9, <1>10 DEF Next, Write, Isr

\* uart_dma.c: DMA reads published bytes only, and no write runs over them.
THEOREM ReadsPublished == Spec => []DmaReadsPublished
<1>1. Init => KickInv /\ ReachInv /\ board \in Boards
  <2>1. 0 \in Indices /\ 0 \in 0 .. 0 /\ 0 .. 0 - 1 = {}
    BY ConstantsAssumption DEF Indices
  <2>2. Init => buf \in [Indices -> Nat]
    BY DEF Init
  <2> QED
    BY <2>1, <2>2 DEF Init, KickInv, ReachInv
<1>2. KickInv /\ ReachInv /\ board \in Boards => DmaReadsPublished
  <2> SUFFICES ASSUME KickInv, ReachInv, board \in Boards PROVE DmaReadsPublished
    OBVIOUS
  <2>1. CASE board = "CH592"
    <3>1. cntr = 0
      BY <2>1 DEF KickInv
    <3> QED
      BY <3>1 DEF DmaReadsPublished
  <2>2. CASE board = "CH32V307"
    <3>1. /\ maddr \in Nat /\ cntr \in Nat /\ (cntr > 0 => maddr + cntr <= s_head)
          /\ s_head \in 0 .. head /\ head \in 0 .. BufSize - 1 /\ BufSize \in Nat \ {0}
          /\ \A j \in 0 .. head - 1 : buf[j] = j + 1
      BY <2>2, ConstantsAssumption DEF ReachInv, Indices
    <3>2. ASSUME cntr > 0 PROVE cntr <= (s_head - maddr) % BufSize
      <4>1. s_head - maddr \in 0 .. BufSize - 1 /\ BufSize * 0 + (s_head - maddr) = s_head - maddr
        BY <3>1, <3>2
      <4>2. (s_head - maddr) % BufSize = s_head - maddr
        BY <3>1, <4>1, ModUnique
      <4> QED
        BY <3>1, <3>2, <4>2
    <3>3. ASSUME NEW k \in 1 .. cntr - 1 PROVE buf[maddr + k] = buf[maddr] + k
      <4>1. maddr \in 0 .. head - 1 /\ maddr + k \in 0 .. head - 1
        BY <3>1
      <4> QED
        BY <3>1, <4>1
    <3> QED
      BY <3>2, <3>3 DEF DmaReadsPublished
  <2> QED
    BY <2>1, <2>2, ConstantsAssumption
<1>3. board \in Boards /\ [Next]_vars => (board \in Boards)'
  BY BoardStays
<1> QED
  BY <1>1, <1>2, <1>3, KickStep, ReachStep, PTL DEF Spec
=============================================================================
