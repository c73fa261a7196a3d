----------------------------- MODULE DebugUart -----------------------------
(***************************************************************************)
(* The debug UART transmitters of the CH592F firmware (uart_tx.c) and of   *)
(* the CH32V307 firmware (uart_dma.c).  In both, the main loop copies      *)
(* bytes into a ring and kicks what drains it: on CH592F UART1_IRQHandler, *)
(* which fills the hardware FIFO and switches itself off on an empty ring; *)
(* on CH32V307 a DMA channel, whose transfer-complete interrupt chains the *)
(* next chunk.  The channel runs in DMA_Mode_Normal: its counter CNTR      *)
(* counts down to 0 and stays there.                                       *)
(*                                                                         *)
(* A write goes one access at a time, the drains go on meanwhile.          *)
(* Accepted bytes are numbered 1, 2, 3, ...                                *)
(***************************************************************************)
EXTENDS Integers, Sequences

CONSTANTS
    Boards,     \* the boards a run is about
    BufSize,    \* TX_BUF_SIZE, UART_DMA_BUF_SIZE
    FifoSize,   \* depth of the transmit FIFO of CH592F
    MaxWrite,   \* bound: longest single write
    MaxBytes,   \* bound: bytes accepted in all
    MaxSent     \* bound: bytes on the line in all

ASSUME ConstantsAssumption ==
    /\ Boards \subseteq {"CH592", "CH32V307"}
    /\ BufSize \in Nat \ {0, 1} /\ FifoSize \in Nat \ {0}
    /\ {MaxWrite, MaxBytes, MaxSent} \subseteq Nat

VARIABLES
    board,
    buf,        \* s_txBuf
    s_head, s_tail,
    pc,         \* where the main loop stands in UartTx_Write or UartDma_Write
    head, todo, \* its locals: the index written next, bytes of buf[] not looked at yet
    accepted,   \* bytes put into the ring so far
    sent,       \* bytes on the line
    ier,        \* CH592F: RB_IER_THR_EMPTY
    fifo,       \* CH592F: the transmit FIFO
    isr,        \* CH592F: UART1_IRQHandler is in its loop
    s_dmaActive, maddr, cntr, \* CH32V307: flag, where DMA reads next, CNTR
    tc          \* CH32V307: transfer-complete interrupt pending

writeVars == <<buf, s_head, pc, head, todo, accepted>>
fifoVars == <<ier, fifo, isr>>
dmaVars == <<s_dmaActive, maddr, cntr, tc>>
vars == <<board, writeVars, s_tail, sent, fifoVars, dmaVars>>

Indices == 0 .. BufSize - 1

\* (i + 1) & TX_BUF_MASK.
After(i) == (i + 1) % BufSize

Smaller(a, b) == IF a < b THEN a ELSE b

TypeOK ==
    /\ board \in Boards
    /\ buf \in [Indices -> Nat]
    /\ {s_head, s_tail, head} \subseteq Indices
    /\ pc \in {"idle", "copy", "kick", "load", "store", "start"}
    /\ todo \in 0 .. MaxWrite /\ accepted \in 0 .. MaxBytes /\ sent \in Seq(Nat)
    /\ {ier, isr} \subseteq BOOLEAN /\ fifo \in Seq(Nat) /\ Len(fifo) <= FifoSize
    /\ {s_dmaActive, tc} \subseteq BOOLEAN
    /\ maddr \in 0 .. BufSize /\ cntr \in 0 .. BufSize - maddr

\* UartTx_Init, UartDma_Init.
Init ==
    /\ board \in Boards
    /\ buf = [i \in Indices |-> 0] /\ s_head = 0 /\ s_tail = 0
    /\ pc = "idle" /\ head = 0 /\ todo = 0 /\ accepted = 0 /\ sent = << >>
    /\ ier = FALSE /\ fifo = << >> /\ isr = FALSE
    /\ s_dmaActive = FALSE /\ maddr = 0 /\ cntr = 0 /\ tc = FALSE

(***************************************************************************)
(* The copy, the same in UartTx_Write and UartDma_Write.                   *)
(***************************************************************************)

WriteBegin ==
    /\ ~isr /\ pc = "idle"
    /\ \E len \in 0 .. MaxWrite : todo' = len
    /\ pc' = "copy" /\ head' = s_head
    /\ UNCHANGED <<board, buf, s_head, accepted, s_tail, sent, fifoVars, dmaVars>>

\* Mutation: the last free slot is used as well, and full looks like empty.
WriteByte_NoGap ==
    /\ ~isr /\ pc = "copy" /\ todo > 0 /\ accepted < MaxBytes
    /\ buf' = [buf EXCEPT ![head] = accepted + 1]
    /\ accepted' = accepted + 1 /\ head' = After(head) /\ todo' = todo - 1
    /\ UNCHANGED <<board, s_head, pc, s_tail, sent, fifoVars, dmaVars>>

\* There is room for one more byte.
WriteByte ==
    /\ ~isr /\ pc = "copy" /\ todo > 0 /\ After(head) # s_tail /\ accepted < MaxBytes
    /\ buf' = [buf EXCEPT ![head] = accepted + 1]
    /\ accepted' = accepted + 1 /\ head' = After(head) /\ todo' = todo - 1
    /\ UNCHANGED <<board, s_head, pc, s_tail, sent, fifoVars, dmaVars>>

\* All copied, or the ring is full and the rest is dropped: s_head = head.
WritePublish ==
    /\ ~isr /\ pc = "copy"
    /\ todo = 0 \/ After(head) = s_tail \/ accepted = MaxBytes
    /\ s_head' = head /\ pc' = "kick"
    /\ UNCHANGED <<board, buf, head, todo, accepted, s_tail, sent, fifoVars, dmaVars>>

(***************************************************************************)
(* CH592F: the kick at the end of UartTx_Write.                            *)
(***************************************************************************)

\* Mutation: the interrupt is taken to be running already.
KickTest_NoKick ==
    /\ board = "CH592" /\ ~isr /\ pc = "kick"
    /\ pc' = "idle"
    /\ UNCHANGED <<board, buf, s_head, head, todo, accepted, s_tail, sent, fifoVars, dmaVars>>

\* s_head != s_tail.
KickTest ==
    /\ board = "CH592" /\ ~isr /\ pc = "kick"
    /\ pc' = IF s_head # s_tail THEN "load" ELSE "idle"
    /\ UNCHANGED <<board, buf, s_head, head, todo, accepted, s_tail, sent, fifoVars, dmaVars>>

\* The interrupt enable is read, and set when it was clear.
KickLoad ==
    /\ ~isr /\ pc = "load"
    /\ pc' = IF ier THEN "idle" ELSE "store"
    /\ UNCHANGED <<board, buf, s_head, head, todo, accepted, s_tail, sent, fifoVars, dmaVars>>

KickEnable ==
    /\ ~isr /\ pc = "store"
    /\ pc' = "idle" /\ ier' = TRUE
    /\ UNCHANGED <<board, buf, s_head, head, todo, accepted, s_tail, sent, fifo, isr, dmaVars>>

(***************************************************************************)
(* CH592F: UART1_IRQHandler and the line.                                  *)
(***************************************************************************)

IsrEnter ==
    /\ ~isr /\ ier /\ Len(fifo) < FifoSize
    /\ isr' = TRUE
    /\ UNCHANGED <<board, writeVars, s_tail, sent, ier, fifo, dmaVars>>

IsrByte ==
    /\ isr /\ s_head # s_tail /\ Len(fifo) < FifoSize
    /\ fifo' = Append(fifo, buf[s_tail]) /\ s_tail' = After(s_tail)
    /\ UNCHANGED <<board, writeVars, sent, ier, isr, dmaVars>>

\* Mutation: the interrupt is switched off after every filling of the FIFO.
IsrLeave_Off ==
    /\ isr /\ (s_head = s_tail \/ Len(fifo) = FifoSize)
    /\ isr' = FALSE /\ ier' = FALSE
    /\ UNCHANGED <<board, writeVars, s_tail, sent, fifo, dmaVars>>

\* The loop ends; with the ring empty the interrupt is switched off.
IsrLeave ==
    /\ isr /\ (s_head = s_tail \/ Len(fifo) = FifoSize)
    /\ isr' = FALSE /\ ier' = (ier /\ s_head # s_tail)
    /\ UNCHANGED <<board, writeVars, s_tail, sent, fifo, dmaVars>>

\* The line takes a byte out of the FIFO.
Shift ==
    /\ fifo # << >>
    /\ sent' = Append(sent, Head(fifo)) /\ fifo' = Tail(fifo)
    /\ UNCHANGED <<board, writeVars, s_tail, ier, isr, dmaVars>>

(***************************************************************************)
(* CH32V307: the kick at the end of UartDma_Write, the channel and its     *)
(* interrupt.                                                              *)
(***************************************************************************)

\* UartDma_StartChunk: from tail to the head, at most to the end of the buffer.
StartChunk(tail) ==
    LET avail == (s_head - tail) % BufSize IN
    IF avail = 0 THEN s_dmaActive' = FALSE /\ UNCHANGED <<maddr, cntr>>
    ELSE s_dmaActive' = TRUE /\ maddr' = tail /\ cntr' = Smaller(avail, BufSize - tail)

DmaKickTest ==
    /\ board = "CH32V307" /\ pc = "kick"
    /\ pc' = IF s_dmaActive THEN "idle" ELSE "start"
    /\ UNCHANGED <<board, buf, s_head, head, todo, accepted, s_tail, sent, fifoVars, dmaVars>>

\* With the interrupt of the channel disabled around it.
DmaKick ==
    /\ pc = "start" /\ pc' = "idle"
    /\ StartChunk(s_tail)
    /\ UNCHANGED <<board, buf, s_head, head, todo, accepted, s_tail, sent, fifoVars, tc>>

DmaByte ==
    /\ cntr > 0 /\ Len(sent) < MaxSent
    /\ sent' = Append(sent, buf[maddr])
    /\ maddr' = maddr + 1 /\ cntr' = cntr - 1 /\ tc' = (cntr = 1)
    /\ UNCHANGED <<board, writeVars, s_tail, fifoVars, s_dmaActive>>

\* Mutation: the next chunk is not chained.
DmaComplete_NoChain ==
    /\ tc /\ tc' = FALSE
    /\ s_tail' = (s_tail + cntr) % BufSize
    /\ UNCHANGED <<board, writeVars, sent, fifoVars, s_dmaActive, maddr, cntr>>

\* s_tail moves on by what CNTR reads now, and the next chunk is started.
DmaComplete ==
    /\ tc /\ tc' = FALSE
    /\ s_tail' = (s_tail + cntr) % BufSize
    /\ StartChunk(s_tail')
    /\ UNCHANGED <<board, writeVars, sent, fifoVars>>

Write == WriteByte \/ WritePublish \/ KickTest \/ KickLoad \/ KickEnable \/ DmaKickTest \/ DmaKick

Isr == IsrEnter \/ IsrByte \/ IsrLeave \/ DmaComplete

Next == WriteBegin \/ Write \/ Isr \/ Shift \/ DmaByte

Spec == Init /\ [][Next]_vars

\* The processor runs whichever of the two is to run, and the line shifts.
FairSpec == Spec /\ WF_vars(Write) /\ WF_vars(Isr) /\ WF_vars(Shift)

-----------------------------------------------------------------------------

\* CH592F: what leaves the UART is what was accepted, each byte once and in
\* order: the producer never runs over bytes the interrupt has not read.
InOrder ==
    board = "CH592" => \A i \in 1 .. Len(sent) + Len(fifo) : (sent \o fifo)[i] = i

\* CH592F: no lost kick: whenever no write is going on and bytes wait, the
\* interrupt that takes them is enabled, whatever it did between the test of
\* the ring and the test of the enable bit.
KickNotLost ==
    board = "CH592" /\ pc = "idle" /\ ~isr /\ s_head # s_tail => ier

\* CH592F: every accepted byte leaves the UART, without another write to push it.
AllSent ==
    \A n \in 1 .. MaxBytes : board = "CH592" /\ accepted >= n ~> Len(sent) >= n

\* CH32V307: what DMA has still to read is published, and consecutive among
\* the accepted bytes: no write runs over a byte under DMA.
DmaReadsPublished ==
    /\ cntr > 0 => cntr <= (s_head - maddr) % BufSize
    /\ \A k \in 1 .. cntr - 1 : maddr + k < BufSize => buf[maddr + k] = buf[maddr] + k

\* CH32V307: a write that ends leaves DMA at work whenever bytes wait.
DmaKeptBusy ==
    board = "CH32V307" /\ pc = "idle" /\ s_head # s_tail => s_dmaActive /\ (cntr > 0 \/ tc)

\* CH32V307: every accepted byte is on the line once, in order, as the comment
\* on the interrupt says: it advances the tail and chains the next chunk.
SentOnce == \A i \in 1 .. Len(sent) : sent[i] = i
=============================================================================
