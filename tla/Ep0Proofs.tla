----------------------------- MODULE Ep0Proofs ------------------------------
(***************************************************************************)
(* Proofs about control transfers, for every set of boards, packet size,   *)
(* answer and wLength, and for any number of transfers, bus resets and     *)
(* lost handshakes: the host has its own answer, and device and host agree *)
(* on the address.  Then about the descriptors that travel in those        *)
(* answers: what one names exists, and agrees with the driver.             *)
(***************************************************************************)
EXTENDS Ep0Control, Enumeration, SequenceTheorems, FiniteSetTheorems, TLAPS

-----------------------------------------------------------------------------
\* What the module's operators yield.

LEMMA RequestFields ==
    ASSUME NEW r \in Requests \cup {NoRequest}
    PROVE  /\ r.size \in Nat /\ r.wLength \in Nat /\ r.addr \in Addresses \cup {0}
           /\ r.kind = "address" => r.addr \in Addresses
           /\ r.kind \notin Streamed => r.size < PacketSize
           /\ r.wLength > 0 => r.kind # "address"
<1> USE DEF Streamed
<1>0. PacketSize \in Nat /\ PacketSize > 2 /\ Sizes \subseteq Nat /\ WLengths \subseteq Nat
  BY ConstantsAssumption
<1>1. CASE r \in [kind : Streamed, size : Sizes, wLength : WLengths, addr : {0}]
  BY <1>0, <1>1
<1>2. CASE r \in [kind : {"short"}, size : {1, 2}, wLength : WLengths, addr : {0}]
  <2>1. r.kind = "short" /\ r.size \in {1, 2} /\ r.wLength \in WLengths /\ r.addr = 0
    BY <1>2
  <2>2. r.size \in Nat /\ r.size < PacketSize
    BY <1>0, <2>1
  <2> QED
    BY <1>0, <2>1, <2>2
<1>3. CASE r \in [kind : {"refused"}, size : {0}, wLength : WLengths, addr : {0}]
  <2>1. r.kind = "refused" /\ r.size \in {0} /\ r.wLength \in WLengths /\ r.addr = 0
    BY <1>3
  <2>2. r.size \in Nat /\ r.size < PacketSize
    BY <1>0, <2>1
  <2> QED
    BY <1>0, <2>1, <2>2
<1>4. CASE r \in [kind : {"config", "ack"}, size : {0}, wLength : {0}, addr : {0}]
  BY <1>0, <1>4
<1>5. CASE r \in [kind : {"address"}, size : {0}, wLength : {0}, addr : Addresses]
  BY <1>0, <1>5
<1>6. CASE r = NoRequest
  BY <1>0, <1>6 DEF NoRequest
<1> QED
  BY <1>1, <1>2, <1>3, <1>4, <1>5, <1>6 DEF Requests

LEMMA PacketIs ==
    ASSUME NEW n \in Nat, NEW from \in Nat, NEW len \in Nat
    PROVE  /\ Packet(n, from, len) \in Seq(Nat \X Nat)
           /\ Len(Packet(n, from, len)) = len
           /\ \A k \in 1 .. len : Packet(n, from, len)[k] = <<n, from + k - 1>>
<1>1. \A k \in 1 .. len : <<n, from + k - 1>> \in Nat \X Nat
  OBVIOUS
<1> QED
  BY <1>1 DEF Packet

LEMMA SmallerIs ==
    ASSUME NEW a \in Nat, NEW b \in Nat
    PROVE  Smaller(a, b) \in Nat /\ Smaller(a, b) <= a /\ Smaller(a, b) <= b
           /\ (Smaller(a, b) = a \/ Smaller(a, b) = b) /\ a - Smaller(a, b) \in Nat
  BY DEF Smaller

(***************************************************************************)
(* Types.                                                                  *)
(***************************************************************************)

LEMMA TypeInit == Init => TypeOK
<1> SUFFICES ASSUME Init PROVE TypeOK
  OBVIOUS
<1>1. txBuf \in Seq(Nat \X Nat) /\ got \in Seq(Nat \X Nat) /\ Len(txBuf) <= PacketSize
  BY ConstantsAssumption DEF Init
<1>2. resetInt \in BOOLEAN
  BY Zenon DEF Init
<1> QED
  BY <1>1, <1>2 DEF Init, TypeOK

LEMMA SetupTypes ==
    ASSUME TypeOK, NEW accepting \in {"ACK", "NAK", "STALL"}, SetupStage(accepting)
    PROVE  TypeOK'
<1> DEFINE len == Smaller(asked.wLength, asked.size)
           first == Smaller(len, PacketSize)
<1>1. /\ asked \in Requests \cup {NoRequest} /\ PacketSize \in Nat /\ transfers \in Nat
      /\ asked.wLength \in Nat /\ asked.size \in Nat
      /\ asked.kind = "address" => asked.addr \in Addresses
  BY ConstantsAssumption, RequestFields DEF TypeOK
<1>2. len \in Nat /\ first \in Nat /\ first <= PacketSize /\ len - first \in Nat
  BY <1>1, SmallerIs
<1>3. txBuf' = Packet(transfers, 0, first) /\ setupLen' = len - first /\ descr' \in {first, descr}
  BY DEF SetupStage
<1> HIDE DEF len, first
<1>4. txBuf' \in Seq(Nat \X Nat) /\ Len(txBuf') <= PacketSize
  BY <1>1, <1>2, <1>3, PacketIs
<1>5. setupLen' \in Nat /\ descr' \in Nat
  BY <1>2, <1>3 DEF TypeOK
<1>6. newAddr' \in Addresses \cup {0} /\ req' \in Requests \cup {NoRequest}
  BY <1>1 DEF SetupStage, TypeOK
<1>7. txRes' \in {"ACK", "NAK", "STALL"} /\ rxRes' \in {"ACK", "NAK", "STALL"} /\ txTog' = 1 /\ xferInt' = "none"
  BY DEF SetupStage
<1>8. UNCHANGED <<board, address, resetInt, hostVars, countVars>>
  BY DEF SetupStage
<1> QED
  BY <1>4, <1>5, <1>6, <1>7, <1>8 DEF TypeOK, hostVars, countVars

LEMMA NextPacketTypes ==
    ASSUME TypeOK, NextPacket
    PROVE  /\ txBuf' \in Seq(Nat \X Nat) /\ Len(txBuf') <= PacketSize
           /\ setupLen' \in Nat /\ descr' \in Nat /\ txTog' \in {0, 1}
           /\ UNCHANGED <<txRes, address>>
<1> DEFINE len == Smaller(setupLen, PacketSize)
<1>1. /\ setupLen \in Nat /\ PacketSize \in Nat /\ descr \in Nat /\ transfers \in Nat /\ txTog \in {0, 1}
  BY ConstantsAssumption DEF TypeOK
<1>2. len \in Nat /\ len <= PacketSize /\ setupLen - len \in Nat
  BY <1>1, SmallerIs
<1>3. /\ txBuf' = Packet(transfers, descr, len) /\ setupLen' = setupLen - len /\ descr' = descr + len
      /\ txTog' = 1 - txTog /\ UNCHANGED <<txRes, address>>
  BY DEF NextPacket
<1> HIDE DEF len
<1>4. txBuf' \in Seq(Nat \X Nat) /\ Len(txBuf') = len
  BY <1>1, <1>2, <1>3, PacketIs
<1> QED
  BY <1>1, <1>2, <1>3, <1>4

LEMMA InTypes == ASSUME TypeOK, InCH592 \/ InL103 \/ InCH585 \/ InV307 PROVE TypeOK'
<1>1. /\ xferInt' = "none"
      /\ UNCHANGED <<board, req, newAddr, resetInt, hostVars, countVars>>
  BY DEF InCH592, InL103, InCH585, InV307, InHighSpeed, InStage
<1>2. rxRes' \in {"ACK", "NAK", "STALL"}
  BY DEF InCH592, InL103, InCH585, InV307, InHighSpeed, StatusOpens, TypeOK
<1>3. /\ txBuf' \in Seq(Nat \X Nat) /\ Len(txBuf') <= PacketSize
      /\ setupLen' \in Nat /\ descr' \in Nat /\ txTog' \in {0, 1}
      /\ txRes' \in {"ACK", "NAK", "STALL"} /\ address' \in Addresses \cup {0}
  <2>1. CASE NextPacket
    BY <2>1, NextPacketTypes DEF TypeOK
  <2>2. CASE ~NextPacket
    <3>1. << >> \in Seq(Nat \X Nat) /\ Len(<< >>) <= PacketSize
      BY ConstantsAssumption
    <3>2. txBuf' \in {txBuf, << >>} /\ UNCHANGED <<setupLen, descr>> /\ TakeAddress
      BY <2>2 DEF InCH592, InL103, InCH585, InV307, InHighSpeed
    <3>3. txTog' \in {0, 1} /\ txRes' \in {"ACK", "NAK", "STALL"}
      BY <2>2 DEF InCH592, InL103, InCH585, InV307, InHighSpeed, TypeOK
    <3> QED
      BY <3>1, <3>2, <3>3 DEF TypeOK, TakeAddress
  <2> QED
    BY <2>1, <2>2
<1> QED
  BY <1>1, <1>2, <1>3 DEF TypeOK, hostVars, countVars

LEMMA TakeDataTypes ==
    ASSUME TypeOK, TakeData
    PROVE  got' \in Seq(Nat \X Nat) /\ hostTog' \in {0, 1} /\ stage' \in {"data", "statusOut"}
  BY DEF TypeOK, TakeData

LEMMA TypeStep == TypeOK /\ [Next]_vars => TypeOK'
<1> SUFFICES ASSUME TypeOK, [Next]_vars PROVE TypeOK'
  OBVIOUS
<1>1. CASE SetupCH592 \/ SetupL103 \/ SetupCH585 \/ SetupV307
  <2>1. rxRes \in {"ACK", "NAK", "STALL"}
    BY DEF TypeOK
  <2> QED
    BY <1>1, <2>1, SetupTypes DEF SetupCH592, SetupL103, SetupCH585, SetupV307
<1>2. CASE InCH592 \/ InL103 \/ InCH585 \/ InV307
  BY <1>2, InTypes
<1>3. CASE OutFullSpeed \/ OutCH585 \/ OutV307
  <2>1. << >> \in Seq(Nat \X Nat) /\ Len(<< >>) <= PacketSize
    BY ConstantsAssumption
  <2> QED
    BY <1>3, <2>1 DEF OutFullSpeed, OutCH585, OutV307, OutStage, TypeOK, hostVars, countVars
<1>4. CASE ResetFullSpeed \/ ResetHighSpeed
  <2>1. << >> \in Seq(Nat \X Nat) /\ Len(<< >>) <= PacketSize
    BY ConstantsAssumption
  <2>2. resetInt' \in BOOLEAN
    BY <1>4, Zenon DEF ResetFullSpeed, ResetHighSpeed, ResetStage
  <2> QED
    BY <1>4, <2>1, <2>2 DEF ResetFullSpeed, ResetHighSpeed, ResetStage, TypeOK, hostVars, countVars
<1>5. CASE HostSetup
  <2>1. got' \in Seq(Nat \X Nat) /\ stage' \in {"idle", "data", "statusIn", "statusOut"}
    BY <1>5 DEF HostSetup
  <2> QED
    BY <1>5, <2>1 DEF HostSetup, TypeOK, devVars
<1>6. CASE HostData
  BY <1>6, TakeDataTypes DEF HostData, TypeOK, devVars, countVars
<1>7. CASE HostDataLost
  BY <1>7, TakeDataTypes DEF HostDataLost, TypeOK, devVars
<1>8. CASE HostDrop \/ HostStatusOut \/ HostStatusLost \/ HostStalled
  BY <1>8 DEF HostDrop, HostStatusOut, HostStatusLost, HostStalled, TypeOK, devVars, hostVars, countVars
<1>9. CASE HostStatusIn
  <2>1. asked.kind = "address" => asked.addr \in Addresses
    BY RequestFields DEF TypeOK
  <2> QED
    BY <1>9, <2>1 DEF HostStatusIn, TypeOK, devVars, countVars
<1>10. CASE BusReset
  <2>1. resetInt' \in BOOLEAN
    BY <1>10, Zenon DEF BusReset
  <2> QED
    BY <1>10, <2>1 DEF BusReset, TypeOK, devVars
<1>11. CASE UNCHANGED vars
  BY <1>11 DEF vars, TypeOK, devVars, hostVars, countVars
<1> QED
  BY <1>1, <1>2, <1>3, <1>4, <1>5, <1>6, <1>7, <1>8, <1>9, <1>10, <1>11 DEF Next, Isr, HostGoesOn

\* Every variable keeps its type: the packet in the buffer of EP0 fits into it,
\* and what is left of an answer never becomes negative.
THEOREM TypeCorrect == Spec => []TypeOK
<1> QED
  BY TypeInit, TypeStep, PTL DEF Spec

(***************************************************************************)
(* The inductive invariant.                                                *)
(***************************************************************************)

\* The request the device is at is the host's from the SETUP interrupt on; a
\* data stage is one in which the host has asked for data.
RequestOK ==
    /\ resetInt => stage = "idle" /\ hostAddr = 0
    /\ stage \in {"data", "statusIn"} /\ xferInt # "setup" =>
          req = asked /\ (asked.kind = "address" => newAddr = asked.addr)
    /\ stage = "data" => xferInt # "out" /\ asked.wLength > 0
    /\ stage = "statusIn" => xferInt \in {"none", "setup"}

\* The host is ahead of the address register from the status stage of
\* SET_ADDRESS to the interrupt that serves it.
AddressOK ==
    ~resetInt =>
        hostAddr = IF xferInt = "in" /\ req.kind = "address" THEN newAddr ELSE address

All == Smaller(asked.wLength, asked.size)

\* The packet in the buffer is the one that follows what the host has, and what
\* is left of the answer follows that packet.
NextInBuffer ==
    /\ txBuf = Packet(transfers, Len(got), Smaller(All - Len(got), PacketSize))
    /\ Len(got) + Len(txBuf) + setupLen = All
    /\ IF req.kind \in Streamed THEN descr = Len(got) + Len(txBuf) ELSE got = << >>

\* The host has that packet as well: what is left follows what the host has.
LastInBuffer ==
    req.kind \in Streamed /\ descr = Len(got) /\ Len(got) + setupLen = All

\* The toggle says which of the two it is.
DataOK ==
    stage = "data" =>
        /\ xferInt = "setup" => got = << >> /\ hostTog = 1
        /\ xferInt = "in" => txTog # hostTog
        /\ xferInt = "none" /\ txTog = hostTog => NextInBuffer
        /\ xferInt # "setup" /\ txTog # hostTog => LastInBuffer

LEMMA RequestStep == TypeOK /\ RequestOK /\ [Next]_vars => RequestOK'
<1> SUFFICES ASSUME TypeOK, RequestOK, [Next]_vars PROVE RequestOK'
  OBVIOUS
<1>1. CASE SetupCH592 \/ SetupL103 \/ SetupCH585 \/ SetupV307
  BY <1>1 DEF SetupCH592, SetupL103, SetupCH585, SetupV307, SetupStage, RequestOK, hostVars
<1>2. CASE InCH592 \/ InL103 \/ InCH585 \/ InV307
  <2>1. InStage
    BY <1>2 DEF InCH592, InL103, InCH585, InV307, InHighSpeed
  <2> QED
    BY <2>1 DEF InStage, RequestOK, hostVars
<1>3. CASE OutFullSpeed \/ OutCH585 \/ OutV307
  <2>1. OutStage
    BY <1>3 DEF OutFullSpeed, OutCH585, OutV307
  <2> QED
    BY <2>1 DEF OutStage, RequestOK, hostVars
<1>4. CASE ResetFullSpeed \/ ResetHighSpeed
  BY <1>4 DEF ResetFullSpeed, ResetHighSpeed, ResetStage, RequestOK, hostVars
<1>5. CASE HostSetup
  <2>1. /\ ~resetInt /\ ~resetInt' /\ xferInt' = "setup" /\ asked' \in Requests
        /\ stage' = IF asked'.wLength = 0 THEN "statusIn" ELSE "data"
    BY <1>5 DEF HostSetup, Reachable
  <2>2. asked'.wLength \in Nat
    BY <2>1, RequestFields
  <2> QED
    BY <2>1, <2>2 DEF RequestOK
<1>6. CASE HostData \/ HostDataLost
  <2>1. /\ ~resetInt /\ xferInt = "none" /\ stage = "data" /\ stage' \in {"data", "statusOut"}
        /\ xferInt' \in {"in", "none"} /\ UNCHANGED <<req, asked, newAddr, resetInt, hostAddr>>
    BY <1>6 DEF HostData, HostDataLost, Reachable, TakeData, devVars
  <2> QED
    BY <2>1 DEF RequestOK
<1>7. CASE HostDrop \/ HostStatusOut \/ HostStatusLost \/ HostStatusIn \/ HostStalled
  BY <1>7 DEF HostDrop, HostStatusOut, HostStatusLost, HostStatusIn, HostStalled, Reachable,
     RequestOK, devVars, hostVars
<1>8. CASE BusReset
  BY <1>8 DEF BusReset, RequestOK, devVars
<1>9. CASE UNCHANGED vars
  BY <1>9 DEF vars, RequestOK, devVars, hostVars
<1> QED
  BY <1>1, <1>2, <1>3, <1>4, <1>5, <1>6, <1>7, <1>8, <1>9 DEF Next, Isr, HostGoesOn

LEMMA AddressStep == TypeOK /\ RequestOK /\ AddressOK /\ [Next]_vars => AddressOK'
<1> SUFFICES ASSUME TypeOK, RequestOK, AddressOK, [Next]_vars PROVE AddressOK'
  OBVIOUS
<1>1. CASE SetupCH592 \/ SetupL103 \/ SetupCH585 \/ SetupV307
  BY <1>1 DEF SetupCH592, SetupL103, SetupCH585, SetupV307, SetupStage, AddressOK, hostVars
<1>2. CASE InCH592 \/ InL103 \/ InCH585 \/ InV307
  <2>1. InStage /\ (TakeAddress \/ (req.kind # "address" /\ UNCHANGED address))
    BY <1>2 DEF InCH592, InL103, InCH585, InV307, InHighSpeed, NextPacket, Streamed
  <2> QED
    BY <2>1 DEF InStage, TakeAddress, AddressOK, hostVars
<1>3. CASE OutFullSpeed \/ OutCH585 \/ OutV307
  BY <1>3 DEF OutFullSpeed, OutCH585, OutV307, OutStage, AddressOK, hostVars
<1>4. CASE ResetFullSpeed \/ ResetHighSpeed
  BY <1>4 DEF ResetFullSpeed, ResetHighSpeed, ResetStage, RequestOK, AddressOK, hostVars
<1>5. CASE HostSetup \/ HostStatusOut \/ HostStatusLost \/ HostStalled
  BY <1>5 DEF HostSetup, HostStatusOut, HostStatusLost, HostStalled, Reachable, AddressOK,
     devVars, hostVars
<1>6. CASE HostData \/ HostDataLost \/ HostDrop
  <2>1. /\ Reachable /\ stage = "data" /\ UNCHANGED <<req, newAddr, address, hostAddr, resetInt>>
    BY <1>6 DEF HostData, HostDataLost, HostDrop, devVars, hostVars
  <2>2. req.kind # "address"
    BY <2>1, RequestFields DEF RequestOK, Reachable, TypeOK
  <2> QED
    BY <2>1, <2>2 DEF Reachable, AddressOK
<1>7. CASE HostStatusIn
  BY <1>7 DEF HostStatusIn, Reachable, RequestOK, AddressOK, devVars
<1>8. CASE BusReset
  BY <1>8 DEF BusReset, AddressOK
<1>9. CASE UNCHANGED vars
  BY <1>9 DEF vars, AddressOK, devVars, hostVars
<1> QED
  BY <1>1, <1>2, <1>3, <1>4, <1>5, <1>6, <1>7, <1>8, <1>9 DEF Next, Isr, HostGoesOn

\* Device and host never lose each other: at rest the device answers at the
\* address the host sends to, also after an assignment that was given up, or that
\* a bus reset overtook.
THEOREM AddressesAgree == Spec => []AddressAgrees
<1> DEFINE Inv == TypeOK /\ RequestOK /\ AddressOK
<1>1. Init => Inv
  BY TypeInit DEF Init, RequestOK, AddressOK
<1>2. Inv /\ [Next]_vars => Inv'
  BY TypeStep, RequestStep, AddressStep
<1>3. Inv => AddressAgrees
  BY DEF AddressAgrees, AddressOK
<1> QED
  BY <1>1, <1>2, <1>3, PTL DEF Spec

(***************************************************************************)
(* The data stage.                                                         *)
(***************************************************************************)

\* What the SETUP interrupt arms is the first packet of the answer.
LEMMA SetupArmsFirst ==
    ASSUME TypeOK, RequestOK, DataOK, NEW accepting, SetupStage(accepting), stage = "data"
    PROVE  NextInBuffer' /\ txTog' = hostTog'
<1> DEFINE first == Smaller(All, PacketSize)
<1>1. /\ got = << >> /\ hostTog = 1 /\ txTog' = 1 /\ req' = asked
      /\ UNCHANGED <<got, hostTog, asked, transfers>>
  BY DEF SetupStage, DataOK, hostVars, countVars
<1>2. /\ PacketSize \in Nat /\ asked.wLength \in Nat /\ asked.size \in Nat /\ transfers \in Nat
  BY ConstantsAssumption, RequestFields DEF TypeOK
<1>3. All \in Nat /\ first \in Nat /\ All' = All
  BY <1>1, <1>2, SmallerIs DEF All
<1>4. /\ txBuf' = Packet(transfers, 0, first) /\ setupLen' = All - first
      /\ req'.kind \in Streamed => descr' = first
  BY DEF SetupStage, All
<1> HIDE DEF first
<1>5. Len(txBuf') = first /\ Len(got) = 0
  BY <1>1, <1>2, <1>3, <1>4, PacketIs
<1>6. first = Smaller(All - 0, PacketSize)
  BY <1>3 DEF first
<1> QED
  BY <1>1, <1>3, <1>4, <1>5, <1>6 DEF NextInBuffer

\* The IN interrupt puts the packet that follows into the buffer.
LEMMA InArmsNext ==
    ASSUME TypeOK, NextPacket, LastInBuffer, UNCHANGED <<got, asked, transfers, req>>
    PROVE  NextInBuffer'
<1> DEFINE len == Smaller(setupLen, PacketSize)
<1>1. /\ PacketSize \in Nat /\ setupLen \in Nat /\ transfers \in Nat /\ Len(got) \in Nat
  BY ConstantsAssumption DEF TypeOK
<1>2. descr = Len(got) /\ Len(got) + setupLen = All /\ All' = All /\ req'.kind \in Streamed
  BY DEF LastInBuffer, All
<1>3. len \in Nat
  BY <1>1, SmallerIs
<1>4. /\ txBuf' = Packet(transfers, Len(got), len) /\ setupLen' = setupLen - len
      /\ descr' = Len(got) + len
  BY <1>2 DEF NextPacket
<1>5. len = Smaller(All - Len(got), PacketSize)
  <2>1. All - Len(got) = setupLen
    BY <1>1, <1>2
  <2> QED
    BY <2>1
<1> HIDE DEF len
<1>6. Len(txBuf') = len
  BY <1>1, <1>3, <1>4, PacketIs
<1> QED
  BY <1>1, <1>2, <1>3, <1>4, <1>5, <1>6 DEF NextInBuffer

\* What the host takes are the next bytes of its answer; it goes on only after a
\* full packet, and stops only with all it asked for.
LEMMA TakesNext ==
    ASSUME TypeOK, RequestOK, AnswerExact, NextInBuffer, stage = "data", xferInt # "setup", TakeData,
           UNCHANGED <<asked, transfers, req, descr, setupLen, txBuf>>
    PROVE  AnswerExact' /\ (stage' = "data" => LastInBuffer')
<1> DEFINE len == Smaller(All - Len(got), PacketSize)
<1>1. /\ PacketSize \in Nat /\ transfers \in Nat /\ Len(got) \in Nat /\ setupLen \in Nat
      /\ asked.wLength \in Nat /\ asked.size \in Nat /\ req = asked
      /\ req.kind \notin Streamed => asked.size < PacketSize
  BY ConstantsAssumption, RequestFields DEF TypeOK, RequestOK
<1>2. /\ All \in Nat /\ All <= asked.wLength /\ All <= asked.size /\ All' = All
      /\ Len(got) <= All /\ All - Len(got) \in Nat
  <2>1. All \in Nat /\ All <= asked.wLength /\ All <= asked.size /\ All' = All
    BY <1>1, SmallerIs DEF All
  <2>2. Len(got) <= All
    BY DEF AnswerExact, All
  <2> QED
    BY <1>1, <2>1, <2>2
<1>3. /\ len \in Nat /\ len <= PacketSize /\ len <= All - Len(got) /\ (len = All - Len(got) \/ len = PacketSize)
  BY <1>1, <1>2, SmallerIs
<1>a. txBuf = Packet(transfers, Len(got), len)
  BY DEF NextInBuffer
<1>4. /\ Len(got) + Len(txBuf) + setupLen = All
      /\ IF req.kind \in Streamed THEN descr = Len(got) + Len(txBuf) ELSE got = << >>
  BY DEF NextInBuffer
<1> HIDE DEF len
<1>5. /\ txBuf \in Seq(Nat \X Nat) /\ Len(txBuf) = len
      /\ \A k \in 1 .. len : txBuf[k] = <<transfers, Len(got) + k - 1>>
  <2>1. /\ Packet(transfers, Len(got), len) \in Seq(Nat \X Nat)
        /\ Len(Packet(transfers, Len(got), len)) = len
        /\ \A k \in 1 .. len : Packet(transfers, Len(got), len)[k] = <<transfers, Len(got) + k - 1>>
    BY <1>1, <1>3, PacketIs
  <2> QED
    BY <1>a, <2>1
<1>6. /\ got' = got \o txBuf /\ got \in Seq(Nat \X Nat)
      /\ stage' = IF Len(txBuf) < PacketSize \/ Len(got') >= asked.wLength
                  THEN "statusOut" ELSE "data"
  BY DEF TakeData, TypeOK
<1>7. /\ Len(got') = Len(got) + len
      /\ \A k \in 1 .. Len(got) : got'[k] = got[k]
      /\ \A k \in 1 .. len : got'[Len(got) + k] = txBuf[k]
  BY <1>5, <1>6
<1>8. ASSUME NEW k \in 1 .. Len(got') PROVE got'[k] = <<transfers, k - 1>>
  <2>1. CASE k <= Len(got)
    BY <1>1, <1>7, <2>1 DEF AnswerExact
  <2>2. CASE k > Len(got)
    <3>1. k - Len(got) \in 1 .. len /\ k = Len(got) + (k - Len(got))
      BY <1>1, <1>3, <1>7, <2>2
    <3>2. got'[Len(got) + (k - Len(got))] = <<transfers, Len(got) + (k - Len(got)) - 1>>
      BY <1>5, <1>7, <3>1
    <3> QED
      BY <1>1, <3>1, <3>2
  <2> QED
    BY <1>1, <2>1, <2>2
<1>9. Len(got') <= All /\ (stage' = "statusOut" => Len(got') = All)
  BY <1>1, <1>2, <1>3, <1>5, <1>6, <1>7
<1>10. AnswerExact'
  BY <1>8, <1>9, <1>2 DEF AnswerExact, All
<1>11. ASSUME stage' = "data" PROVE LastInBuffer'
  <2>1. len = PacketSize
    BY <1>1, <1>3, <1>5, <1>6, <1>11
  <2>2. req.kind \in Streamed
    BY <1>1, <1>2, <1>3, <2>1
  <2> QED
    BY <1>1, <1>2, <1>3, <1>4, <1>5, <1>7, <2>2 DEF LastInBuffer
<1> QED
  BY <1>10, <1>11

LEMMA DataStep ==
    TypeOK /\ RequestOK /\ DataOK /\ AnswerExact /\ [Next]_vars => DataOK' /\ AnswerExact'
<1> SUFFICES ASSUME TypeOK, RequestOK, DataOK, AnswerExact, [Next]_vars
             PROVE  DataOK' /\ AnswerExact'
  OBVIOUS
<1>0. txTog \in {0, 1} /\ hostTog \in {0, 1} /\ xferInt \in {"none", "setup", "in", "out"}
  BY DEF TypeOK
<1>a. ASSUME UNCHANGED <<got, asked, transfers>>, stage' \in {stage, "idle"} PROVE AnswerExact'
  BY <1>a DEF AnswerExact
<1>b. ASSUME stage' # "data" PROVE DataOK'
  BY <1>b DEF DataOK
<1>1. ASSUME NEW accepting, SetupStage(accepting) PROVE DataOK' /\ AnswerExact'
  <2>1. UNCHANGED <<got, asked, transfers, stage>> /\ xferInt' = "none"
    BY <1>1 DEF SetupStage, hostVars, countVars
  <2>2. stage = "data" => NextInBuffer' /\ txTog' = hostTog'
    BY <1>1, SetupArmsFirst
  <2> QED
    BY <1>a, <2>1, <2>2 DEF DataOK
<1>2. CASE InCH592 \/ InL103 \/ InCH585 \/ InV307
  <2>1. xferInt = "in" /\ xferInt' = "none" /\ UNCHANGED <<got, asked, transfers, req, stage, hostTog>>
    BY <1>2 DEF InCH592, InL103, InCH585, InV307, InHighSpeed, InStage, hostVars, countVars
  <2>2. CASE stage = "data"
    <3>1. txTog # hostTog /\ LastInBuffer /\ req.kind \in Streamed
      BY <2>1, <2>2 DEF DataOK, LastInBuffer
    <3>2. NextPacket
      BY <1>2, <3>1 DEF InCH592, InL103, InCH585, InV307, InHighSpeed
    <3>3. NextInBuffer' /\ txTog' = hostTog'
      <4>1. txTog' = 1 - txTog
        BY <3>2 DEF NextPacket
      <4> QED
        BY <1>0, <2>1, <3>1, <3>2, <4>1, InArmsNext
    <3> QED
      BY <1>a, <2>1, <3>3 DEF DataOK
  <2> QED
    BY <1>a, <1>b, <2>1, <2>2
<1>3. CASE OutFullSpeed \/ OutCH585 \/ OutV307
  <2>1. xferInt = "out" /\ UNCHANGED <<got, asked, transfers, stage>>
    BY <1>3 DEF OutFullSpeed, OutCH585, OutV307, OutStage, hostVars, countVars
  <2> QED
    BY <1>a, <1>b, <2>1 DEF RequestOK
<1>4. CASE ResetFullSpeed \/ ResetHighSpeed
  <2>1. resetInt /\ UNCHANGED <<got, asked, transfers, stage>>
    BY <1>4 DEF ResetFullSpeed, ResetHighSpeed, ResetStage, hostVars, countVars
  <2> QED
    BY <1>a, <1>b, <2>1 DEF RequestOK
<1>5. CASE HostSetup
  <2>1. /\ got' = << >> /\ hostTog' = 1 /\ xferInt' = "setup" /\ stage' \in {"statusIn", "data"}
        /\ asked' \in Requests
    BY <1>5 DEF HostSetup
  <2>2. All' \in Nat
    <3>1. asked'.wLength \in Nat /\ asked'.size \in Nat
      BY <2>1, RequestFields
    <3> QED
      BY <3>1, SmallerIs DEF All
  <2>3. Len(got') = 0
    BY <2>1
  <2>4. AnswerExact'
    BY <2>1, <2>2, <2>3 DEF AnswerExact, All
  <2> QED
    BY <2>1, <2>4 DEF DataOK
<1>6. CASE HostData \/ HostDataLost
  <2>1. /\ Reachable /\ stage = "data" /\ txTog = hostTog /\ TakeData
        /\ xferInt' \in {"in", "none"} /\ UNCHANGED <<devVars, asked, transfers>>
    BY <1>6 DEF HostData, HostDataLost, Reachable, countVars
  <2>2. NextInBuffer /\ xferInt = "none"
    BY <2>1 DEF Reachable, DataOK
  <2>3. AnswerExact' /\ (stage' = "data" => LastInBuffer')
    BY <2>1, <2>2, TakesNext DEF devVars
  <2>4. txTog' # hostTog'
    BY <1>0, <2>1 DEF TakeData, devVars
  <2> QED
    BY <2>1, <2>3, <2>4 DEF DataOK
<1>7. CASE HostDrop
  <2>1. /\ Reachable /\ txTog # hostTog /\ xferInt' = "in" /\ stage = "data"
        /\ UNCHANGED <<devVars, hostVars, transfers>>
    BY <1>7 DEF HostDrop, countVars
  <2>2. LastInBuffer'
    BY <2>1 DEF Reachable, DataOK, LastInBuffer, All, devVars, hostVars
  <2> QED
    BY <1>a, <2>1, <2>2 DEF DataOK, devVars, hostVars
<1>8. CASE HostStatusOut \/ HostStatusLost \/ HostStatusIn \/ HostStalled \/ BusReset
  <2>1. /\ UNCHANGED <<got, asked, transfers>> /\ stage' \in {stage, "idle"} /\ stage' # "data"
    BY <1>8 DEF HostStatusOut, HostStatusLost, HostStatusIn, HostStalled, BusReset, hostVars, countVars
  <2> QED
    BY <1>a, <1>b, <2>1
<1>9. CASE UNCHANGED vars
  BY <1>9 DEF vars, devVars, hostVars, countVars, DataOK, AnswerExact, NextInBuffer, LastInBuffer, All
<1> QED
  BY <1>1, <1>2, <1>3, <1>4, <1>5, <1>6, <1>7, <1>8, <1>9
     DEF Next, Isr, HostGoesOn, SetupCH592, SetupL103, SetupCH585, SetupV307

\* Whatever transfers the host gave up before, and whatever acknowledgements are
\* lost, it has the first bytes of the answer to its own request, each once, and
\* all it asked for when it goes on to the status stage.
THEOREM AnswersAreExact == Spec => []AnswerExact
<1> DEFINE Inv == TypeOK /\ RequestOK /\ DataOK /\ AnswerExact
<1>1. Init => Inv
  <2>1. ASSUME Init PROVE AnswerExact
    BY <2>1 DEF Init, AnswerExact, Smaller, NoRequest
  <2> QED
    BY <2>1, TypeInit DEF Init, RequestOK, DataOK
<1>2. Inv /\ [Next]_vars => Inv'
  BY TypeStep, RequestStep, DataStep
<1>3. Inv => AnswerExact
  OBVIOUS
<1> QED
  BY <1>1, <1>2, <1>3, PTL DEF Spec

(***************************************************************************)
(* The descriptors that endpoint 0 serves (Enumeration).                   *)
(***************************************************************************)

\* Whatever a table names is one of these.
Asks ==
    {Ask(kind, 0, w) : kind \in {"device", "config", "bos", "qualifier", "otherSpeed"}, w \in Nat}
        \cup {Ask("string", i, 255) : i \in 0 .. 3}
        \cup {VendorAsk(1, 7, 0, 30), VendorAsk(4, 2, 1, 255)}

\* A table as long as its parts, which name nothing else.
Whole(table) ==
    /\ table.told \in Nat /\ table.told > 0 /\ table.told = Size(table)
    /\ \A k \in DOMAIN table.parts : table.parts[k].names \subseteq Asks

\* The configurations of a board.
Configs(b) == {ConfigDescr(b, speed) : speed \in {"full", "high"}}

\* What an answer is, whenever it was given.
AnswerOK(answer) ==
    /\ answer.ask \in Asks
    /\ answer.bytes = Shorter(answer.ask.wLength, answer.table.told)
    /\ IF Stalled(answer) THEN answer.ask.kind \in MayStall ELSE Whole(answer.table)
    /\ answer.ask.kind = "config" => answer.table \in Configs(device)
    /\ answer.ask.kind = "vendor" => answer.table.told <= answer.ask.wLength

EnumInv ==
    /\ device \in Devices /\ line \in {"full", "high"}
    /\ \A answer \in answers : AnswerOK(answer)

\* The ends of the parts are the sums of their lengths.  The witness for the
\* recursive function is written out: no table has more than five parts.
LEMMA EndsAdd ==
    ASSUME NEW parts, Len(parts) \in 0 .. 5,
           \A k \in 1 .. Len(parts) : parts[k].len \in Nat
    PROVE  /\ Ends(parts)[0] = 0
           /\ \A n \in 1 .. Len(parts) : Ends(parts)[n] = Ends(parts)[n - 1] + parts[n].len
<1> DEFINE N == Len(parts)
           l(k) == parts[k].len
           F(f) == [n \in 0 .. N |-> IF n = 0 THEN 0 ELSE f[n - 1] + l(n)]
           g == [n \in 0 .. N |->
                    IF n = 0 THEN 0
                    ELSE IF n = 1 THEN l(1)
                    ELSE IF n = 2 THEN l(1) + l(2)
                    ELSE IF n = 3 THEN l(1) + l(2) + l(3)
                    ELSE IF n = 4 THEN l(1) + l(2) + l(3) + l(4)
                    ELSE l(1) + l(2) + l(3) + l(4) + l(5)]
<1>1. N \in 0 .. 5 /\ \A k \in 1 .. N : l(k) \in Nat
  OBVIOUS
<1>2. g = F(g)
  <2> HIDE DEF N, l
  <2>1. ASSUME NEW n \in 0 .. N PROVE g[n] = IF n = 0 THEN 0 ELSE g[n - 1] + l(n)
    BY <1>1
  <2> QED
    BY <2>1
<1>3. Ends(parts) = CHOOSE f : f = F(f)
  BY DEF Ends
<1>4. Ends(parts) = F(Ends(parts))
  BY <1>2, <1>3
<1> QED
  BY <1>1, <1>4

\* Hence the length of a table.
LEMMA SizeAdds ==
    ASSUME NEW table, Len(table.parts) \in 1 .. 5,
           \A k \in 1 .. Len(table.parts) : table.parts[k].len \in Nat
    PROVE  LET N == Len(table.parts)
               l(k) == table.parts[k].len
           IN  /\ N = 1 => Size(table) = l(1)
               /\ N = 2 => Size(table) = l(1) + l(2)
               /\ N = 3 => Size(table) = l(1) + l(2) + l(3)
               /\ N = 4 => Size(table) = l(1) + l(2) + l(3) + l(4)
               /\ N = 5 => Size(table) = l(1) + l(2) + l(3) + l(4) + l(5)
<1> DEFINE N == Len(table.parts)
           l(k) == table.parts[k].len
           e == Ends(table.parts)
<1>1. N \in 1 .. 5 /\ (\A k \in 1 .. N : l(k) \in Nat) /\ Size(table) = e[N]
  BY DEF Size
<1>2. e[0] = 0 /\ \A n \in 1 .. N : e[n] = e[n - 1] + l(n)
  BY EndsAdd
<1> SUFFICES /\ N = 1 => e[N] = l(1)
             /\ N = 2 => e[N] = l(1) + l(2)
             /\ N = 3 => e[N] = l(1) + l(2) + l(3)
             /\ N = 4 => e[N] = l(1) + l(2) + l(3) + l(4)
             /\ N = 5 => e[N] = l(1) + l(2) + l(3) + l(4) + l(5)
  BY <1>1
<1> HIDE DEF N, l, e
<1>3. e[1] = l(1)
  BY <1>1, <1>2
<1>4. N > 1 => e[2] = l(1) + l(2)
  BY <1>1, <1>2, <1>3
<1>5. N > 2 => e[3] = l(1) + l(2) + l(3)
  BY <1>1, <1>2, <1>4
<1>6. N > 3 => e[4] = l(1) + l(2) + l(3) + l(4)
  BY <1>1, <1>2, <1>5
<1>7. N > 4 => e[5] = l(1) + l(2) + l(3) + l(4) + l(5)
  BY <1>1, <1>2, <1>6
<1> QED
  BY <1>1, <1>3, <1>4, <1>5, <1>6, <1>7

\* The tables, by their number of parts.
LEMMA OnePart ==
    ASSUME NEW len \in Nat \ {0}, NEW names \in SUBSET Asks
    PROVE  Whole(Table(len, <<Part(len, names)>>))
<1> DEFINE t == Table(len, <<Part(len, names)>>)
<1>1. t.told = len /\ Len(t.parts) = 1 /\ t.parts[1].len = len /\ t.parts[1].names = names
  BY DEF Table, Part
<1>2. Size(t) = len
  <2> HIDE DEF t
  <2> QED
    BY <1>1, SizeAdds
<1> QED
  BY <1>1, <1>2 DEF Whole

LEMMA TwoParts ==
    ASSUME NEW a \in Nat \ {0}, NEW b \in Nat
    PROVE  Whole(Table(a + b, <<Part(a, {}), Part(b, {})>>))
<1> DEFINE t == Table(a + b, <<Part(a, {}), Part(b, {})>>)
<1>1. /\ t.told = a + b /\ Len(t.parts) = 2
      /\ t.parts[1].len = a /\ t.parts[1].names = {} /\ t.parts[2].len = b /\ t.parts[2].names = {}
  BY DEF Table, Part
<1>2. Size(t) = a + b
  <2> HIDE DEF t
  <2> QED
    BY <1>1, SizeAdds
<1> QED
  BY <1>1, <1>2 DEF Whole

LEMMA BosWhole == Whole(MyBOSDescr)
<1> DEFINE t == MyBOSDescr
<1>1. /\ t.told = 57 /\ Len(t.parts) = 3
      /\ t.parts[1].len = 5 /\ t.parts[2].len = 28 /\ t.parts[3].len = 24
  BY DEF MyBOSDescr, Table, Part
<1>2. /\ t.parts[1].names = {Ask("bos", 0, 57)}
      /\ t.parts[2].names = {VendorAsk(1, 7, 0, 30)}
      /\ t.parts[3].names = {VendorAsk(4, 2, 1, 255)}
  BY DEF MyBOSDescr, Table, Part, MS_OS_20_VENDOR_CODE, WEBUSB_VENDOR_CODE,
         WEBUSB_LANDING_PAGE_INDEX
<1>3. Size(t) = 57
  <2> HIDE DEF t
  <2> QED
    BY <1>1, SizeAdds
<1>4. \A k \in 1 .. 3 : t.parts[k].names \subseteq Asks
  BY <1>2 DEF Asks
<1> QED
  BY <1>1, <1>3, <1>4 DEF Whole

\* A configuration: two headers, and endpoints of seven bytes each.
LEMMA ConfigWhole ==
    ASSUME NEW p, Len(p) \in 4 .. 5, NEW total \in Nat, total = 4 + 7 * Len(p),
           p[1].len = 9, p[2].len = 9, \A k \in 3 .. Len(p) : p[k].len = 7,
           \A k \in DOMAIN p : p[k].names \subseteq Asks
    PROVE  Whole(Table(total, p)) /\ \A k \in 1 .. Len(p) : Ends(p)[k] <= total
<1> DEFINE e == Ends(p)
<1>1. \A k \in 1 .. Len(p) : p[k].len \in Nat
  OBVIOUS
<1>2. e[0] = 0 /\ \A n \in 1 .. Len(p) : e[n] = e[n - 1] + p[n].len
  BY <1>1, EndsAdd
<1> HIDE DEF e
<1>3. /\ e[1] = e[0] + p[1].len /\ e[2] = e[1] + p[2].len /\ e[3] = e[2] + p[3].len
      /\ e[4] = e[3] + p[4].len /\ (Len(p) = 5 => e[5] = e[4] + p[5].len)
  BY <1>2
<1>4. p[3].len = 7 /\ p[4].len = 7 /\ (Len(p) = 5 => p[5].len = 7)
  OBVIOUS
<1>5. e[1] = 9 /\ e[2] = 18 /\ e[3] = 25 /\ e[4] = 32 /\ (Len(p) = 5 => e[5] = 39)
  BY <1>2, <1>3, <1>4
<1>6. e[Len(p)] = total /\ \A k \in 1 .. Len(p) : e[k] <= total
  <2>1. CASE Len(p) = 4
    <3>1. \A k \in 1 .. 4 : k = 1 \/ k = 2 \/ k = 3 \/ k = 4
      OBVIOUS
    <3> QED
      BY <1>5, <2>1, <3>1
  <2>2. CASE Len(p) = 5
    <3>1. \A k \in 1 .. 5 : k = 1 \/ k = 2 \/ k = 3 \/ k = 4 \/ k = 5
      OBVIOUS
    <3> QED
      BY <1>5, <2>2, <3>1
  <2> QED
    BY <2>1, <2>2
<1>7. Table(total, p).told = total /\ Table(total, p).parts = p /\ Size(Table(total, p)) = total
  BY <1>6 DEF Table, Size, e
<1> QED
  BY <1>6, <1>7 DEF Whole, e

\* The endpoints that a host finds in it when it has read it whole.
LEMMA ConfigRead ==
    ASSUME NEW num \in {2, 3}, NEW total, total = 18 + 7 * num,
           NEW S, NEW t \in Seq(S), Len(t) = num,
           \A k \in 1 .. num : t[k].len = 7 /\ t[k].names = {}
    PROVE  LET c == Table(total, CfgHead(total, num) \o t) IN
           /\ Whole(c)
           /\ \A answer : answer.table = c /\ answer.bytes = c.told =>
                 /\ UNION {part.endpoints : part \in Received(answer)}
                        = UNION {t[k].endpoints : k \in 1 .. num}
                 /\ \E part \in Received(answer) : part.announced = num
<1> DEFINE h1 == Part(9, {Ask("config", 0, total)})
           h2 == [Part(9, {}) EXCEPT !.announced = num]
           p == CfgHead(total, num) \o t
           c == Table(total, p)
<1>0. total \in Nat
  OBVIOUS
<1>1. CfgHead(total, num) = <<h1, h2>>
  BY DEF CfgHead
<1>2. /\ h1.len = 9 /\ h1.names = {Ask("config", 0, total)} /\ h1.endpoints = {}
      /\ h2.len = 9 /\ h2.names = {} /\ h2.endpoints = {} /\ h2.announced = num
  BY DEF Part
<1>3. Ask("config", 0, total) \in Asks
  BY <1>0 DEF Asks
<1>4. c.told = total /\ c.parts = p
  BY DEF Table
<1> HIDE DEF h1, h2
<1>5. /\ p \in Seq(S \cup {h1, h2}) /\ Len(p) = num + 2
      /\ \A k \in 1 .. num + 2 : p[k] = IF k <= 2 THEN <<h1, h2>>[k] ELSE t[k - 2]
  <2> DEFINE h == <<h1, h2>>
             R == S \cup {h1, h2}
  <2>0. p = h \o t
    BY <1>1
  <2> HIDE DEF p
  <2>a. h \in Seq(R) /\ Len(h) = 2
    OBVIOUS
  <2>b. t \in Seq(R)
    <3>1. S \subseteq R
      OBVIOUS
    <3> HIDE DEF R
    <3> QED
      BY <3>1
  <2>1. h \in Seq(R) /\ t \in Seq(R) /\ Len(h) = 2 /\ p = h \o t
    BY <2>0, <2>a, <2>b
  <2> HIDE DEF h, R
  <2>2. /\ h \o t \in Seq(R) /\ Len(h \o t) = Len(h) + Len(t)
        /\ \A k \in 1 .. Len(h) + Len(t) :
              (h \o t)[k] = IF k <= Len(h) THEN h[k] ELSE t[k - Len(h)]
    BY <2>1, ConcatProperties
  <2>3. Len(h) + Len(t) = num + 2
    BY <2>1
  <2> QED
    BY <2>1, <2>2, <2>3 DEF h, R
<1> HIDE DEF p, c
<1>6. DOMAIN p = 1 .. num + 2 /\ p[1] = h1 /\ p[2] = h2 /\ \A k \in 1 .. num : p[k + 2] = t[k]
  BY <1>5
<1>7. \A k \in 3 .. num + 2 : k - 2 \in 1 .. num /\ p[k] = t[k - 2]
  BY <1>5
<1>8. Whole(c) /\ \A k \in 1 .. num + 2 : Ends(p)[k] <= total
  <2>1. \A k \in 3 .. Len(p) : p[k].len = 7
    BY <1>5, <1>7
  <2>2. \A k \in DOMAIN p : p[k].names \subseteq Asks
    <3>1. \A k \in DOMAIN p : k = 1 \/ k = 2 \/ k \in 3 .. num + 2
      BY <1>6
    <3> QED
      BY <1>2, <1>3, <1>6, <1>7, <3>1
  <2>3. Len(p) \in 4 .. 5 /\ total = 4 + 7 * Len(p) /\ p[1].len = 9 /\ p[2].len = 9
    BY <1>2, <1>5, <1>6
  <2> QED
    BY <1>0, <1>5, <2>1, <2>2, <2>3, ConfigWhole DEF c
<1>9. ASSUME NEW answer, answer.table = c, answer.bytes = c.told
      PROVE  /\ UNION {part.endpoints : part \in Received(answer)}
                    = UNION {t[k].endpoints : k \in 1 .. num}
             /\ \E part \in Received(answer) : part.announced = num
  <2>1. Received(answer) = {p[k] : k \in 1 .. num + 2}
    BY <1>4, <1>6, <1>8, <1>9 DEF Received
  <2>2. \A k \in 1 .. num + 2 : k = 1 \/ k = 2 \/ k - 2 \in 1 .. num
    OBVIOUS
  <2>3. \A k \in 1 .. num : k + 2 \in 1 .. num + 2
    OBVIOUS
  <2>4. UNION {p[k].endpoints : k \in 1 .. num + 2} = UNION {t[k].endpoints : k \in 1 .. num}
    <3>1. ASSUME NEW k \in 1 .. num + 2
          PROVE  p[k].endpoints = {} \/ \E j \in 1 .. num : p[k].endpoints = t[j].endpoints
      <4>1. k \in 3 .. num + 2 \/ k = 1 \/ k = 2
        OBVIOUS
      <4> QED
        BY <1>2, <1>6, <1>7, <4>1
    <3>2. ASSUME NEW j \in 1 .. num
          PROVE  \E k \in 1 .. num + 2 : p[k].endpoints = t[j].endpoints
      BY <1>6, <2>3
    <3> QED
      BY <3>1, <3>2
  <2>5. 2 \in 1 .. num + 2 /\ p[2].announced = num
    BY <1>2, <1>6
  <2>6. {part.endpoints : part \in Received(answer)} = {p[k].endpoints : k \in 1 .. num + 2}
    BY <2>1
  <2>7. p[2] \in Received(answer)
    BY <2>1, <2>5
  <2> QED
    BY <2>4, <2>5, <2>6, <2>7
<1> QED
  BY <1>8, <1>9 DEF c, p

\* The host opens what the driver has enabled, as many as are announced.
Matches(table, enabled) ==
    \A answer : answer.table = table /\ answer.bytes = table.told =>
        LET found == UNION {part.endpoints : part \in Received(answer)} IN
        /\ {<<e.num, e.dir>> : e \in found} = enabled
        /\ \E part \in Received(answer) : part.announced = Cardinality(found)

\* Two different things are two.
LEMMA PairCounts ==
    ASSUME NEW x, NEW y, x # y
    PROVE  IsFiniteSet({x, y}) /\ Cardinality({x, y}) = 2
<1>1. IsFiniteSet({x}) /\ Cardinality({x}) = 1
  BY FS_Singleton
<1>2. IsFiniteSet({x} \cup {y}) /\ Cardinality({x} \cup {y}) = Cardinality({x}) + 1
  BY <1>1, FS_AddElement
<1>3. {x} \cup {y} = {x, y}
  OBVIOUS
<1> QED
  BY <1>1, <1>2, <1>3

\* The two shapes of configuration.
LEMMA ConfigTwo ==
    ASSUME NEW size
    PROVE  LET c == Table(32, CfgHead(32, 2) \o <<Endpoint(1, "IN", 8), Endpoint(2, "IN", size)>>)
           IN  Whole(c) /\ Matches(c, {<<1, "IN">>, <<2, "IN">>})
<1> DEFINE a == Endpoint(1, "IN", 8)
           b == Endpoint(2, "IN", size)
           t == <<a, b>>
           c == Table(32, CfgHead(32, 2) \o t)
           ea == [num |-> 1, dir |-> "IN", size |-> 8]
           eb == [num |-> 2, dir |-> "IN", size |-> size]
<1>1. /\ a.len = 7 /\ a.names = {} /\ a.endpoints = {ea}
      /\ b.len = 7 /\ b.names = {} /\ b.endpoints = {eb}
  BY DEF Endpoint
<1>2. ea.num = 1 /\ ea.dir = "IN" /\ eb.num = 2 /\ eb.dir = "IN" /\ ea # eb
  OBVIOUS
<1> HIDE DEF a, b, ea, eb
<1>3. t \in Seq({a, b}) /\ Len(t) = 2 /\ t[1] = a /\ t[2] = b
  OBVIOUS
<1>4. \A k \in 1 .. 2 : k = 1 \/ k = 2
  OBVIOUS
<1> HIDE DEF t
<1>5. UNION {t[k].endpoints : k \in 1 .. 2} = {ea, eb}
  BY <1>1, <1>3, <1>4
<1>6. Cardinality({ea, eb}) = 2
  BY <1>2, PairCounts
<1>7. {<<e.num, e.dir>> : e \in {ea, eb}} = {<<1, "IN">>, <<2, "IN">>}
  BY <1>2
<1>8. \A k \in 1 .. 2 : t[k].len = 7 /\ t[k].names = {}
  BY <1>1, <1>3, <1>4
<1>9. /\ Whole(c)
      /\ \A answer : answer.table = c /\ answer.bytes = c.told =>
            /\ UNION {part.endpoints : part \in Received(answer)}
                  = UNION {t[k].endpoints : k \in 1 .. 2}
            /\ \E part \in Received(answer) : part.announced = 2
  BY <1>3, <1>8, ConfigRead
<1> HIDE DEF c
<1>10. Matches(c, {<<1, "IN">>, <<2, "IN">>})
  BY <1>5, <1>6, <1>7, <1>9 DEF Matches
<1> QED
  BY <1>9, <1>10 DEF c, t, a, b

LEMMA ConfigThree ==
    ASSUME NEW size
    PROVE  Whole(Cfg307(size)) /\ Matches(Cfg307(size), {<<1, "IN">>, <<2, "IN">>, <<1, "OUT">>})
<1> DEFINE a == Endpoint(1, "IN", 8)
           b == Endpoint(1, "OUT", 64)
           d == Endpoint(2, "IN", size)
           t == <<a, b, d>>
           c == Table(39, CfgHead(39, 3) \o t)
           ea == [num |-> 1, dir |-> "IN", size |-> 8]
           eb == [num |-> 1, dir |-> "OUT", size |-> 64]
           ed == [num |-> 2, dir |-> "IN", size |-> size]
<1>0. Cfg307(size) = c
  BY DEF Cfg307
<1>1. /\ a.len = 7 /\ a.names = {} /\ a.endpoints = {ea} /\ b.len = 7 /\ b.names = {}
      /\ b.endpoints = {eb} /\ d.len = 7 /\ d.names = {} /\ d.endpoints = {ed}
  BY DEF Endpoint
<1>2. /\ ea.num = 1 /\ ea.dir = "IN" /\ eb.num = 1 /\ eb.dir = "OUT" /\ ed.num = 2 /\ ed.dir = "IN"
      /\ ea # eb /\ ea # ed /\ eb # ed
  OBVIOUS
<1> HIDE DEF a, b, d, ea, eb, ed
<1>3. t \in Seq({a, b, d}) /\ Len(t) = 3 /\ t[1] = a /\ t[2] = b /\ t[3] = d
  OBVIOUS
<1>4. \A k \in 1 .. 3 : k = 1 \/ k = 2 \/ k = 3
  OBVIOUS
<1> HIDE DEF t
<1>5. UNION {t[k].endpoints : k \in 1 .. 3} = {ea, eb, ed}
  BY <1>1, <1>3, <1>4
<1>6. Cardinality({ea, eb, ed}) = 3
  <2>1. IsFiniteSet({ea, eb}) /\ Cardinality({ea, eb}) = 2
    BY <1>2, PairCounts
  <2>2. {ea, eb, ed} = {ea, eb} \cup {ed} /\ ed \notin {ea, eb}
    BY <1>2
  <2> QED
    BY <2>1, <2>2, FS_AddElement
<1>7. {<<e.num, e.dir>> : e \in {ea, eb, ed}} = {<<1, "IN">>, <<2, "IN">>, <<1, "OUT">>}
  BY <1>2
<1>8. \A k \in 1 .. 3 : t[k].len = 7 /\ t[k].names = {}
  BY <1>1, <1>3, <1>4
<1>9. /\ Whole(c)
      /\ \A answer : answer.table = c /\ answer.bytes = c.told =>
            /\ UNION {part.endpoints : part \in Received(answer)}
                  = UNION {t[k].endpoints : k \in 1 .. 3}
            /\ \E part \in Received(answer) : part.announced = 3
  BY <1>3, <1>8, ConfigRead
<1> HIDE DEF c
<1>10. Matches(c, {<<1, "IN">>, <<2, "IN">>, <<1, "OUT">>})
  BY <1>5, <1>6, <1>7, <1>9 DEF Matches
<1> QED
  BY <1>0, <1>9, <1>10

\* At either speed a board's configuration is whole and fits its driver.
LEMMA ConfigOK ==
    ASSUME NEW b, NEW speed
    PROVE  Whole(ConfigDescr(b, speed)) /\ Matches(ConfigDescr(b, speed), Enabled(b))
<1>1. CASE b = "CH32V307"
  <2>1. ConfigDescr(b, speed) = Cfg307(IF speed = "high" THEN 512 ELSE 64)
    BY <1>1 DEF ConfigDescr
  <2>2. Enabled(b) = {<<1, "IN">>, <<2, "IN">>, <<1, "OUT">>}
    BY <1>1 DEF Enabled, EnabledV307
  <2> QED
    BY <2>1, <2>2, ConfigThree
<1>2. CASE b # "CH32V307"
  <2>1. Enabled(b) = {<<1, "IN">>, <<2, "IN">>}
    BY <1>2 DEF Enabled, EnabledFullSpeed, EnabledCH585
  <2>2. /\ Whole(MyCfgDescr) /\ Matches(MyCfgDescr, {<<1, "IN">>, <<2, "IN">>})
        /\ Whole(MyCfgDescr_HS) /\ Matches(MyCfgDescr_HS, {<<1, "IN">>, <<2, "IN">>})
    BY ConfigTwo DEF MyCfgDescr, MyCfgDescr_HS
  <2>3. ConfigDescr(b, speed) \in {MyCfgDescr, MyCfgDescr_HS}
    BY <1>2 DEF ConfigDescr
  <2> QED
    BY <2>1, <2>2, <2>3
<1> QED
  BY <1>1, <1>2

\* Every other table.
LEMMA TablesWhole ==
    /\ Whole(MyDevDescr) /\ Whole(MyQuaDescr) /\ Whole(MyBOSDescr)
    /\ Whole(MyMSOS20Descr) /\ Whole(MyWebUSBURLDescr)
    /\ \A b : \A i \in 0 .. 3 : Whole(StringDescr(b, i))
<1>1. Whole(MyDevDescr)
  <2>1. /\ \A i \in 0 .. 3 : Ask("string", i, 255) \in Asks
        /\ {Ask("config", 0, 9), Ask("qualifier", 0, 10), Ask("bos", 0, 5)} \subseteq Asks
    BY DEF Asks
  <2> QED
    BY <2>1, OnePart DEF MyDevDescr
<1>2. Whole(MyQuaDescr)
  <2>1. Ask("otherSpeed", 0, 9) \in Asks
    BY DEF Asks
  <2> QED
    BY <2>1, OnePart DEF MyQuaDescr
<1>3. Whole(MyMSOS20Descr)
  <2>1. Whole(Table(10 + 20, <<Part(10, {}), Part(20, {})>>))
    BY TwoParts
  <2> QED
    BY <2>1 DEF MyMSOS20Descr
<1>4. Whole(MyWebUSBURLDescr)
  <2>1. Whole(Table(3 + 38, <<Part(3, {}), Part(38, {})>>))
    BY TwoParts
  <2> QED
    BY <2>1 DEF MyWebUSBURLDescr
<1>5. ASSUME NEW b, NEW i \in 0 .. 3 PROVE Whole(StringDescr(b, i))
  <2>1. \A len \in {4, 14, 18, 34, 38, 46} : Whole(Table(len, <<Part(len, {})>>))
    BY OnePart
  <2>2. StringDescr(b, i) \in {Table(len, <<Part(len, {})>>) : len \in {4, 14, 18, 34, 38, 46}}
    <3>1. i = 0 \/ i = 1 \/ i = 2 \/ i = 3
      OBVIOUS
    <3> QED
      BY <3>1 DEF StringDescr, UTF16
  <2> QED
    BY <2>1, <2>2
<1> QED
  BY <1>1, <1>2, <1>3, <1>4, <1>5, BosWhole

\* What a request is.
LEMMA AskKinds ==
    ASSUME NEW a \in Asks
    PROVE  /\ a.wLength \in Nat
           /\ \/ a.kind \in {"device", "config", "bos", "qualifier", "otherSpeed"}
              \/ a.kind = "string" /\ a.value \in 0 .. 3
              \/ a.kind = "vendor" /\ a.code = 1 /\ a.index = 7 /\ a.wLength = 30
              \/ a.kind = "vendor" /\ a.code = 4 /\ a.index = 2 /\ a.value = 1 /\ a.wLength = 255
  BY DEF Asks, Ask, VendorAsk

\* Every switch answers what a table may name.
LEMMA LookupOK ==
    ASSUME EnumInv, NEW a \in Asks
    PROVE  /\ IF Lookup(a) = NoTable THEN a.kind \in MayStall ELSE Whole(Lookup(a))
           /\ a.kind = "config" => Lookup(a) \in Configs(device)
           /\ a.kind = "vendor" => Lookup(a).told <= a.wLength
<1>0. device \in {"CH592", "CH32L103", "CH585", "CH32V307"} /\ line \in {"full", "high"}
  BY EnumAssumption DEF EnumInv
<1>a. NoTable.told = 0 /\ \A t : Whole(t) => t # NoTable
  BY DEF NoTable, Table, Whole
<1>1. CASE a.kind = "vendor"
  <2>1. Lookup(a) = VendorRequest(a)
    BY <1>1 DEF Lookup
  <2>2. CASE a.code = 1 /\ a.index = 7 /\ a.wLength = 30
    <3>1. Lookup(a) = MyMSOS20Descr
      BY <2>1, <2>2 DEF VendorRequest, MS_OS_20_VENDOR_CODE, MS_OS_20_DESCRIPTOR_INDEX,
                        WEBUSB_VENDOR_CODE
    <3>2. MyMSOS20Descr.told = 30
      BY DEF MyMSOS20Descr, Table
    <3> QED
      BY <1>1, <1>a, <2>2, <3>1, <3>2, TablesWhole
  <2>3. CASE a.code = 4 /\ a.index = 2 /\ a.value = 1 /\ a.wLength = 255
    <3>1. Lookup(a) = MyWebUSBURLDescr
      BY <2>1, <2>3 DEF VendorRequest, MS_OS_20_VENDOR_CODE, MS_OS_20_DESCRIPTOR_INDEX,
                        WEBUSB_VENDOR_CODE, WEBUSB_GET_URL_INDEX, WEBUSB_LANDING_PAGE_INDEX
    <3>2. MyWebUSBURLDescr.told = 41
      BY DEF MyWebUSBURLDescr, Table
    <3> QED
      BY <1>1, <1>a, <2>3, <3>1, <3>2, TablesWhole
  <2> QED
    BY <1>1, <2>2, <2>3, AskKinds
<1>2. CASE a.kind # "vendor"
  <2>1. Lookup(a) = IF device \in HighSpeed THEN GetDescriptorCH585(a) ELSE GetDescriptorCH592(a)
    BY <1>0, <1>2 DEF Lookup, HighSpeed, GetDescriptorL103, GetDescriptorV307
  <2>2. CASE a.kind = "config"
    <3>1. Lookup(a) \in Configs(device)
      <4>1. CASE device \in HighSpeed
        BY <1>0, <2>1, <2>2, <4>1 DEF GetDescriptorCH585, Configs
      <4>2. CASE device \notin HighSpeed
        <5>1. MyCfgDescr = ConfigDescr(device, "full")
          BY <4>2 DEF ConfigDescr, HighSpeed
        <5> QED
          BY <2>1, <2>2, <4>2, <5>1 DEF GetDescriptorCH592, Configs
      <4> QED
        BY <4>1, <4>2
    <3>2. Whole(Lookup(a))
      BY <3>1, ConfigOK DEF Configs
    <3> QED
      BY <1>2, <1>a, <3>1, <3>2
  <2>3. CASE a.kind = "device"
    <3>1. Lookup(a) = MyDevDescr
      BY <2>1, <2>3 DEF GetDescriptorCH585, GetDescriptorCH592
    <3> QED
      BY <1>a, <2>3, <3>1, TablesWhole
  <2>4. CASE a.kind = "string" /\ a.value \in 0 .. 3
    <3>1. Lookup(a) = StringDescr(device, a.value)
      BY <2>1, <2>4 DEF GetDescriptorCH585, GetDescriptorCH592, String
    <3> QED
      BY <1>a, <2>4, <3>1, TablesWhole
  <2>5. CASE a.kind \in MayStall
    <3>1. Lookup(a) \in {NoTable, MyBOSDescr, MyQuaDescr, ConfigDescr(device, Other(devSpeed))}
      BY <2>1, <2>5 DEF GetDescriptorCH585, GetDescriptorCH592, MayStall
    <3>2. a.kind # "config" /\ a.kind # "vendor"
      BY <2>5 DEF MayStall
    <3> QED
      BY <2>5, <3>1, <3>2, TablesWhole, ConfigOK
  <2> QED
    BY <1>2, <2>2, <2>3, <2>4, <2>5, AskKinds DEF MayStall
<1> QED
  BY <1>1, <1>2

\* What arrives of a table names no more than the table does.
LEMMA NamedKnown == EnumInv => Named \subseteq Asks
<1> SUFFICES ASSUME EnumInv PROVE Named \subseteq Asks
  OBVIOUS
<1>1. Ask("device", 0, 18) \in Asks
  BY DEF Asks
<1>2. ASSUME NEW answer \in answers, NEW part \in Received(answer) PROVE part.names \subseteq Asks
  <2>1. PICK k \in DOMAIN answer.table.parts : part = answer.table.parts[k]
    BY DEF Received
  <2>2. AnswerOK(answer)
    BY DEF EnumInv
  <2>3. answer.table # NoTable
    BY <2>1 DEF NoTable, Table
  <2> QED
    BY <2>1, <2>2, <2>3 DEF AnswerOK, Stalled, Whole
<1> QED
  BY <1>1, <1>2 DEF Named

LEMMA EnumStep == EnumInv /\ [EnumNext]_enumVars => EnumInv'
<1> SUFFICES ASSUME EnumInv, [EnumNext]_enumVars PROVE EnumInv'
  OBVIOUS
<1>0. ASSUME device' = device, NEW answer, AnswerOK(answer) PROVE AnswerOK(answer)'
  BY <1>0 DEF AnswerOK, Stalled, Configs
<1>1. CASE Request
  <2>1. PICK a \in Named : answers' = answers \cup {Answer(a)}
    BY <1>1 DEF Request
  <2>2. device' = device /\ line' = line
    BY <1>1 DEF Request
  <2>3. AnswerOK(Answer(a))
    <3>1. a \in Asks
      BY NamedKnown
    <3>2. /\ Answer(a).ask = a /\ Answer(a).table = Lookup(a)
          /\ Answer(a).bytes = Shorter(a.wLength, Lookup(a).told)
      BY DEF Answer
    <3> QED
      BY <3>1, <3>2, LookupOK DEF AnswerOK, Stalled
  <2> QED
    BY <1>0, <2>1, <2>2, <2>3 DEF EnumInv
<1>2. CASE Restart
  <2>1. device' = device /\ answers' = {} /\ line' \in {"full", "high"}
    BY <1>2 DEF Restart
  <2> QED
    BY <2>1 DEF EnumInv
<1>3. CASE UNCHANGED enumVars
  BY <1>0, <1>3 DEF enumVars, EnumInv
<1> QED
  BY <1>1, <1>2, <1>3 DEF EnumNext

LEMMA EnumStart == EnumInit => EnumInv
  BY DEF EnumInit, EnumInv

\* On every board, at either speed and whatever the order of the host's requests
\* and however often the bus is reset, a descriptor that another one names exists
\* and is as long as said: the numbers written by hand in usb_desc.c are those of
\* the tables, and the codes in the BOS those that usbd_winusb.c tests.
THEOREM DescriptorsKeepPromises == EnumSpec => []PromisesKept
<1>1. EnumInv => PromisesKept
  BY AskKinds DEF EnumInv, PromisesKept, AnswerOK, Whole, Shorter
<1> QED
  BY <1>1, EnumStart, EnumStep, PTL DEF EnumSpec

\* On every board and at either speed, the endpoints of the configuration are the
\* ones that the driver enables, as many as bNumEndpoints.
THEOREM EndpointsAgree == EnumSpec => []EndpointsMatch
<1>1. EnumInv => EndpointsMatch
  <2> SUFFICES ASSUME EnumInv, NEW answer \in answers, answer.ask.kind = "config",
                      answer.bytes = answer.table.told
               PROVE  LET found == UNION {part.endpoints : part \in Received(answer)} IN
                      /\ {<<e.num, e.dir>> : e \in found} = Enabled(device)
                      /\ \E part \in Received(answer) : part.announced = Cardinality(found)
    BY DEF EndpointsMatch
  <2>1. answer.table \in Configs(device)
    BY DEF EnumInv, AnswerOK
  <2>2. Matches(answer.table, Enabled(device))
    BY <2>1, ConfigOK DEF Configs
  <2> QED
    BY <2>2 DEF Matches
<1> QED
  BY <1>1, EnumStart, EnumStep, PTL DEF EnumSpec
=============================================================================
