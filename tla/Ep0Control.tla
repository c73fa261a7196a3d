----------------------------- MODULE Ep0Control -----------------------------
(***************************************************************************)
(* Control transfers on endpoint 0 of the four USB drivers: the SETUP      *)
(* stage, the packets of the data stage that the IN interrupt feeds one    *)
(* after the other, the address that takes effect with the status stage,   *)
(* and the bus reset; against a host that may give a transfer up at any    *)
(* time and start another, and a wire that loses its handshakes.           *)
(*                                                                         *)
(* The drivers cut and feed an answer in the same way.  They differ in     *)
(* when the endpoint accepts the OUT packet of the status stage, and in    *)
(* what it is left armed with after a packet that is the last.             *)
(*                                                                         *)
(* A request is what the code distinguishes of it: GET_DESCRIPTOR and the  *)
(* vendor requests with data, whose answer is read from a pointer packet   *)
(* by packet; the standard requests answered with one or two bytes; those  *)
(* without data; those refused.  Byte k of the answer to the n-th request  *)
(* of the host is <<n, k>>.  The requests of the model have no OUT data.   *)
(***************************************************************************)
EXTENDS Integers, Sequences

CONSTANTS
    Boards,       \* the boards of the run
    PacketSize,   \* DEF_USBD_UEP0_SIZE
    Sizes,        \* lengths of the descriptors and vendor answers
    WLengths,     \* wLength the host asks with
    Addresses,    \* addresses the host assigns
    MaxTransfers, \* bound: control transfers
    MaxResets,    \* bound: bus resets
    MaxLost       \* bound: handshakes lost on the wire

ASSUME ConstantsAssumption ==
    /\ Boards \subseteq {"CH592F", "CH32L103", "CH585M", "CH32V307"}
    /\ PacketSize \in Nat \ {0, 1, 2}
    /\ Sizes \subseteq Nat /\ WLengths \subseteq Nat /\ Addresses \subseteq Nat \ {0}
    /\ {MaxTransfers, MaxResets, MaxLost} \subseteq Nat

VARIABLES
    board,
    req,        \* the request the device is at: SetupReqType, SetupReqCode
    setupLen,   \* SetupReqLen
    descr,      \* the descriptor pointer: the next byte of the answer
    newAddr,    \* DevAddr
    address,    \* the address register
    txBuf, txRes, txTog,    \* the packet in the EP0 buffer, its response and toggle
    rxRes,      \* response to OUT
    xferInt, resetInt,      \* interrupts raised
    stage,      \* where the host is in its transfer
    asked,      \* its request
    got, hostTog, hostAddr, \* what it has received, expects and where it sends to
    transfers, resets, lost

devVars == <<board, req, setupLen, descr, newAddr, address, txBuf, txRes, txTog, rxRes>>
countVars == <<transfers, resets, lost>>
hostVars == <<stage, asked, got, hostTog, hostAddr>>
vars == <<devVars, xferInt, resetInt, hostVars, countVars>>

Streamed == {"descriptor", "vendor"}
Requests ==
    [kind : Streamed, size : Sizes, wLength : WLengths, addr : {0}]
    \cup [kind : {"short"}, size : {1, 2}, wLength : WLengths, addr : {0}]
    \cup [kind : {"refused"}, size : {0}, wLength : WLengths, addr : {0}]
    \cup [kind : {"config", "ack"}, size : {0}, wLength : {0}, addr : {0}]
    \cup [kind : {"address"}, size : {0}, wLength : {0}, addr : Addresses]
NoRequest == [kind |-> "config", size |-> 0, wLength |-> 0, addr |-> 0]

Smaller(a, b) == IF a < b THEN a ELSE b
Packet(n, from, len) == [k \in 1 .. len |-> <<n, from + k - 1>>]

TypeOK ==
    /\ board \in Boards
    /\ {req, asked} \subseteq Requests \cup {NoRequest}
    /\ setupLen \in Nat /\ descr \in Nat
    /\ newAddr \in Addresses \cup {0} /\ {address, hostAddr} \subseteq Addresses \cup {0}
    /\ txBuf \in Seq(Nat \X Nat) /\ Len(txBuf) <= PacketSize
    /\ {txRes, rxRes} \subseteq {"ACK", "NAK", "STALL"}
    /\ {txTog, hostTog} \subseteq {0, 1}
    /\ xferInt \in {"none", "setup", "in", "out"} /\ resetInt \in BOOLEAN
    /\ stage \in {"idle", "data", "statusIn", "statusOut"}
    /\ got \in Seq(Nat \X Nat)
    /\ {transfers, resets, lost} \subseteq Nat

Init ==
    /\ board \in Boards
    /\ req = NoRequest /\ setupLen = 0 /\ descr = 0 /\ newAddr = 0 /\ address = 0
    /\ txBuf = << >> /\ txRes = "NAK" /\ txTog = 0 /\ rxRes = "ACK"
    /\ xferInt = "none" /\ resetInt = FALSE
    /\ stage = "idle" /\ asked = NoRequest /\ got = << >> /\ hostTog = 1 /\ hostAddr = 0
    /\ transfers = 0 /\ resets = 0 /\ lost = 0

(***************************************************************************)
(* The SETUP branch of the interrupt handlers.                             *)
(***************************************************************************)

\* Mutation: the answer is not cut to wLength.
SetupStage_NoCut(accepting) ==
    /\ xferInt = "setup" /\ xferInt' = "none"
    /\ req' = asked /\ txTog' = 1
    /\ newAddr' = IF asked.kind = "address" THEN asked.addr ELSE newAddr
    /\ LET first == Smaller(asked.size, PacketSize) IN
       /\ txBuf' = Packet(transfers, 0, first)
       /\ descr' = IF asked.kind \in Streamed THEN first ELSE descr
       /\ setupLen' = asked.size - first
    /\ txRes' = IF asked.kind = "refused" THEN "STALL" ELSE "ACK"
    /\ rxRes' = IF asked.kind = "refused" THEN "STALL" ELSE accepting
    /\ UNCHANGED <<board, address, resetInt, hostVars, countVars>>

\* The answer is cut to wLength, its first packet armed with DATA1, or an
\* empty one for the status stage; a request not known is stalled.
SetupStage(accepting) ==
    /\ xferInt = "setup" /\ xferInt' = "none"
    /\ req' = asked /\ txTog' = 1
    /\ newAddr' = IF asked.kind = "address" THEN asked.addr ELSE newAddr
    /\ LET len == Smaller(asked.wLength, asked.size)
           first == Smaller(len, PacketSize) IN
       /\ txBuf' = Packet(transfers, 0, first)
       /\ descr' = IF asked.kind \in Streamed THEN first ELSE descr
       /\ setupLen' = len - first
    /\ txRes' = IF asked.kind = "refused" THEN "STALL" ELSE "ACK"
    /\ rxRes' = IF asked.kind = "refused" THEN "STALL" ELSE accepting
    /\ UNCHANGED <<board, address, resetInt, hostVars, countVars>>

\* CH592F accepts the status stage of a request with data from the beginning,
\* CH32L103 and CH32V307 not yet; CH585M leaves the response as it was.
SetupCH592 == board = "CH592F" /\ SetupStage("ACK")
SetupL103 == board = "CH32L103" /\ SetupStage("NAK")
SetupCH585 == board = "CH585M" /\ SetupStage(rxRes)
SetupV307 == board = "CH32V307" /\ SetupStage("NAK")

(***************************************************************************)
(* The EP0 IN branch.                                                      *)
(***************************************************************************)

\* Mutation: the last packet is followed by NAK, with no empty one.
NextPacket_NoEmptyPacket ==
    /\ req.kind \in Streamed \cup {"ack"}
    /\ LET len == Smaller(setupLen, PacketSize) IN
       /\ txBuf' = Packet(transfers, descr, len)
       /\ setupLen' = setupLen - len /\ descr' = descr + len
       /\ txRes' = IF len = 0 THEN "NAK" ELSE txRes
    /\ txTog' = 1 - txTog
    /\ UNCHANGED address

\* GET_DESCRIPTOR and the vendor requests: the next packet of the answer; past
\* its end an empty one.
NextPacket ==
    /\ req.kind \in Streamed \cup {"ack"}
    /\ LET len == Smaller(setupLen, PacketSize) IN
       /\ txBuf' = Packet(transfers, descr, len)
       /\ setupLen' = setupLen - len /\ descr' = descr + len
    /\ txTog' = 1 - txTog
    /\ UNCHANGED <<txRes, address>>

\* Mutation: USBHS_DevAddr is not taken over.
TakeAddress_Forgotten == UNCHANGED address

\* The address of SET_ADDRESS takes effect with the status stage.
TakeAddress == address' = IF req.kind = "address" THEN newAddr ELSE address

InStage ==
    /\ xferInt = "in" /\ xferInt' = "none"
    /\ UNCHANGED <<board, req, newAddr, resetInt, hostVars, countVars>>

\* CH592F: a request of one packet leaves the endpoint at NAK.
InCH592 ==
    /\ board = "CH592F" /\ InStage
    /\ \/ NextPacket /\ UNCHANGED rxRes
       \/ /\ req.kind \notin Streamed \cup {"ack"}
          /\ TakeAddress
          /\ txBuf' = IF req.kind = "address" THEN txBuf ELSE << >>
          /\ txRes' = "NAK" /\ txTog' = 0 /\ rxRes' = "ACK"
          /\ UNCHANGED <<setupLen, descr>>

\* The other drivers accept the status stage once nothing is left to be sent.
StatusOpens == rxRes' = IF setupLen = 0 THEN "ACK" ELSE rxRes

\* ... and leave a request of one packet armed: CH32L103 with the same packet,
InL103 ==
    /\ board = "CH32L103" /\ InStage /\ StatusOpens
    /\ \/ NextPacket
       \/ /\ req.kind \notin Streamed \cup {"ack"}
          /\ TakeAddress
          /\ UNCHANGED <<txBuf, txRes, txTog, setupLen, descr>>

\* the high-speed ones with an empty one.
InHighSpeed ==
    /\ InStage /\ StatusOpens
    /\ \/ NextPacket
       \/ /\ req.kind \notin Streamed \cup {"ack"}
          /\ TakeAddress
          /\ txBuf' = IF req.kind = "address" THEN txBuf ELSE << >>
          /\ UNCHANGED <<txRes, txTog, setupLen, descr>>
InCH585 == board = "CH585M" /\ InHighSpeed
InV307 == board = "CH32V307" /\ InHighSpeed

(***************************************************************************)
(* The EP0 OUT branch, which here is always a status stage.                *)
(***************************************************************************)

OutStage ==
    /\ xferInt = "out" /\ xferInt' = "none"
    /\ UNCHANGED <<board, req, setupLen, descr, newAddr, address, resetInt, hostVars, countVars>>

\* Nothing to do on the full-speed drivers.
OutFullSpeed ==
    /\ board \in {"CH592F", "CH32L103"} /\ OutStage
    /\ UNCHANGED <<txBuf, txRes, txTog, rxRes>>

\* The high-speed ones take it for OUT data and arm a status stage to it;
\* CH585M refuses any further OUT packet.
OutCH585 ==
    /\ board = "CH585M" /\ OutStage /\ rxRes' = "NAK"
    /\ IF setupLen = 0 THEN txBuf' = << >> /\ txRes' = "ACK" /\ txTog' = 1
       ELSE UNCHANGED <<txBuf, txRes, txTog>>
OutV307 ==
    /\ board = "CH32V307" /\ OutStage /\ UNCHANGED rxRes
    /\ IF setupLen = 0 THEN txBuf' = << >> /\ txRes' = "ACK" /\ txTog' = 1
       ELSE UNCHANGED <<txBuf, txRes, txTog>>

(***************************************************************************)
(* A bus reset: back to address 0; a request in progress is not forgotten. *)
(***************************************************************************)

ResetStage ==
    /\ resetInt /\ xferInt = "none" /\ resetInt' = FALSE
    /\ newAddr' = 0 /\ address' = 0
    /\ txRes' = "NAK" /\ txTog' = 0 /\ rxRes' = "ACK"
    /\ UNCHANGED <<board, req, setupLen, descr, xferInt, hostVars, countVars>>
ResetFullSpeed == board \in {"CH592F", "CH32L103"} /\ ResetStage /\ UNCHANGED txBuf
ResetHighSpeed == board \in {"CH585M", "CH32V307"} /\ ResetStage /\ txBuf' = << >>

Isr ==
    \/ SetupCH592 \/ SetupL103 \/ SetupCH585 \/ SetupV307
    \/ InCH592 \/ InL103 \/ InCH585 \/ InV307
    \/ OutFullSpeed \/ OutCH585 \/ OutV307
    \/ ResetFullSpeed \/ ResetHighSpeed

(***************************************************************************)
(* The host.                                                               *)
(***************************************************************************)

\* The serial engine answers NAK while an interrupt is pending, and the host
\* is quiet while it resets the bus; a token for another address is ignored.
Reachable == xferInt = "none" /\ ~resetInt /\ hostAddr = address

\* A new transfer; the one before is over, or given up after a timeout.
HostSetup ==
    /\ Reachable
    /\ transfers < MaxTransfers /\ transfers' = transfers + 1
    /\ asked' \in Requests
    /\ xferInt' = "setup" /\ got' = << >> /\ hostTog' = 1
    /\ stage' = IF asked'.wLength = 0 THEN "statusIn" ELSE "data"
    /\ UNCHANGED <<devVars, resetInt, hostAddr, resets, lost>>

\* A packet of the data stage that the host wants: it knows where the answer
\* ends by wLength or by a packet that is not full.
TakeData ==
    /\ got' = got \o txBuf
    /\ hostTog' = 1 - hostTog
    /\ stage' = IF Len(txBuf) < PacketSize \/ Len(got') >= asked.wLength
                THEN "statusOut" ELSE "data"

HostData ==
    /\ Reachable /\ stage = "data" /\ txRes = "ACK" /\ txTog = hostTog
    /\ TakeData /\ xferInt' = "in"
    /\ UNCHANGED <<devVars, resetInt, asked, hostAddr, countVars>>

\* The acknowledgement is lost: the device offers the packet once more ...
HostDataLost ==
    /\ Reachable /\ stage = "data" /\ txRes = "ACK" /\ txTog = hostTog
    /\ lost < MaxLost /\ lost' = lost + 1
    /\ TakeData
    /\ UNCHANGED <<devVars, xferInt, resetInt, asked, hostAddr, transfers, resets>>

\* ... and the host acknowledges and drops what it has.
HostDrop ==
    /\ Reachable /\ stage = "data" /\ txRes = "ACK" /\ txTog # hostTog
    /\ xferInt' = "in"
    /\ UNCHANGED <<devVars, resetInt, hostVars, countVars>>

HostStatusOut ==
    /\ Reachable /\ stage = "statusOut" /\ rxRes = "ACK"
    /\ stage' = "idle" /\ xferInt' = "out"
    /\ UNCHANGED <<devVars, resetInt, asked, got, hostTog, hostAddr, countVars>>

\* The device's acknowledgement is lost: the host will try again.
HostStatusLost ==
    /\ Reachable /\ stage = "statusOut" /\ rxRes = "ACK"
    /\ lost < MaxLost /\ lost' = lost + 1
    /\ xferInt' = "out"
    /\ UNCHANGED <<devVars, resetInt, hostVars, transfers, resets>>

HostStatusIn ==
    /\ Reachable /\ stage = "statusIn" /\ txRes = "ACK"
    /\ txBuf = << >> /\ txTog = hostTog
    /\ stage' = "idle" /\ xferInt' = "in"
    /\ hostAddr' = IF asked.kind = "address" THEN asked.addr ELSE hostAddr
    /\ UNCHANGED <<devVars, resetInt, asked, got, hostTog, countVars>>

HostStalled ==
    /\ Reachable
    /\ \/ stage \in {"data", "statusIn"} /\ txRes = "STALL"
       \/ stage = "statusOut" /\ rxRes = "STALL"
    /\ stage' = "idle"
    /\ UNCHANGED <<devVars, xferInt, resetInt, asked, got, hostTog, hostAddr, countVars>>

BusReset ==
    /\ ~resetInt /\ resets < MaxResets /\ resets' = resets + 1
    /\ resetInt' = TRUE /\ stage' = "idle" /\ hostAddr' = 0
    /\ UNCHANGED <<devVars, xferInt, asked, got, hostTog, transfers, lost>>

HostGoesOn == HostData \/ HostDrop \/ HostStatusOut \/ HostStatusIn \/ HostStalled

Next == Isr \/ HostSetup \/ HostDataLost \/ HostStatusLost \/ HostGoesOn \/ BusReset

Spec == Init /\ [][Next]_vars

\* Interrupts are served and the host goes on with the transfer it is in.
FairSpec == Spec /\ WF_vars(Isr) /\ WF_vars(HostGoesOn)

-----------------------------------------------------------------------------

\* The host has the answer to its own request, from the first byte on, no byte
\* twice or left out, whatever transfer it gave up before; and once it goes on
\* to the status stage it has all it asked for, no more.
AnswerExact ==
    LET all == Smaller(asked.wLength, asked.size) IN
    /\ \A k \in 1 .. Len(got) : got[k] = <<transfers, k - 1>>
    /\ Len(got) <= all
    /\ stage = "statusOut" => Len(got) = all

\* Between transfers the device answers at the address the host sends to,
\* also after an assignment given up before its status stage and a reset.
AddressAgrees == ~resetInt /\ xferInt = "none" => address = hostAddr

\* The last acknowledgement of a data stage, or that of the status stage, was
\* lost, and the endpoint refuses the OUT packet that would end the transfer.
HeldUp == lost > 0 /\ board # "CH592F" /\ stage = "statusOut" /\ rxRes = "NAK"

\* Every transfer comes to an end: no packet is waited for that is not armed.
\* With a handshake lost only CH592F promises that; the others may leave the
\* host to its timeout in the status stage, and nowhere else.
TransferEnds == stage # "idle" ~> (stage = "idle" \/ HeldUp)
=============================================================================
