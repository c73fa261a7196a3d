---------------------------- MODULE Enumeration ----------------------------
(***************************************************************************)
(* What a host finds out about each of the four boards: the descriptor     *)
(* tables of usb_desc.c, the GET_DESCRIPTOR switches of the drivers and    *)
(* the requests of WinUSB_ProcessVendorRequest that return data.  How an   *)
(* answer travels in packets is the subject of Ep0Control.                 *)
(*                                                                         *)
(* The host starts with the device descriptor and asks, in any order, for  *)
(* whatever the answers so far name: strings, the configuration by its     *)
(* header first and then by the length in it, the capabilities of the BOS, *)
(* and through their vendor codes the Microsoft and WebUSB descriptors.  A *)
(* bus reset makes it start again, perhaps at another speed.               *)
(***************************************************************************)
EXTENDS Integers, Sequences, FiniteSets

CONSTANTS
    Devices,       \* the boards enumerated
    MaxRestarts    \* bound: bus resets, after which the host starts again

ASSUME EnumAssumption ==
    /\ Devices \subseteq {"CH592", "CH32L103", "CH585", "CH32V307"}
    /\ MaxRestarts \in Nat

VARIABLES
    device,
    line,          \* the speed negotiated by the last reset
    devSpeed,      \* USBHS_DevSpeed: the speed at the last request for a configuration
    answers,       \* [ask, table, bytes] since the last bus reset
    restarts

enumVars == <<device, line, devSpeed, answers, restarts>>

HighSpeed == {"CH585", "CH32V307"}

\* A request with its wLength.
Ask(kind, value, wLength) ==
    [kind |-> kind, code |-> 6, index |-> 0, value |-> value, wLength |-> wLength]
VendorAsk(code, index, value, wLength) ==
    [kind |-> "vendor", code |-> code, index |-> index, value |-> value, wLength |-> wLength]

(***************************************************************************)
(* usb_desc.c.  A table is what the driver takes for its length, and its   *)
(* parts: their length, the asks a host takes from them, the endpoints     *)
(* they describe or announce.                                              *)
(***************************************************************************)

Part(len, names) == [len |-> len, names |-> names, endpoints |-> {}, announced |-> 0]
Endpoint(num, dir, size) ==
    [len |-> 7, names |-> {}, announced |-> 0,
     endpoints |-> {[num |-> num, dir |-> dir, size |-> size]}]
Table(told, parts) == [told |-> told, parts |-> parts]

\* Where each part ends, and the table with the last.
Ends(parts) ==
    LET end[n \in 0 .. Len(parts)] == IF n = 0 THEN 0 ELSE end[n - 1] + parts[n].len
    IN  end
Size(table) == Ends(table.parts)[Len(table.parts)]

\* bcdUSB 2.10, iManufacturer to iSerialNumber, one configuration.
MyDevDescr ==
    Table(18, <<Part(18, {Ask("string", i, 255) : i \in 0 .. 3}
                         \cup {Ask("config", 0, 9), Ask("qualifier", 0, 10), Ask("bos", 0, 5)})>>)

\* Header and vendor interface: wTotalLength and bNumEndpoints.
CfgHead(total, num) ==
    <<Part(9, {Ask("config", 0, total)}), [Part(9, {}) EXCEPT !.announced = num]>>

MyCfgDescr == Table(32, CfgHead(32, 2) \o <<Endpoint(1, "IN", 8), Endpoint(2, "IN", 64)>>)
MyCfgDescr_HS == Table(32, CfgHead(32, 2) \o <<Endpoint(1, "IN", 8), Endpoint(2, "IN", 512)>>)

\* The trigger endpoint of CH32V307.  Mutation: the total of the other boards.
Cfg307_TotalOfOthers(size) ==
    Table(32, CfgHead(32, 3) \o
              <<Endpoint(1, "IN", 8), Endpoint(1, "OUT", 64), Endpoint(2, "IN", size)>>)
Cfg307(size) ==
    Table(39, CfgHead(39, 3) \o
              <<Endpoint(1, "IN", 8), Endpoint(1, "OUT", 64), Endpoint(2, "IN", size)>>)

ConfigDescr(b, speed) ==
    CASE b = "CH32V307" -> Cfg307(IF speed = "high" THEN 512 ELSE 64)
      [] b = "CH585" /\ speed = "high" -> MyCfgDescr_HS
      [] OTHER -> MyCfgDescr

MyQuaDescr == Table(10, <<Part(10, {Ask("otherSpeed", 0, 9)})>>)

\* bLength, and the characters that follow: "CH592F" or "CH585M" against
\* "CH32L103" or "CH32V307" in the manufacturer and the serial number.
UTF16(bLength, chars) == Table(bLength, <<Part(2 + 2 * chars, {})>>)
StringDescr(b, i) ==
    LET long == b \in {"CH32L103", "CH32V307"} IN
    CASE i = 0 -> Table(4, <<Part(4, {})>>)
      [] i = 1 -> IF long THEN UTF16(18, 8) ELSE UTF16(14, 6)
      [] i = 2 -> UTF16(46, 22)
      [] i = 3 -> IF long THEN UTF16(38, 18) ELSE UTF16(34, 16)

MS_OS_20_VENDOR_CODE == 1
MS_OS_20_DESCRIPTOR_INDEX == 7
WEBUSB_VENDOR_CODE == 4
WEBUSB_GET_URL_INDEX == 2
WEBUSB_LANDING_PAGE_INDEX == 1

\* The wIndex of either vendor request is not in the table: its specification
\* gives it to the host.
MyBOSDescr ==
    Table(57, <<Part(5, {Ask("bos", 0, 57)}),
                Part(28, {VendorAsk(MS_OS_20_VENDOR_CODE, 7, 0, 30)}),
                Part(24, {VendorAsk(WEBUSB_VENDOR_CODE, 2, WEBUSB_LANDING_PAGE_INDEX, 255)})>>)

MyMSOS20Descr == Table(30, <<Part(10, {}), Part(20, {})>>)
MyWebUSBURLDescr == Table(41, <<Part(3, {}), Part(38, {})>>)

\* The endpoints each driver enables beside endpoint 0.
EnabledFullSpeed == {<<1, "IN">>, <<2, "IN">>}
EnabledCH585 == {<<1, "IN">>, <<2, "IN">>}
EnabledV307 == {<<1, "IN">>, <<2, "IN">>, <<1, "OUT">>}

Enabled(b) ==
    CASE b = "CH585" -> EnabledCH585
      [] b = "CH32V307" -> EnabledV307
      [] OTHER -> EnabledFullSpeed

(***************************************************************************)
(* The switches.  NoTable is a STALL.                                      *)
(***************************************************************************)

NoTable == Table(0, << >>)
Other(speed) == IF speed = "high" THEN "full" ELSE "high"
String(b, i) == IF i \in 0 .. 3 THEN StringDescr(b, i) ELSE NoTable

\* Mutation: a switch without the BOS.
GetDescriptorCH592_NoBos(a) ==
    CASE a.kind = "device" -> MyDevDescr
      [] a.kind = "config" -> MyCfgDescr
      [] a.kind = "string" -> String(device, a.value)
      [] OTHER -> NoTable

GetDescriptorCH592(a) ==
    CASE a.kind = "device" -> MyDevDescr
      [] a.kind = "config" -> MyCfgDescr
      [] a.kind = "bos" -> MyBOSDescr
      [] a.kind = "string" -> String(device, a.value)
      [] OTHER -> NoTable

\* The same cases in the driver of CH32L103.
GetDescriptorL103(a) == GetDescriptorCH592(a)

\* A configuration for the speed of the line, which is remembered; the one for
\* the other speed by what is remembered.  BOS: "not supported".
GetDescriptorCH585(a) ==
    CASE a.kind = "device" -> MyDevDescr
      [] a.kind = "config" -> ConfigDescr(device, line)
      [] a.kind = "string" -> String(device, a.value)
      [] a.kind = "qualifier" -> MyQuaDescr
      [] a.kind = "otherSpeed" -> ConfigDescr(device, Other(devSpeed))
      [] OTHER -> NoTable

\* The same cases in the driver of CH32V307.
GetDescriptorV307(a) == GetDescriptorCH585(a)

\* Mutation: the indices of the two requests are mixed up.
VendorRequest_Swapped(a) ==
    CASE a.code = MS_OS_20_VENDOR_CODE /\ a.index = WEBUSB_GET_URL_INDEX -> MyMSOS20Descr
      [] a.code = WEBUSB_VENDOR_CODE /\ a.index = MS_OS_20_DESCRIPTOR_INDEX -> MyWebUSBURLDescr
      [] OTHER -> NoTable

\* WinUSB_ProcessVendorRequest, the two requests a host learns from the BOS.
VendorRequest(a) ==
    CASE a.code = MS_OS_20_VENDOR_CODE /\ a.index = MS_OS_20_DESCRIPTOR_INDEX -> MyMSOS20Descr
      [] a.code = WEBUSB_VENDOR_CODE /\ a.index = WEBUSB_GET_URL_INDEX
             /\ a.value = WEBUSB_LANDING_PAGE_INDEX -> MyWebUSBURLDescr
      [] OTHER -> NoTable

Lookup(a) ==
    IF a.kind = "vendor" THEN VendorRequest(a)
    ELSE CASE device = "CH592"    -> GetDescriptorCH592(a)
           [] device = "CH32L103" -> GetDescriptorL103(a)
           [] device = "CH585"    -> GetDescriptorCH585(a)
           [] device = "CH32V307" -> GetDescriptorV307(a)

Shorter(m, n) == IF m < n THEN m ELSE n

Answer(a) ==
    [ask |-> a, table |-> Lookup(a), bytes |-> Shorter(a.wLength, Lookup(a).told)]

(***************************************************************************)
(* The host.                                                               *)
(***************************************************************************)

\* The parts of an answer that have arrived whole.
Received(answer) ==
    {answer.table.parts[k] : k \in {n \in DOMAIN answer.table.parts :
        Ends(answer.table.parts)[n] <= answer.bytes}}

\* What the host may ask for next.
Named ==
    {Ask("device", 0, 18)}
        \cup UNION {part.names : part \in UNION {Received(answer) : answer \in answers}}

EnumInit ==
    /\ device \in Devices
    /\ line \in IF device \in HighSpeed THEN {"full", "high"} ELSE {"full"}
    /\ devSpeed = "full"
    /\ answers = {} /\ restarts = 0

Request ==
    /\ \E a \in Named \ {answer.ask : answer \in answers} :
           /\ answers' = answers \cup {Answer(a)}
           /\ devSpeed' = IF a.kind = "config" THEN line ELSE devSpeed
    /\ UNCHANGED <<device, line, restarts>>

\* A bus reset, perhaps with another speed negotiated after it.
Restart ==
    /\ restarts < MaxRestarts /\ restarts' = restarts + 1
    /\ answers' = {}
    /\ line' \in IF device \in HighSpeed THEN {"full", "high"} ELSE {"full"}
    /\ UNCHANGED <<device, devSpeed>>

EnumNext == Request \/ Restart

EnumSpec == EnumInit /\ [][EnumNext]_enumVars

\* The host goes on asking until it has nothing left to ask for.
FairEnumSpec == EnumSpec /\ WF_enumVars(Request)

-----------------------------------------------------------------------------

Stalled(answer) == answer.table = NoTable
MayStall == {"qualifier", "otherSpeed", "bos"}

\* What a descriptor names exists, and is as long as the header, the table or
\* the capability that names it says: no answer ends in the middle of a part or
\* runs on into the next table.  Only requests that a host tries on the chance
\* are stalled.
PromisesKept ==
    \A answer \in answers :
        IF Stalled(answer) THEN answer.ask.kind \in MayStall
        ELSE /\ answer.table.told = Size(answer.table)
             /\ answer.ask.kind = "vendor" => answer.bytes = answer.table.told

\* A host that has read a configuration opens exactly the endpoints that the
\* driver has enabled, as many as the interface announces.
EndpointsMatch ==
    \A answer \in answers :
        answer.ask.kind = "config" /\ answer.bytes = answer.table.told =>
            LET found == UNION {part.endpoints : part \in Received(answer)} IN
            /\ {<<e.num, e.dir>> : e \in found} = Enabled(device)
            /\ \E part \in Received(answer) : part.announced = Cardinality(found)

\* Every enumeration of a full-speed board that is left to finish finds the
\* descriptor that binds WINUSB and the URL of the page.
HasFound(table) == \E answer \in answers : answer.table = table /\ answer.bytes = table.told
CapabilitiesFound ==
    device \notin HighSpeed ~> (HasFound(MyMSOS20Descr) /\ HasFound(MyWebUSBURLDescr))

\* Three statements of the repository that the code does not keep to (README,
\* known deviations); no run checks them.
\* The high-speed boards advertise their capabilities as well (README.md:19).
CapabilitiesEverywhere == <>(HasFound(MyMSOS20Descr) /\ HasFound(MyWebUSBURLDescr))
\* The descriptor for the other speed is for the other speed.
OtherSpeedIsOther ==
    \A answer \in answers :
        answer.ask.kind = "otherSpeed" /\ ~Stalled(answer) =>
            answer.table = ConfigDescr(device, Other(line))
\* EP2 sends packets of the size its descriptor says: DEF_USBD_UEP2_SIZE is 64.
PacketsAreFull ==
    \A answer \in answers : answer.ask.kind = "config" =>
        \A part \in Received(answer) : \A e \in part.endpoints : e.num = 2 => e.size = 64
=============================================================================
