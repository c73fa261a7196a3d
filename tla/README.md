# Verification of the WebUSB demo firmwares

TLA+ specifications, model-checking runs and machine-checked proofs for the four
firmwares of this repository: CH592F (`ch592f/app`), CH32L103 (`ch32l103/User`),
CH585M (`ch585m/app`) and CH32V307 (`ch32v307/app`). All speak the same USB protocol:
vendor requests on EP0, button events on EP1, a synthetic 3 MB bitmap on EP2.

Every firmware is one main loop, `sched_update(SysTick_Millis()); FileXfer_Pump();`,
and one USB interrupt that preempts it anywhere. There is no operating system and,
with one exception, no lock: what keeps the two apart is the order of their stores, a
few flags, and the endpoint that answers NAK while its interrupt is pending. That, and
a host that resets, re-opens, aborts or loses handshakes, is what this project is about.

## 1. The system

| component | source | state | operations | interacts with |
|---|---|---|---|---|
| file transfer, CH592F | `filexfer.c`, EP2 part of `ch592_usbd_device.c` | packet ring, head, tail, generation position, `s_needArm`, `s_startReq`, `s_active`, detector counters; `R8_UEP2_CTRL`, DMA pointer | `FileXfer_Pump`, `FileXfer_FillCallback`, `FileXfer_Start`, `USBD_EP2_StartTransfer`, EP2 IN interrupt | main loop, USB interrupt and serial engine share all of it |
| file transfer, CH32L103 | `filexfer.c`, EP2 part of `ch32l103_usbfs_device.c` | ring, pixel walk | the same, but the interrupt generates too | no lock around the walk |
| file transfer, CH585M and CH32V307 | `filexfer.c` | four row buffers, `s_genRow`, `s_genPos` | rows generated ahead, packets cut out of them in the interrupt | the interrupt never asks whether the row is there |
| bitmap content | `GenerateChunk`, `GenerateRow`, `BuildBmpHeader` | pixel walk | generate, restart | called by the three above |
| button and events | `button.c`, EP1 part of the drivers | debounce counters, `USBD_EP1_TxBusy`, EP1 control, data toggle | `Button_PollTask`, `USBD_EP1_SendData`, EP1 IN interrupt, SET_CONFIGURATION, bus reset | scheduler calls the poll |
| scheduler | `sched.c` (the same on all boards) | table of slots, `s_used`, wrapping clock | `sched_add`, `sched_remove`, `sched_update` | tasks call back into it; SET_DEBOUNCE_MS calls it in the USB interrupt |
| control endpoint | EP0 part of the four drivers | request, remaining length, descriptor pointer, address | SETUP, IN, OUT, bus reset | looks descriptors up, dispatches vendor requests |
| descriptors | `usb_desc.c`, the GET_DESCRIPTOR switches of the drivers | tables; the remembered speed of the high-speed boards | look up, cut to `wLength` | a host follows the names it finds in them; the endpoints they announce are enabled in the drivers |
| vendor requests | `usbd_winusb.c` | none | one switch | SET_LED, SET_DEBOUNCE_MS, START_FILE_XFER act on the others |
| LED | `led_pwm.c` | brightness, heartbeat flag, PWM | heartbeat tick, SET_LED, GET_LED | tick in the main loop, SET_LED in the interrupt |
| debug UART, CH592F | `uart_tx.c` | byte ring, interrupt enable, FIFO | `UartTx_Write`, `UART1_IRQHandler` | |
| debug UART, CH32V307 | `uart_dma.c` | byte ring, DMA channel | `UartDma_Write`, transfer-complete interrupt | called by `_write` of `vendor/Debug/debug.c` when `DEBUG == DEBUG_UART3` |
| CPU load counters | `main.c`, ends of the USB interrupt | time sums | accumulate, read and clear | |
| main loop and tick counter | `main.c`, `systick.c` | registered tasks, milliseconds | register, `sched_update`, `FileXfer_Pump`, tick | runs all of the above; the interrupt may run at any point of it |
| vendored libraries, blink example | | | | see section 8 |

What makes each of them correct, and hard:

* **File transfer.** The host gets the packets of the file first to last, each once; a
  download always ends. Hard because generation, arming and completion belong to two
  actors; because EP2 transmits straight out of the buffers (zero copy); because a
  packet may be sent again, a restart may come at any time, and the host may reset its
  data toggle without a trace on the wire. CH592F repairs itself with two counters
  ("self-heal") that must neither be needed for ordinary progress nor do harm.
* **Events.** A press is reported once and whole; the endpoint never stays busy for ever.
* **Scheduler.** The table behaves as a set of timers although slots are freed, reused
  and moved while it is being scanned, and although time wraps around.
* **Control endpoint.** The host gets exactly the answer to its own request and the
  address changes with the right status stage, whatever it gave up before.
* **UART rings.** Bytes in order, none lost once accepted, transmitter never left asleep.
* **LED.** The last SET_LED wins.
* **Descriptors.** What one table names exists, is as long as said and agrees with the
  driver. Hard because five hand-written numbers in three files must agree on each of
  four boards, at two speeds.
* **Main loop.** No task and no request for a download starves or gets lost, however
  long the pump is busy and whatever the interrupt does to the table meanwhile.

`PROJECT.json` lists every hazard found, at its line, with the properties on it.

## 2. Modules

| module | models | abstract counterpart |
|---|---|---|
| `Ep2Ring` | CH592F file transfer with the host and the serial engine | `FileDownload` |
| `Ep2RingProofs` | theorems about `Ep2Ring`; those about hosts that finish their downloads are its second part, the refinement of `FileDownload` among them | |
| `IsrRing` | CH32L103 file transfer | `FileDownload` |
| `IsrProofs` | theorems about `IsrRing`, and about the file it carries, `BmpFile` | |
| `RowXfer` | CH585M and CH32V307 file transfer | `FileDownload` |
| `RowProofs` | theorems about `RowXfer` | |
| `FileDownload` | what a download promises: in order, each packet once | |
| `BmpFile` | the bytes of the file, both generators | closed form in the module |
| `ButtonEvents` | debounce and EP1 on the four boards | `EventBox` |
| `ButtonProofs` | theorems about `ButtonEvents`, its refinement of `EventBox` among them | |
| `EventBox` | what the events promise: a box that holds one report | |
| `Sched` | scheduler, with its callbacks and the request in the interrupt | `TimerSet` |
| `SchedProofs` | theorems about `Sched`, its refinement of `TimerSet` among them | |
| `TimerSet` | a set of timers | |
| `Ep0Control` | control transfers of the four drivers | |
| `Ep0Proofs` | theorems about `Ep0Control`, and about the descriptors it carries, `Enumeration` | |
| `Enumeration` | descriptors of the four boards, and a host that follows them | |
| `MainLoop` | `main()`: composes `Sched` and `LedPwm` with the taking over of downloads, the vendor requests and the tick | |
| `MainLoopProofs` | theorems about `MainLoop` | |
| `DebugUart` | the transmit rings of CH592F (interrupt) and CH32V307 (DMA) | |
| `UartProofs` | theorems about `DebugUart` | |
| `LedPwm` | LED brightness and heartbeat | |
| `MCEp2Ring`, `MCRowXfer`, `MCButtonEvents` | the kinds of board and host that the runs instantiate the modules with | |

Conventions. Variables keep the names of the C statics where they can; an action is
named for the function or the piece of it that it stands for. `pc` is where the main
loop stands inside the function that a module takes apart: every action of it is as
much code as no other actor can observe half done, so a read-modify-write of a shared
register is two actions with the loaded value in `ctrlCopy` between them. An interrupt
handler is one action: it is not preempted, and on the boards with `RB_UC_INT_BUSY` the
bus stands still for it as well. Definitions called `X_Something` before a definition
`X` are plausible bugs of `X`; each is used to check that a property notices it.

A **packet** is its number in the file (`Ep2Ring`, `RowXfer`), or its two halves, each
the place of the pixel walk it was generated from, where two actors can mix them
(`IsrRing`). Contents are the subject of `BmpFile` alone.

A **kind of board and host** is a record that a module's `Init` picks from a constant
(`Hosts`, `Uses`): which board it is, how often the host does what, and what it may do
in the middle of what. One run thus covers several of them, and the theorems hold for
all. `TypeOK` states the types of every module's variables; the runs named below check
it where an index or a bound could break it.

### Correspondence, module by module

**`Ep2Ring`.** The pump's points are `top` (test of `s_startReq`), `reset` (the section
with the interrupt disabled), `fill`, `gen`, `publish` (the loop: test, generate, store
`s_ringHead`), `finish` (`s_active`), `arm`, `clear`, `start` (`s_needArm`,
`USBD_EP2_StartTransfer`), `heal`, `stuck`, `flip`, `flipWrite` (self-heal; the last two
are load and store of `R8_UEP2_CTRL ^=`). `FillCallback` and `FillAndArm` are the
callback and the code around it that the IN interrupt and `USBD_EP2_StartTransfer`
share. `IsrIn`, `IsrStart`, `IsrConfig`, `IsrReset` are the branches of
`USB_IRQHandler`. The host starts, re-opens, configures, resets, polls, and loses
handshakes. `RB_UEP_AUTO_TOG` toggles on an acknowledgement.

**`IsrRing`.** As above with `FileXfer_Start` and the fallback of the callback
generating in the interrupt. `s_ringHead++` is one step. The toggle is left out: in
this module the host's and the device's always agree. It follows that re-opening, for
which this board has no detector, is outside the model.

**`RowXfer`.** `doubleBuffer` distinguishes the boards: on CH32V307 the toggle selects one
of two DMA pointer registers. `writing` is a row in the middle of `GenerateRow`.
These two chips have no `INT_BUSY`: a poll between a completion and its interrupt makes
the endpoint repeat the same packet, which a host drops for its toggle; that repetition
is not modelled. A row is regenerated over itself only with equal contents.

**`BmpFile`.** `ChunkBegin`, `ChunkByte` and `ChunkEnd` are a call of `GenerateChunk`, one
action for each turn of its loop; `chunk` and `done` are its `n` and `i`. The boards that
serve rows have one action per packet, and each generator has one for its restart, which
is in the pump like the chunks and never falls into one (where it does, on CH32L103, is the
subject of `IsrRing`). `RowPacket` presumes that the row served is the one generated, which
is what `RowXfer` is about. The header is modelled byte by byte, for `HeaderTells` reads it back.

**`ButtonEvents`.** The boards differ in when the busy
flag is set, in what SET_CONFIGURATION and a reset do. A pending interrupt preempts the
main loop before its next step. Events that the busy flag refuses are dropped by the
code on purpose; `EventsWhole` therefore allows gaps and no more, and `EventBox` says which:
a press is posted in a free box or refused by a full one. The box is neither a flag nor the
buffer, but what they amount to (`Waiting`).

**`Sched`.** One step per slot of each of the two loops of `sched_update`, two for
`t->due_ms += t->period_ms`, and one for the call, in which `InCallbacks` lets the task
add and remove tasks. `Button_SetDebounceMs` in the interrupt is an action of `MainLoop`,
which runs these steps with the tasks of the firmware. Times are
kept twice, wrapped as in the code and unbounded for the properties.

**`Ep0Control`.** SETUP, IN, OUT and reset branches of each driver (`InCH592`, `InL103`,
`InCH585`, `InV307` and so on): the boards cut and feed an answer alike and differ in when
endpoint 0 accepts the OUT packet of a status stage and in what is left armed. No request
of the firmware has an OUT data stage. Handshakes are lost in data and status stages.

**`Enumeration`.** A table is its told length, its parts with the endpoints they announce,
and the requests that they name. `GetDescriptorCH592` and its three fellows are the
switches, `VendorRequest` the two requests of `usbd_winusb.c` that a capability names. The
host starts from the device descriptor and asks for anything it has seen named, in any
order; a bus reset may change the speed.

**`MainLoop`.** `at` is where `main()` stands. `Register` is `sched_add` at start-up, then
`sched_update` is `Sched`'s own actions; while the ledblink task is being called the steps
of `LedPwm` run and `TaskReturns` waits for them. Of the pump there is what the rest of
the loop can tell: it takes a request over, it is busy for as long as packets are left.
`SetLed`, `SetDebounceMs` and `StartFileXfer` are the vendor requests that change state,
enabled everywhere; on CH32L103 the last one acts in the interrupt. The other tasks of
CH592F and CH585M only print.

**`LedPwm`.** The tick is load, toggle, and the two steps of `LED_PWM_Apply`;
`SetBrightness` runs between any two. CH32L103 has no heartbeat; the LED of CH32V307 tells
only 0 from the rest.

**`DebugUart`.** The copy into the ring is the same code on both boards, one access at a
time. On CH592F the interrupt is modelled one byte at a time because the line goes on
meanwhile; on CH32V307 the DMA channel is. `UartTx_Write` has no caller in this revision;
the module is checked for the one it is written for, a writer in the main loop.

## 3. Runs

| run | shows |
|---|---|
| `ring` | CH592F. Two downloads with a bus reset, a glitch and a SET_CONFIGURATION; two with silent toggle resets between them, which the stuck detector repairs; one with two lost handshakes. Packets come in order and each once (`InOrder`) and every download ends (`ImplementsDownload`, which says both), the slot being transmitted and the ring stay intact (`DmaSlotIntact`, `RingInOrder`), no packet of a finished download is left where the next would take it (`QuietWhenIdle`), the pump returns again and again with the USB interrupt enabled (`PumpReturns`) |
| `isr_ring_ahead` | CH32L103, for starts at rest and a pump that is never caught in the middle of a packet: the ring in order (`RingInOrder`), the file whole and in order (`InOrder`), complete, refines `FileDownload` |
| `isr_ring_underrun` (violation) | without that: the interrupt generates under a pump that is generating, and `InOrder` fails |
| `row` | CH585M with resets and CLEAR_FEATURE between downloads, or re-opened between them; CH32V307 with its two pointer registers: rows under DMA intact, complete, refines `FileDownload` |
| `button` | on all four boards: events whole and in order (`EventsWhole`), one per stable press (`PressesDebounced`), refused only while one is on its way (`RefusesForAReason`), all of it a box of one report that becomes free again (`ImplementsEventBox`) |
| `sched_table` | tasks that add and remove tasks in their callbacks, across the wraparound of the clock: the table refines `TimerSet`, everything due is called, no task is twice in it |
| `ep0` | on each of the four drivers two transfers given up anywhere, a reset, a lost handshake: exact answers, right address, no hang |
| `enumeration` | every order of a host's requests on four boards: names resolve and lengths are told right (`PromisesKept`), the endpoints announced are those enabled (`EndpointsMatch`), the full-speed boards are recognised by Windows and browsers (`CapabilitiesFound`) |
| `main_loop` | SET_LED, SET_DEBOUNCE_MS and START_FILE_XFER at any point of the loop: every task stays exactly once (`ButtonTaskStays`), none is called when gone (`NoNullCall`) or starves (`TasksServed`), no request for a download is forgotten (`StartTaken`), and a SET_LED outside a tick stands (`SetApartShows`) |
| `uart` | CH592F: in order, no kick lost, everything leaves in the end; CH32V307: no overwrite under DMA and no idle channel |
| `uart_resend` (violation) | CH32V307: the tail never moves, the same bytes are sent again and again |
| `bmp` | both generators serve the closed form of the file byte for byte after any restart (`SameFile`, `WalkAgrees`), and the header describes it (`HeaderTells`) |

The violation runs state what a comment of the code says and end in a counterexample; the
findings in `PROJECT.json` quote the line.

### Known deviations

The passing runs step around the following behaviours of the code, each of which breaks
the property named. They were found with the same modules and are reproduced by the change
given: a kind of host for `MCHosts` or `MCUses`, or a line of the cfg.

| property | reproduced by | what happens |
|---|---|---|
| `Ep2Ring!InOrder` | `[Orderly EXCEPT !.aborts = TRUE]` | `ch592f/app/filexfer.c:296`: `FileXfer_Start` only records the request; after a restart in mid-download the host reads the packet still armed for the old one |
| `Ep2Ring!InOrder` | `[Lossy EXCEPT !.start = 2]` | `:163`: the interrupt of a resent last packet is raised during the reset of the next download and taken for the completion of packet 0, which is then overwritten |
| `Ep2Ring!InOrder` | `[Reopening EXCEPT !.prompt = FALSE]` | `:237`: `R8_UEP2_CTRL ^= RB_UEP_T_TOG` is a load and a store with the interrupt enabled; completions between them are undone and a packet is sent twice. The comment at `:225` expects a false flip to correct itself |
| `IsrRing!InOrder` | `RestartAnytime = TRUE` | `ch32l103/User/filexfer.c:209`: `FileXfer_Start` resets the walk in the interrupt, under a pump that is inside `GenerateChunk` |
| `RowXfer!InOrder` | `[Single EXCEPT !.pumpAhead = FALSE]` | `ch585m/app/filexfer.c:221`: the callback serves a row buffer whether or not its row is generated; the comment at `:191` says it returns 0 |
| `RowXfer!DmaRowIntact` | `[Single EXCEPT !.aborts = TRUE]` | `:146`: a restart prefills the rows while EP2 is armed with a packet inside one of them |
| `RowXfer!ReadersServed` | the same | `ch585m/app/ch585_usbhs_device.c:507`: CLEAR_FEATURE of an armed EP2 leaves it NAKing with the busy flag set, and nothing arms it again |
| `RowXfer!InOrder` | `[Double EXCEPT !.reopen = 1]` | `ch32v307/app/filexfer.c:185`: the flip also selects the other DMA pointer register, and a packet of the last download is sent |
| `ButtonEvents!ImplementsEventBox` | `[Reconfigured EXCEPT !.resetAnytime = TRUE, !.resets = 0]` | `ch592f/app/ch592_usbd_device.c:118`: a SET_CONFIGURATION between load and store of `R8_UEP1_CTRL` is undone; EP1 keeps the wrong toggle for good |
| `ButtonEvents!ImplementsEventBox` | `[HighSpeedUse("CH585") EXCEPT !.pollAnytime = TRUE]` | `ch585m/app/ch585_usbhs_device.c:890`: EP1 is armed before `USBD_EP1_TxBusy` is set; a completion in between leaves the flag set for good |
| `ButtonEvents!ImplementsEventBox` | `[HighSpeedUse("CH32V307") EXCEPT !.resets = 1]` | `:851`: a bus reset drops the armed event and leaves the flag set |
| `ButtonEvents!EventsWhole` | `[FullSpeedUse("CH32L103") EXCEPT !.resetAnytime = TRUE]` | `ch592f/app/ch592_usbd_device.c:117`: a bus reset inside `USBD_EP1_SendData` leaves an event armed that does not count as busy; the next is copied over it |
| `ButtonEvents!RefusesForAReason` | `[FullSpeedUse("CH32L103") EXCEPT !.configs = 1]` | `ch32l103/User/ch32l103_usbfs_device.c:425`: a repeated SET_CONFIGURATION takes the host back to DATA0 and leaves the toggle of EP1 (CH592F resets it); after an odd number of events the next one counts as busy and is never accepted |
| `MainLoop!PeriodExact` | add it to `MainLoop.cfg` | `sched.c:142`: SET_DEBOUNCE_MS between load and store of `due_ms +=` loses its due time |
| `LedPwm!GetReturnsSet` | add it to `MainLoop.cfg` | `led_pwm.c:76`: the first SET_LED inside the heartbeat's toggle is overwritten, and the LED keeps the heartbeat's level |
| `Ep0Control!TransferEnds` | without `HeldUp` | CH32L103, CH32V307 and CH585M hold off the OUT packet of the status stage until the last IN is acknowledged, and CH585M NAKs after the first one: when that handshake is lost on the wire the status stage hangs until the host gives the transfer up |
| `Enumeration!CapabilitiesEverywhere` | add it to `Enumeration.cfg` | `ch585m/app/ch585_usbhs_device.c:420` and `ch32v307/app/ch32v30x_usbhs_device.c:632` stall the request for the BOS although the device descriptor says USB 2.10 and `usb_desc.c:14` describes its capabilities: neither Windows nor a browser finds them on the high-speed boards, which the `README.md:19` of the repository promises of all |
| `Enumeration!OtherSpeedIsOther` | add it to `Enumeration.cfg` | `ch585m/app/ch585_usbhs_device.c:427`: the answer about the other speed uses the speed remembered from the last request for a configuration, which a reset may have changed |
| `Enumeration!PacketsAreFull` | add it to `Enumeration.cfg` | the high-speed configurations promise packets of 512 bytes on EP2; the driver sends 64 (`usb_desc.h:30` redefines `DEF_USBD_UEP2_SIZE`) and a host takes each for the end of its transfer |

Seen while reading, without a model:

* `ch32v307/app/main.c:100` subtracts 16-bit timer readings in 32 bits, so a wraparound
  during a pass of the main loop adds 2^32 - 65536 to a diagnosis counter; the comment at
  `:54` says the differences are small.
* On both high-speed boards bytes 0 and 1 of the other-speed tables are never written, so
  the answer begins with length 0 and type 0.
* EP1 OUT of CH32V307 is announced with 64 bytes but received into 8, and the code that
  would act on what it receives is not reached.
* `ch32l103/User/usb_desc.c` says that the configuration has no endpoints; it has two.
* A SET_FEATURE of a test mode that is given up before its status stage takes effect in
  that of the next transfer on the high-speed boards.

## 4. Bounds, and why they suffice

* Rings: 4 slots of the 32 of CH592F, 2 of the 32 of CH32L103, 4 row buffers as in the
  code. Total packets exceed the ring, so it wraps, fills and runs dry. 9 rows of 2
  packets use every buffer and put packets at the start and the end of a row.
* The number of packets is odd, as that of the real file: a download then ends on the
  other toggle, and a host that resets its own has to be repaired.
* Detector limits of 2 or 3 passes instead of thousands: only their order of events
  matters, and the runs let them fire. In `RowXfer` a start does not reset the count, and a
  whole download read within one pass looks like no progress. On CH32V307 the flip that
  follows would break the download, so `row` makes four starts there, enough to get over the
  limit. It has nine rows and four buffers: with less than two rounds of the buffers in the
  file four starts do make the flip happen; with more, `NoSelfHeal` (section 7) excludes it
  for every number of starts and every limit. The code has 1024 rows and four buffers.
* Two downloads (four on CH32V307): the second starts from whatever the first left, and
  every variable the first can leave behind is read by the second.
* One or two resets, configurations, re-opens, losses: each property is about one such
  event and a second one on top of its repair.
* Clock of 8 ticks starting at 6: every run of the scheduler crosses the wraparound. A
  table of 2 slots for 3 names: it fills, and freed slots are reused and compacted.
* Debounce: the 2 samples of the code, a counter that stops at 3, 8 polls: a press, a
  bounce, a release, and a hold past the end of the counter.
* Main loop: tasks of 1, 2 and 3 ticks within 3 ticks of time, so that they become due
  together and apart; two requests of each kind, so that one meets what another has left;
  a file of one packet. The boards checked are CH592F, with every task, and CH32L103,
  whose start acts in the interrupt; CH585M has the same tasks as CH592F, CH32V307 one less.
* Enumeration: nothing but one bus reset is bounded.
* EP0: packets of 3 bytes; answers below, at and above one and two packets, asked
  with lengths of 0, below, at and above the answer. `PacketSize > 2` keeps the one and
  two-byte answers short packets, as 64 does.
* UART: rings of 4 bytes, more bytes than two rounds; writes longer than the ring.
* Bitmap: 4 by 3 pixels, packets of 7 and 16 (cut inside header, pixel and row) and 54
  and 64; restarts after every packet.

`CHECK_DEADLOCK FALSE` stands where a run ends when its bounds are used up or where the
system may really rest (EP1 without presses, UART without writes).

## 5. Fairness

The main loop is an endless loop, so its steps are weakly fair; interrupts that are
raised and enabled are served; a host that enumerates goes on asking; a host that is
reading goes on polling an endpoint that is ready. Nothing else is fair: a host need not
start, configure, reset or go on with a download it may give up, and the packets the
wire loses are never forced. A weakly fair `Update` in `Sched` says that tasks return,
which the tasks of the firmware do.

## 6. Assumptions about hardware and host

* One core: stores take effect in program order, and the interrupt sees the main
  loop's stores so far and runs to its end.
* `mismatchAcked`. A packet with the wrong toggle is acknowledged and dropped by a
  USB 2.0 host; the comment at `ch592f/app/filexfer.c:217` describes hosts that discard
  it and leave the device without an acknowledgement. `Orderly` and `Reopening` are the
  comment's host, which the detector is written for; `Lossy` is the standard's.
* `prompt`. The stuck detector waits about a second. With a prompt host it does not
  expire while host or interrupt have something to do, so it fires only when nothing
  else can happen. Known deviations: what happens without that.
* `pumpAhead` (`PumpAhead` in `IsrRing`): the main loop generates faster than the host
  reads, as the measurements in the README of the repository suggest.
  `isr_ring_underrun` and a deviation show that the code depends on it.
* `aborts`, `resetAnytime`, `pollAnytime`, `RestartAnytime` say which events may fall into
  the middle of a download or of a function of the main loop. Each that the runs leave
  `FALSE` is in the table of deviations.
* CH585M and CH32V307 have no `INT_BUSY`. `Ep0Control` lets the host go on only when the
  interrupt has been served; what a poll in between does to EP2 is said at `RowXfer`.
* The host enumerates a device long after start-up: no vendor request arrives before the
  last `sched_add` of `main()`, although the interrupt is enabled before it.

## 7. Proofs

`Ep2RingProofs` proves, for every ring size, file length, detector limit and host of
`Ep2Ring` (all its constants, no bound), that

* `TypeCorrect`: `Spec => []TypeOK`;
* `ZeroCopy`: `Spec => []DmaSlotIntact`: whatever EP2 transmits is, whole, the packet popped
  last, through restarts, aborts, resets, toggle flips and lost handshakes;
* `RingKeepsOrder`: `Spec => []RingInOrder`: what waits in the ring is the next part of
  the file, in order, at every point of the pump at which the interrupt may pop.

from `ConstantsAssumption` alone. Neither of the last two is inductive. `RingInv` adds

* `GenPosOK`: `s_genPos` is `s_ringHead`, but one ahead between generating and publishing;
* `WindowOK`: at most `Slots - 1` packets wait, fewer while one is being generated. The
  interrupt only ever makes room, so the test made before generating still holds after;
* `HeldOK`: the waiting packets *and the one popped last* are in their slots: these are at
  most `Slots` consecutive numbers, so no two share a slot (`SlotsDistinct`), and the
  slot being generated is none of them (`HeadSlotFree`). This is where the one slot of
  headroom of `filexfer.c:177` is needed;
* `DmaOK`: the DMA pointer, where EP2 is armed, is that of the packet popped last. The
  response to be written back by a toggle flip counts as well: between its load and its
  store the register may say NAK and come back armed.

`RingInit`, `PumpKeeps`, `IsrKeeps` and `HostKeeps` show that it is inductive, one step per
action; `FillAndArmKeeps` and `StartTransferKeeps` are the code that pump and interrupt
share.

`SchedProofs` proves, for every size of the table, set of names and periods and range of the
clock of `Sched`, whatever the bounds on time and calls and with tasks that add and remove
tasks in their callbacks, from `ConstantsAssumption`, that

* `TypeCorrect`: `Spec => []TypeOK`. It needs that a task is never called out of a slot
  past the end (`SlotInv`), and that `SlotFor` finds a freed slot where there is one
  (`AddEffect`). The least element of a set of naturals, for which the library has only an
  induction, comes from the cardinality of finite sets (`LeastExists`);
* `OneSlotEach`: `Spec => []NoDuplicates`;
* `WrapDecides`: `Spec => []DueIsDue`: the comparison of `sched.c:135` decides as unbounded times
  would. `TimesInv` says why: due times in the table are within half the range of the
  clock of the time of the pass, on either side, and what `t->due_ms += t->period_ms` has
  loaded is the time of a task that is due. That half the range is enough is `Near`. The
  assumption behind it is `LagBounded`: no task waits 24 days;
* `TableIsTimers`: `Spec => ImplementsTimers`, the refinement of `TimerSet`. `TimersStep`
  maps each step: a call to `Call`, an addition to `Add`, or to `Refuse` when every slot is taken
  (a count of the tasks, `Room`), and compaction to a stutter (`Unseen`).

`MainLoopProofs` proves, for every board and every size and period in `MainLoop`, from
`LoopAssumption`, that

* `SetLedStands`: `Spec => []SetApartShows`, by `LedInv`: a SET_LED that fell outside a tick
  found the loop outside it, and no tick begins after it;
* `TaskIsThere`: `Spec => []NoNullCall`, and `TasksStay`: `Spec => ButtonTaskStays`, both by
  `TableInv`: the table is well typed (`SchedTypes`), the loop is inside `sched_update` when a
  task is called and at a slot in use (`WhereAbouts`), every slot in use is taken (`AllLive`),
  by tasks with different names (`Distinct`), and at start-up by those registered so far
  (`BootOK`). `AllLive` is why SET_DEBOUNCE_MS is harmless at any point of a pass:
  `DebounceInPlace` shows that the slot which `sched_remove` frees is the only free one, so that
  `sched_add` takes it back, whatever slot sched_update is at.

`UartProofs` proves, for every size of ring and FIFO of `DebugUart`, whatever is written and
wherever the interrupts come between the accesses of a write, from `ConstantsAssumption`, that

* `NoLostKick`: `Spec => []KickNotLost`, by `KickInv`: the handler disables its interrupt only
  after it has found the ring empty, and a write that publishes kicks after that;
* `SentInOrder`: `Spec => []InOrder`, by `OrderInv`: the bytes taken out of the ring come first,
  the bytes not taken are fewer than the ring has slots and each in its own, and the published
  head stands somewhere between. The copy tests the tail for every byte; that the tail may
  move on meanwhile only makes room (`Distinct`);
* `ChannelBusy`: `Spec => []DmaKeptBusy`, by `BusyInv`: an active channel has bytes left or an
  interrupt pending, and `UartDma_StartChunk` leaves it idle only with the ring empty;
* `ReadsPublished`: `Spec => []DmaReadsPublished`, by `ReachInv`, which says on what it hangs:
  `s_tail` never moves from 0, because of the defect of `uart_resend`. The ring is filled once
  and no slot of it is written a second time. A repaired handler needs another proof.

The second part of `Ep2RingProofs` proves, again for all constants, what the host gets. The
assumption is `Finishers`: hosts that finish the downloads they start, with a watch that
outlasts them (`prompt`), and of two kinds, those of the run. One takes handshakes as the
comment at `filexfer.c:217` has it; configurations, resets, glitches, silent resets of the
toggle and the self-heal may come in any number and order. The other acknowledges what it
drops, loses any number of handshakes, and does a single download, with nothing of all that.
The first three deviations of section 3 say what happens to a host that gives a download up,
to a second download after losses, and to a host that pauses.

* `ReceivedInOrder`: `Spec => []InOrder`;
* `NothingLeftArmed`: `Spec => []QuietWhenIdle`;
* `DownloadInOrder`: `Spec => Download!DownloadOrder`, the refinement but for its liveness.

`SyncInv`, on top of `RingInv`, ties ring to host. `ServedOK`: an armed EP2 holds the packet
that the host has not got, so that `s_ringTail` is one more than what it has got, and after the
acknowledgement, until the interrupt, as much. Where a handshake has been lost (`Resent`) it
holds the last packet again, and the toggles differ. `StartOK`: while a request is pending, or no
host reads, EP2 is unarmed, but for a packet so resent, and the pump `AtRest`, with nothing to
arm it with. The pump fills the ring at start-up without being asked, so rest is more than an
empty ring. `FlipOK`: load and store of the toggle flip have EP2 to themselves. `LossOK`: on a
host that acknowledges what it drops the watch never flips the toggle. While that host reads, it
moves on; when it has got the last packet and the device cannot know, EP2 stays armed for
ever, and what keeps the watch from taking that for a stuck host is `LastSeen`: once it has seen
`s_ringTail` at the end, `s_active` falls before it comes to count again. `PopsForHost` is the
step that hangs on all of it: whoever pops a packet pops it for a host that waits for it.

`IsrProofs` proves of `IsrRing`, for every size of ring and file and bound on what the host
does, under `Paced` (the pump stays ahead, starts find it at rest), `RingKeepsOrder`
(`RingInOrder`), `ReceivedInOrder` (`InOrder`) and `DownloadInOrder`. Its invariant follows one
pixel walk through two actors. `WalkOK`: the walk is at `s_genPos`, plus the halves of the
packet in hand, and that packet is in the slot at the head. `WindowOK` and `HostOK`: the packet
that the interrupt sends next, whether it takes it out of the ring or generates it, is
`NextOut`, the one after what the host has and what EP2 holds. `isr_ring_underrun` and the
deviation of `RestartAnytime` show that neither half of `Paced` can be spared.

`IsrProofs` also proves of `BmpFile`, for every size of image and all sets of packet sizes,
from `FileAssumption`:

* `WalkStays`: `FileSpec => []WalkAgrees`, and `SameFileServed`: `FileSpec => []SameFile`: both
  generators serve the closed form of the file, byte for byte;
* `HeaderStands`: `[]HeaderTells`, where the size of the file fits its 32-bit field;
* `FileTypeCorrect`: `[]FileTypeOK`: nothing is read past a colour table's end.

An offset in the image is a row, a column in it and a channel in that (`PixelSplit`,
`PixelParts`), and both generators are followed in these three numbers: `WalkAdvance` takes
the counters from one byte to the next, through the end of a pixel and of a row; `RowPiece`
says what is cut out of a row. `WalkInFile` is `WalkAgrees` with the first byte past the
header on both of its sides, where the header ends and the walk has not begun. `HeaderFields`
finds each field at its place in the 54 bytes.

`RowProofs` proves of `RowXfer`, for every number and length of rows, of row buffers and bound,
under its `Paced` (hosts that finish what they start and do not outrun the pump; on CH32V307
also hosts that keep the toggle, and a file of more than two rounds of the buffers),
`ZeroCopy` (`DmaRowIntact`), `DownloadInOrder` and, for CH32V307, `NoSelfHeal`: the flip of the
toggle is never reached.

* `WindowOK`: of the rows begun, the last `Bufs - 1` are in their buffers; the one more that
  there are buffers is the one being written.
* `PaceOK`: the loops of the pump generate no row further ahead of the one being sent, and the
  sending is never more than one row past those begun. That row may be in its buffer from an
  earlier download (`ReadyBegun`).
* `RowBeginSpares`: hence the limit `sendRow + Bufs - 1` of the code spares the row that EP2
  reads from.
* `ArmedOK`, `StartOK`, `FlipOK`: as in `Ep2RingProofs`. The prefill may overwrite any row,
  and it runs with EP2 unarmed.
* `NoFlipOK`, for CH32V307, where the flip changes the DMA pointer register as well and would
  send another packet: host and endpoint agree on the toggle, and a reading host has a packet
  armed or a start on its way (`NeverStalled`). What is left is a download that looks stuck
  because it has come to where the last one was seen; `LagOK` says that the pump sees it
  elsewhere before that (`NewStartSeen`). This is where more than two rounds are needed: the
  pump generates one round before the first look and at most one more in the same pass.

`ButtonProofs` proves of `ButtonEvents`, for every number of samples, limit of the counter and
bound:

* `TypeCorrect`, and `PressesAreDebounced`: `Spec => []PressesDebounced`, from
  `ConstantsAssumption`. `RunOK`: the counter says how many samples agreed last, up to its
  limit; `StableOK`: `s_stableState` is the state that the samples amount to. The property
  counts the samples at which that state falls (`Falls`), without recursion;
* `EventsStayWhole`: `Calm => (Spec => []EventsWhole)`. `Calm` is the condition of the run that
  resets and requests do not fall into `USBD_EP1_SendData`, without which a deviation of
  section 3 breaks the property. `BufOK`: EP1 is armed only by a main loop that found it free,
  and counts as busy from then on; `SentOK`, `GotOK`: what is armed is later than what the host has;
* `RefusalIsJustified`: `Kept => (Spec => []RefusesForAReason)`. `Kept` adds the other conditions
  of `MCUses`: no second SET_CONFIGURATION where the driver keeps its toggle, and on the high-speed
  boards neither resets nor polls inside the sending. `ToggleOK`: host and endpoint agree on
  the toggle but from an event of the bus to its interrupt; `BusyOK`: a set flag stands for a
  packet armed or about to be;
* `EventsBoxed`: `Kept => (Spec => Box!BoxOrder)`, the refinement of `EventBox` but for its
  liveness. `Waiting` says what is in the box: the press being sent from the test of the busy
  flag on, then what EP1 is armed with, then `Read` until the completion interrupt. A press
  counts from that test (`Decided`); up to it the box is as the one before left it. `BoxSend`
  is where two flags meet the box: neither is set with the box free, so that no press is
  refused for nothing, and EP1 is not armed with both clear, so that none goes over another.
  `LinkOK` adds what no other invariant needs: `USBHS_Endp_Busy` of CH32V307 means a packet
  too, and a device stays enumerated until a press is tested.

`Ep0Proofs` proves of `Ep0Control`, for every packet size, answer, `wLength`, address, set of boards
and number of transfers given up, resets and lost handshakes, from `ConstantsAssumption` alone,

* `TypeCorrect`;
* `AddressesAgree`: `Spec => []AddressAgrees`. `RequestOK`: from the SETUP interrupt on the device
  is at the request of the host, and `DevAddr` is its address; `AddressOK`: the two
  addresses differ only from the status stage to its interrupt;
* `AnswersAreExact`: `Spec => []AnswerExact`. `DataOK` follows the toggle: when it is the
  host's, the packet in the buffer is the one after what the host has (`NextInBuffer`); when it
  is not, the host has that packet too, and what is left comes after it (`LastInBuffer`).

`Ep0Proofs` also proves of `Enumeration`, for every set of the four boards and any number of bus
resets, from `EnumAssumption`,

* `DescriptorsKeepPromises`: `EnumSpec => []PromisesKept`, and `EndpointsAgree`:
  `EnumSpec => []EndpointsMatch`. `EnumInv` holds of each answer by itself (`AnswerOK`), for
  neither the order of the requests nor the speed remembered matters to it: a table is `Whole`,
  that is, as long as its parts, and names nothing but `Asks`, so that a host that knows only
  what is in answers asks for nothing else (`NamedKnown`) and every switch has what it asks for
  (`LookupOK`). The tables are gone through one by one. Lengths are sums by a recursive function;
  that it exists is shown by writing it out (`EndsAdd`), since induction is out of reach and no
  table has more than five parts. `ConfigRead` follows a configuration from its parts to the
  endpoints that a host opens.

Only model-checked: all liveness (`PumpReturns`, `DueIsCalled`, `TransferEnds`, `TasksServed`,
`StartTaken`, `AllSent`, `CapabilitiesFound`, the second half of `ImplementsDownload` and of
`ImplementsEventBox`). Liveness and enabledness are out of the proof system's reach.

## 8. Not modelled

* The CPU load counters, a diagnosis that decides nothing: on CH592F nothing adds to the
  busy time, on CH585M nothing reads it, on CH32V307 see above.
* Suspend, test modes, texts of strings, clock, pin and UART set-up, the blink example.
  The web page is not part of the repository.
* Vendored code: the peripheral libraries, register definitions and start-up code of the
  chip maker, about nine tenths of the C lines of the repository (`ch32l103/Peripheral`
  alone is some 22,000 of them). The firmware uses a handful of their
  set-up calls, which have no behaviour to check; their registers appear in the modules as
  the variables that the firmware's own code reads and writes.
* How long one `FileXfer_Pump` call lasts: a host as fast as the generator keeps it in
  its loop. Nothing bounds that in the code, and a model without time cannot say more.

## 9. Plan

Order of work, most important first; done: 1 to 11.

1. `Ep2Ring` with `FileDownload`; 2. its invariant proved; 3. `IsrRing`; 4. `RowXfer`;
5. `ButtonEvents`; 6. `Sched` with `TimerSet`; 7. `DebugUart`; 8. `Ep0Control`, then its
other three drivers; 9. `LedPwm`, `BmpFile`; 10. `Enumeration`; 11. `MainLoop`, which
composes the scheduler, the LED and the vendor requests.

Next, modelling: a re-opening host and lost handshakes for `IsrRing`; suspend and remote
wake-up.

Every invariant that a passing run checks is proved. Next, proofs: with other provers, the
liveness of the refinements.
