------------------------------ MODULE MainLoop ------------------------------
(***************************************************************************)
(* The whole of a firmware's main(): after the tasks are registered it     *)
(* calls sched_update and FileXfer_Pump for ever, while the USB interrupt  *)
(* carries out the vendor requests of the host at any point of either.     *)
(*                                                                         *)
(* The table is that of Sched, slot by slot; the heartbeat is that of      *)
(* LedPwm, access by access, inside the call of its task.  Of the pump,    *)
(* which Ep2Ring, IsrRing and RowXfer model in full, only what the rest of *)
(* the loop can tell is here: that it takes a request for a download over, *)
(* and that it may be busy for as long as packets of the file are left.    *)
(***************************************************************************)
EXTENDS LedPwm, Sequences

CONSTANTS
    Boards,                   \* boards that are model-checked
    Size,                     \* SCHED_SIZE
    LedPeriod, StatsPeriod, ButtonPeriod,   \* 50, 1000 and 5 ms
    Debounces,                \* periods of SET_DEBOUNCE_MS, 0 among them
    Clock, StartTime, MaxTime,\* as in Sched
    Packets,                  \* packets of the file
    MaxDebounces, MaxStarts   \* bound: SET_DEBOUNCE_MS and START_FILE_XFER requests

ASSUME LoopAssumption ==
    /\ Boards \subseteq {"CH592", "CH585", "CH32V307", "CH32L103"}
    /\ Size \in Nat \ {0}
    /\ Clock \in Nat /\ Clock >= 2 /\ Clock % 2 = 0
    /\ {LedPeriod, StatsPeriod, ButtonPeriod} \cup (Debounces \ {0}) \subseteq 1 .. (Clock \div 2) - 1
    /\ {StartTime, MaxTime, Packets, MaxDebounces, MaxStarts} \subseteq Nat

VARIABLES
    board,
    at,         \* where main() stands: "boot", "update" or "pump"
    ticked,     \* the ledblink task of this call has looked at s_heartbeat
    table, used, nowAt, time, sp, i, copy, called, ops,     \* as in Sched
    s_startReq, \* a download is asked for and not taken over
    fill,       \* the pump is past its look at s_startReq
    left,       \* packets of the download still to be generated
    asked,      \* START_FILE_XFER requests answered
    begun       \* the last of them that the current download was begun after

schedVars == <<table, used, nowAt, time, sp, i, copy, called, ops>>
pumpVars == <<s_startReq, fill, left, asked, begun>>
vars == <<board, at, ticked, ledVars, schedVars, pumpVars>>

Sched == INSTANCE Sched WITH
    pc <- sp, Names <- {"ledblink", "cpustat", "button"}, Btn <- "button",
    Periods <- {LedPeriod, StatsPeriod, ButtonPeriod} \cup (Debounces \ {0}),
    MaxOps <- MaxDebounces, InCallbacks <- FALSE

(***************************************************************************)
(* Start-up.                                                               *)
(***************************************************************************)

Task(n, p) == [name |-> n, period |-> p]

\* The calls of sched_add in main() and Button_Init, in their order.  The third
\* task of CH592F and CH585M only prints statistics.
Registered(b) ==
    CASE b = "CH592"    -> <<Task("ledblink", LedPeriod), Task("cpustat", StatsPeriod),
                             Task("button", ButtonPeriod)>>
      [] b = "CH585"    -> <<Task("ledblink", LedPeriod), Task("cpustat", LedPeriod),
                             Task("button", ButtonPeriod)>>
      [] b = "CH32V307" -> <<Task("ledblink", LedPeriod), Task("button", ButtonPeriod)>>
      [] b = "CH32L103" -> <<Task("button", ButtonPeriod)>>

Init ==
    /\ board \in Boards
    /\ at = "boot" /\ ticked = FALSE
    /\ LedInit(IF board \in {"CH592", "CH585"} THEN 127 ELSE 0)
    /\ Sched!Init
    /\ s_startReq = FALSE /\ fill = FALSE /\ left = 0 /\ asked = 0 /\ begun = 0

\* The host enumerates the device long after the last of these calls.
Register ==
    /\ at = "boot"
    /\ LET t == Registered(board)[used + 1]
       IN  Sched!AddTo(table, used, t.name, t.period, TRUE)
    /\ at' = IF used' = Len(Registered(board)) THEN "update" ELSE "boot"
    /\ UNCHANGED <<board, ticked, ledVars, nowAt, time, sp, i, copy, called, ops, pumpVars>>

(***************************************************************************)
(* sched_update(SysTick_Millis()).                                         *)
(***************************************************************************)

UpdateStep ==
    /\ at = "update"
    /\ Sched!UpdateBegin \/ Sched!Compact \/ Sched!CompactDone
       \/ Sched!ScanSkip \/ Sched!ScanRepeat \/ Sched!Rearm
    /\ ticked' = FALSE
    /\ UNCHANGED <<board, at, ledVars, pumpVars>>

InLedTask == sp = "call" /\ table[i].name = "ledblink"

HeartbeatTick ==
    /\ InLedTask /\ ~ticked /\ ticked' = TRUE
    /\ TickBegin \/ (~s_heartbeat /\ UNCHANGED ledVars)
    /\ UNCHANGED <<board, at, schedVars, pumpVars>>

HeartbeatRest ==
    /\ InLedTask /\ TickRest
    /\ UNCHANGED <<board, at, ticked, schedVars, pumpVars>>

\* The task returns: of the heartbeat, when it has run its course.
TaskReturns ==
    /\ InLedTask => ticked /\ pc = "idle"
    /\ Sched!CallReturn
    /\ UNCHANGED <<board, at, ticked, ledVars, pumpVars>>

UpdateReturns ==
    /\ at = "update" /\ Sched!UpdateEnd
    /\ at' = "pump" /\ fill' = FALSE
    /\ UNCHANGED <<board, ticked, ledVars, s_startReq, left, asked, begun>>

(***************************************************************************)
(* FileXfer_Pump().                                                        *)
(***************************************************************************)

\* if (s_startReq): the request is cleared with the reset it asks for.
PumpTake ==
    /\ at = "pump" /\ ~fill /\ fill' = TRUE
    /\ IF s_startReq THEN s_startReq' = FALSE /\ left' = Packets /\ begun' = asked
                     ELSE UNCHANGED <<s_startReq, left, begun>>
    /\ UNCHANGED <<board, at, ticked, ledVars, schedVars, asked>>

\* One packet into the ring.
PumpGenerate ==
    /\ at = "pump" /\ fill /\ left > 0
    /\ left' = left - 1
    /\ UNCHANGED <<board, at, ticked, ledVars, schedVars, s_startReq, fill, asked, begun>>

\* Mutation: the request is cleared on the way out.
PumpReturns_Clears ==
    /\ at = "pump" /\ fill
    /\ at' = "update" /\ fill' = FALSE /\ s_startReq' = FALSE
    /\ UNCHANGED <<board, ticked, ledVars, schedVars, left, asked, begun>>

\* The ring is full, or the file generated.
PumpReturns ==
    /\ at = "pump" /\ fill
    /\ at' = "update" /\ fill' = FALSE
    /\ UNCHANGED <<board, ticked, ledVars, schedVars, s_startReq, left, asked, begun>>

Loop ==
    \/ Register \/ UpdateStep \/ HeartbeatTick \/ HeartbeatRest \/ TaskReturns
    \/ UpdateReturns \/ PumpTake \/ PumpGenerate \/ PumpReturns

(***************************************************************************)
(* WinUSB_ProcessVendorRequest in the USB interrupt, and the tick counter. *)
(***************************************************************************)

SetLed ==
    /\ at # "boot" /\ \E b \in Levels : SetBrightness(b)
    /\ UNCHANGED <<board, at, ticked, schedVars, pumpVars>>

\* Button_SetDebounceMs ignores 0.
SetDebounceMs ==
    /\ at # "boot"
    /\ \E p \in Debounces \ {0} : Sched!SetDebounce(p)
    /\ UNCHANGED <<board, at, ticked, ledVars, pumpVars>>

\* FileXfer_Start records the request; on CH32L103 it begins the download itself.
StartFileXfer ==
    /\ at # "boot" /\ asked < MaxStarts /\ asked' = asked + 1
    /\ IF board = "CH32L103"
       THEN left' \in 0 .. Packets /\ begun' = asked' /\ UNCHANGED s_startReq
       ELSE s_startReq' = TRUE /\ UNCHANGED <<left, begun>>
    /\ UNCHANGED <<board, at, ticked, ledVars, schedVars, fill>>

Millisecond ==
    /\ Sched!Tick
    /\ UNCHANGED <<board, at, ticked, ledVars, pumpVars>>

Next == Loop \/ SetLed \/ SetDebounceMs \/ StartFileXfer \/ Millisecond

Spec == Init /\ [][Next]_vars

\* The interrupts leave the main loop time to run.
FairSpec == Spec /\ WF_vars(Loop)

-----------------------------------------------------------------------------

\* The interrupt never takes the task away that the main loop is calling.
NoNullCall == Sched!NoNullCall

\* SET_DEBOUNCE_MS leaves exactly one button task, at any moment of the loop.
ButtonTaskStays ==
    [][at # "boot" => Sched!Scheduled' = Sched!Scheduled /\ Sched!NoDuplicates']_vars

\* A task that is due is called, or put off by SET_DEBOUNCE_MS, in the end:
\* however long the pump is busy and whatever the interrupt does to the table
\* the scan is in, no task is passed over for ever.
TasksServed == Sched!DueIsCalled

\* Each START_FILE_XFER that was answered is followed by a download begun after
\* it, one that arrives while the pump is at work on an older download as well.
StartTaken == (begun # asked) ~> (begun = asked)

\* A repeating task is due again exactly one period after it was due.  The code
\* does not keep to it (README, known deviations): no run checks it.
PeriodExact == Sched!PeriodExact
=============================================================================
