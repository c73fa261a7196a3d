--------------------------- MODULE MainLoopProofs ---------------------------
(***************************************************************************)
(* Proofs about the main loop, for every board, size of the table, set of  *)
(* periods and range of the clock: a SET_LED outside a heartbeat stands,   *)
(* and SET_DEBOUNCE_MS at any point of sched_update leaves the table as it *)
(* was but for the button's time.                                          *)
(***************************************************************************)
EXTENDS MainLoop, TLAPS

(***************************************************************************)
(* The LED.                                                                *)
(***************************************************************************)

\* A SET_LED that fell outside a tick has found the main loop outside it, and
\* no tick begins after it.
LedInv == apart => pc = "idle" /\ ~s_heartbeat /\ pwm = wanted /\ s_brightness = wanted

\* Each action of the loop and of the interrupt keeps LedInv; most do not touch
\* the LED.
LEMMA LedStep == LedInv /\ [Next]_vars => LedInv'
<1> SUFFICES ASSUME LedInv, [Next]_vars PROVE LedInv'
  OBVIOUS
<1>1. ASSUME UNCHANGED ledVars PROVE LedInv'
  BY <1>1 DEF LedInv, ledVars
<1>2. CASE Register
  BY <1>1, <1>2 DEF Register
<1>3. CASE UpdateStep
  BY <1>1, <1>3 DEF UpdateStep
<1>4. CASE HeartbeatTick
  <2>1. CASE TickBegin
    BY <2>1 DEF LedInv, TickBegin
  <2> QED
    BY <1>1, <1>4, <2>1 DEF HeartbeatTick
<1>5. CASE HeartbeatRest
  BY <1>5 DEF HeartbeatRest, LedInv, TickRest, TickLoad, TickToggle, TickApply, TickWrite
<1>6. CASE TaskReturns
  BY <1>1, <1>6 DEF TaskReturns
<1>7. CASE UpdateReturns
  BY <1>1, <1>7 DEF UpdateReturns
<1>8. CASE PumpTake \/ PumpGenerate \/ PumpReturns
  BY <1>1, <1>8 DEF PumpTake, PumpGenerate, PumpReturns
<1>9. CASE SetLed
  BY <1>9 DEF SetLed, SetBrightness, LedInv
<1>10. CASE SetDebounceMs \/ StartFileXfer \/ Millisecond
  BY <1>1, <1>10 DEF SetDebounceMs, StartFileXfer, Millisecond
<1>11. CASE UNCHANGED vars
  BY <1>1, <1>11 DEF vars
<1> QED
  BY <1>2, <1>3, <1>4, <1>5, <1>6, <1>7, <1>8, <1>9, <1>10, <1>11 DEF Next, Loop

\* A SET_LED that does not fall into a tick of the heartbeat is never undone
\* (led_pwm.c:70-85).
THEOREM SetLedStands == Spec => []SetApartShows
<1>1. Init => LedInv
  BY DEF Init, LedInit, LedInv
<1>2. LedInv => SetApartShows
  BY DEF LedInv, SetApartShows
<1> QED
  BY <1>1, <1>2, LedStep, PTL DEF Spec

(***************************************************************************)
(* The table.                                                              *)
(***************************************************************************)

Names == {"ledblink", "cpustat", "button"}
Entry == [name : Names, period : Int, due : Int, at : Int, repeat : BOOLEAN, cb : BOOLEAN]
InUse == 0 .. used - 1

SchedTypes ==
    /\ table \in [0 .. Size - 1 -> Entry] /\ used \in 0 .. Size /\ i \in Nat
    /\ copy \in [due : Int, at : Int] /\ nowAt \in Int /\ time \in Int
    /\ board \in Boards

\* A task is being called only inside sched_update, and never one past the end.
WhereAbouts ==
    /\ sp \in {"idle", "compact", "scan", "rearm", "call"}
    /\ at # "update" => sp = "idle"
    /\ sp \in {"rearm", "call"} => i < used

\* Between start-up and for ever the slots in use are all taken, by tasks with
\* different names.
AllLive == \A s \in InUse : table[s].cb
Distinct == \A s, t \in InUse : table[s].name = table[t].name => s = t

\* While the tasks are registered the table holds those that have been.
BootOK ==
    at = "boot" => /\ used < Len(Registered(board))
                   /\ \A s \in InUse : table[s].name = Registered(board)[s + 1].name

TableInv == SchedTypes /\ WhereAbouts /\ AllLive /\ Distinct /\ BootOK

\* The slots in use keep their names and stay taken.
SameTasks ==
    /\ used' = used
    /\ \A s \in InUse : table'[s].name = table[s].name /\ table'[s].cb

\* Sched's operators at the table of MainLoop.
LEMMA FreedSlots ==
    ASSUME NEW tab, NEW u
    PROVE  Sched!Freed(tab, u) = {s \in 0 .. u - 1 : ~tab[s].cb}
  BY DEF Sched!Freed

\* The least of one number is that number.
LEMMA LowestOfOne ==
    ASSUME NEW k \in Int
    PROVE  Sched!Lowest({k}) = k
<1>1. k \in {k} /\ \A r \in {k} : k <= r
  OBVIOUS
<1>2. \A s \in {k} : s = k
  OBVIOUS
<1> QED
  BY <1>1, <1>2 DEF Sched!Lowest

\* A new entry is one of the table's entries.
LEMMA NewTaskType ==
    ASSUME NEW n \in Names, NEW p \in Int, nowAt \in Int
    PROVE  /\ Sched!NewTask(n, p, TRUE) \in Entry
           /\ Sched!NewTask(n, p, TRUE).name = n
           /\ Sched!NewTask(n, p, TRUE).cb
<1>1. Clock \in Nat /\ Clock >= 2
  BY LoopAssumption
<1>2. (nowAt + p) % Clock \in Int
  BY <1>1
<1> QED
  BY <1>2 DEF Sched!NewTask, Sched!Wrap, Entry

\* Button_SetDebounceMs (button.c:98-107) takes the button's slot out and gets
\* the same slot again, so no other task moves and the table does not grow.
LEMMA DebounceInPlace ==
    ASSUME TableInv, NEW p \in Int, Sched!SetDebounce(p)
    PROVE  SameTasks /\ table' \in [0 .. Size - 1 -> Entry]
<1> DEFINE B == {s \in 0 .. used - 1 : table[s].cb /\ table[s].name = "button"}
<1> USE DEF TableInv
<1>1. PICK k \in InUse : table[k].cb /\ table[k].name = "button"
  BY DEF Sched!SetDebounce, Sched!Scheduled, Sched!Live, InUse
<1>2. used \in Nat /\ used <= Size /\ Size \in Nat /\ k \in 0 .. Size - 1 /\ k \in Int
  BY LoopAssumption DEF SchedTypes, InUse
<1>3. B = {k}
  BY <1>1 DEF Distinct, InUse
<1> DEFINE W == [table EXCEPT ![k].cb = FALSE]
<1>4. Sched!Without(table, used, "button") = W
  BY <1>2, <1>3, LowestOfOne DEF Sched!Without
<1>5. W \in [0 .. Size - 1 -> Entry]
  BY <1>2 DEF SchedTypes, Entry
<1>6. /\ ~W[k].cb
      /\ \A s \in InUse : s # k => W[s] = table[s]
  BY <1>2 DEF SchedTypes, Entry, InUse
<1>7. Sched!Freed(W, used) = {k}
  <2>1. \A s \in 0 .. used - 1 : ~W[s].cb <=> s = k
    BY <1>6 DEF AllLive, InUse
  <2> QED
    BY <2>1, <1>1, FreedSlots DEF InUse
<1>8. Sched!SlotFor(W, used) = k
  BY <1>2, <1>7, LowestOfOne DEF Sched!SlotFor
<1>9. Sched!AddTo(W, used, "button", p, TRUE)
  BY <1>4 DEF Sched!SetDebounce
<1> DEFINE New == Sched!NewTask("button", p, TRUE)
<1>10. table' = [W EXCEPT ![k] = New] /\ used' = used
  <2>1. ~(k >= Size) /\ k < used
    BY <1>1, <1>2 DEF InUse
  <2> QED
    BY <1>8, <1>9, <2>1 DEF Sched!AddTo
<1>11. New \in Entry /\ New.name = "button" /\ New.cb
  BY NewTaskType DEF SchedTypes, Names
<1> HIDE DEF New, W
<1>12. table' \in [0 .. Size - 1 -> Entry]
  BY <1>5, <1>10, <1>11
<1>13. ASSUME NEW s \in InUse PROVE table'[s].name = table[s].name /\ table'[s].cb
  <2>1. s \in 0 .. Size - 1
    BY <1>2 DEF InUse
  <2>2. CASE s = k
    BY <1>1, <1>2, <1>5, <1>10, <1>11, <2>2
  <2>3. CASE s # k
    BY <1>2, <1>5, <1>6, <1>10, <2>1, <2>3 DEF AllLive
  <2> QED
    BY <2>2, <2>3
<1> QED
  BY <1>10, <1>12, <1>13 DEF SameTasks

\* sched_add at start-up (main.c:126-131) fills the next slot with another name.
LEMMA RegisterKeeps == TableInv /\ Register => TableInv'
<1> SUFFICES ASSUME TableInv, Register PROVE TableInv'
  OBVIOUS
<1> USE DEF TableInv
<1> DEFINE t == Registered(board)[used + 1]
           New == Sched!NewTask(t.name, t.period, TRUE)
<1>1. /\ at = "boot" /\ Sched!AddTo(table, used, t.name, t.period, TRUE)
      /\ at' = IF used' = Len(Registered(board)) THEN "update" ELSE "boot"
      /\ UNCHANGED <<board, nowAt, time, sp, i, copy>>
  BY DEF Register
<1>2. /\ used \in Nat /\ used <= Size /\ Size \in Nat /\ used < Len(Registered(board))
      /\ \A s \in InUse : table[s].name = Registered(board)[s + 1].name
      /\ board \in {"CH592", "CH585", "CH32V307", "CH32L103"}
  BY <1>1, LoopAssumption DEF SchedTypes, BootOK
<1>3. /\ Len(Registered(board)) \in Nat
      /\ \A j \in 1 .. Len(Registered(board)) :
             Registered(board)[j].name \in Names /\ Registered(board)[j].period \in Int
      /\ \A j, k \in 1 .. Len(Registered(board)) :
             Registered(board)[j].name = Registered(board)[k].name => j = k
  <2>1. {LedPeriod, StatsPeriod, ButtonPeriod} \subseteq Int
    BY LoopAssumption
  <2>2. CASE board = "CH592"
    BY <2>1, <2>2 DEF Registered, Task, Names
  <2>3. CASE board = "CH585"
    BY <2>1, <2>3 DEF Registered, Task, Names
  <2>4. CASE board = "CH32V307"
    BY <2>1, <2>4 DEF Registered, Task, Names
  <2>5. CASE board = "CH32L103"
    BY <2>1, <2>5 DEF Registered, Task, Names
  <2> QED
    BY <1>2, <2>2, <2>3, <2>4, <2>5
<1>4. t.name \in Names /\ t.period \in Int
  BY <1>2, <1>3
<1>5. New \in Entry /\ New.name = t.name /\ New.cb
  BY <1>4, NewTaskType DEF SchedTypes
<1>6. Sched!Freed(table, used) = {}
  BY FreedSlots DEF AllLive, InUse
<1>7. Sched!SlotFor(table, used) = used
  BY <1>6 DEF Sched!SlotFor
<1> HIDE DEF New
<1>8. \/ used >= Size /\ table' = table /\ used' = used
      \/ used < Size /\ table' = [table EXCEPT ![used] = New] /\ used' = used + 1
  <2>1. CASE used >= Size
    BY <1>1, <1>7, <2>1 DEF Sched!AddTo
  <2>2. CASE used < Size
    <3>1. ~(used >= Size) /\ ~(used < used)
      BY <1>2, <2>2
    <3> QED
      BY <1>1, <1>7, <2>2, <3>1 DEF Sched!AddTo, New
  <2> QED
    BY <1>2, <2>1, <2>2
<1>9. CASE used >= Size /\ table' = table /\ used' = used
  BY <1>1, <1>2, <1>9 DEF SchedTypes, WhereAbouts, AllLive, Distinct, BootOK, InUse
<1>10. CASE used < Size /\ table' = [table EXCEPT ![used] = New] /\ used' = used + 1
  <2>1. used' \in 0 .. Size /\ InUse' = InUse \cup {used}
    BY <1>2, <1>10 DEF InUse
  <2>2. table' \in [0 .. Size - 1 -> Entry]
    BY <1>2, <1>5, <1>10 DEF SchedTypes
  <2>3. /\ table'[used] = New
        /\ \A s \in InUse : table'[s] = table[s] /\ s # used
    BY <1>2, <1>10 DEF SchedTypes, InUse
  <2>4. SchedTypes'
    BY <1>1, <2>1, <2>2 DEF SchedTypes
  <2>5. AllLive'
    BY <1>5, <2>1, <2>3 DEF AllLive
  <2>6. \A s \in InUse' : table'[s].name = Registered(board)[s + 1].name
    BY <1>2, <1>5, <2>1, <2>3
  <2>7. Distinct'
    <3>1. \A s \in InUse' : s \in Nat /\ s + 1 \in 1 .. Len(Registered(board))
      BY <1>2, <1>3, <1>10 DEF InUse
    <3>2. ASSUME NEW s \in InUse', NEW r \in InUse', table'[s].name = table'[r].name
          PROVE  s = r
      <4>1. s + 1 = r + 1
        BY <1>3, <2>6, <3>1, <3>2
      <4> QED
        BY <3>1, <4>1
    <3> QED
      BY <3>2 DEF Distinct
  <2>8. BootOK'
    BY <1>1, <1>2, <1>3, <1>10, <2>6 DEF BootOK
  <2>9. WhereAbouts'
    BY <1>1 DEF WhereAbouts
  <2> QED
    BY <2>4, <2>5, <2>7, <2>8, <2>9
<1> QED
  BY <1>8, <1>9, <1>10

\* A step that keeps every task in its slot keeps what is said of the slots.
LEMMA SameTasksKeep ==
    ASSUME TableInv, SameTasks, at # "boot", at' # "boot", SchedTypes', WhereAbouts'
    PROVE  TableInv'
  BY DEF TableInv, SameTasks, AllLive, Distinct, BootOK, InUse

\* sched_update never finds a freed slot, and moves none.
LEMMA UpdateKeeps ==
    ASSUME TableInv, UpdateStep
    PROVE  SameTasks /\ SchedTypes' /\ WhereAbouts' /\ at' = at /\ at # "boot"
<1> USE DEF TableInv
<1>0. at = "update" /\ at' = "update" /\ UNCHANGED board
  BY DEF UpdateStep
<1>1. CASE Sched!UpdateBegin
  BY <1>0, <1>1 DEF Sched!UpdateBegin, SchedTypes, WhereAbouts, SameTasks, AllLive
<1>2. CASE Sched!Compact
  <2>1. i \in InUse
    BY <1>2 DEF Sched!Compact, SchedTypes, InUse
  <2>2. table[i].cb
    BY <2>1 DEF AllLive
  <2> QED
    BY <1>0, <1>2, <2>2 DEF Sched!Compact, SchedTypes, WhereAbouts, SameTasks, AllLive
<1>3. CASE Sched!CompactDone
  BY <1>0, <1>3 DEF Sched!CompactDone, SchedTypes, WhereAbouts, SameTasks, AllLive
<1>4. CASE Sched!ScanSkip
  BY <1>0, <1>4 DEF Sched!ScanSkip, SchedTypes, WhereAbouts, SameTasks, AllLive
<1>5. CASE Sched!ScanRepeat
  <2>1. i \in 0 .. Size - 1 /\ table[i] \in Entry
    BY <1>5, LoopAssumption DEF Sched!ScanRepeat, SchedTypes
  <2>2. copy' \in [due : Int, at : Int]
    BY <1>5, <2>1 DEF Sched!ScanRepeat, Entry
  <2> QED
    BY <1>0, <1>5, <2>2 DEF Sched!ScanRepeat, SchedTypes, WhereAbouts, SameTasks, AllLive
<1>6. CASE Sched!Rearm
  <2>1. sp = "rearm" /\ i < used
    BY <1>6 DEF Sched!Rearm, WhereAbouts
  <2>2. i \in 0 .. Size - 1 /\ table[i] \in Entry /\ i \in InUse
    BY <2>1, LoopAssumption DEF SchedTypes, InUse
  <2> DEFINE due == (copy.due + table[i].period) % Clock
             next == copy.at + table[i].period
             new == [table[i] EXCEPT !.due = due, !.at = next]
  <2>3. table' = [table EXCEPT ![i] = new]
    BY <1>6, <2>2 DEF Sched!Rearm, Sched!Wrap, SchedTypes
  <2>4. due \in Int /\ next \in Int
    <3>1. copy.due \in Int /\ copy.at \in Int /\ table[i].period \in Int
      BY <2>2 DEF SchedTypes, Entry
    <3>2. copy.due + table[i].period \in Int /\ copy.at + table[i].period \in Int
      BY <3>1
    <3>3. \A n \in Int : n % Clock \in Int
      BY LoopAssumption
    <3> QED
      BY <3>2, <3>3
  <2> HIDE DEF due, next
  <2>5. new \in Entry /\ new.name = table[i].name /\ new.cb = table[i].cb
    BY <2>2, <2>4 DEF Entry
  <2> HIDE DEF new
  <2>6. table' \in [0 .. Size - 1 -> Entry]
    BY <2>2, <2>3, <2>5 DEF SchedTypes
  <2>7. \A s \in InUse : table'[s].name = table[s].name /\ table'[s].cb
    BY <2>2, <2>3, <2>5, LoopAssumption DEF SchedTypes, AllLive, InUse
  <2> QED
    BY <1>0, <1>6, <2>1, <2>6, <2>7 DEF Sched!Rearm, SchedTypes, WhereAbouts, SameTasks
<1> QED
  BY <1>0, <1>1, <1>2, <1>3, <1>4, <1>5, <1>6 DEF UpdateStep

\* Every step keeps the invariant, and once the loop runs every task its slot.
LEMMA TableStep ==
    ASSUME TableInv, [Next]_vars
    PROVE  TableInv' /\ (at # "boot" => SameTasks)
<1> USE DEF TableInv
<1>1. ASSUME UNCHANGED <<schedVars, board>>, at' = at
      PROVE  TableInv' /\ (at # "boot" => SameTasks)
  BY <1>1 DEF schedVars, SchedTypes, WhereAbouts, AllLive, Distinct, BootOK, InUse, SameTasks
<1>2. CASE Register
  BY <1>2, RegisterKeeps DEF Register
<1>3. CASE UpdateStep
  BY <1>3, UpdateKeeps, SameTasksKeep
<1>4. CASE HeartbeatTick \/ HeartbeatRest \/ PumpTake \/ PumpGenerate
  BY <1>1, <1>4 DEF HeartbeatTick, HeartbeatRest, PumpTake, PumpGenerate
<1>5. CASE TaskReturns
  <2>1. /\ sp \in {"call", "callOnce"} /\ sp' = "scan" /\ i' = i + 1
        /\ UNCHANGED <<board, at, table, used, nowAt, time, copy>>
    BY <1>5 DEF TaskReturns, Sched!CallReturn
  <2>2. at = "update"
    BY <2>1 DEF WhereAbouts
  <2>3. SameTasks /\ SchedTypes' /\ WhereAbouts'
    BY <2>1, <2>2 DEF SchedTypes, WhereAbouts, SameTasks, AllLive
  <2> QED
    BY <2>1, <2>2, <2>3, SameTasksKeep
<1>6. CASE UpdateReturns
  <2>1. /\ at = "update" /\ at' = "pump" /\ sp' = "idle"
        /\ UNCHANGED <<board, table, used, nowAt, time, i, copy>>
    BY <1>6 DEF UpdateReturns, Sched!UpdateEnd
  <2>2. SameTasks /\ SchedTypes' /\ WhereAbouts'
    BY <2>1 DEF SchedTypes, WhereAbouts, SameTasks, AllLive
  <2> QED
    BY <2>1, <2>2, SameTasksKeep
<1>7. CASE PumpReturns
  <2>1. at = "pump" /\ at' = "update" /\ UNCHANGED <<schedVars, board>>
    BY <1>7 DEF PumpReturns
  <2>2. SameTasks /\ SchedTypes' /\ WhereAbouts'
    BY <2>1 DEF schedVars, SchedTypes, WhereAbouts, SameTasks, AllLive
  <2> QED
    BY <2>1, <2>2, SameTasksKeep
<1>8. CASE SetLed \/ StartFileXfer
  BY <1>1, <1>8 DEF SetLed, StartFileXfer
<1>9. CASE SetDebounceMs
  <2>1. PICK p \in Debounces \ {0} : Sched!SetDebounce(p)
    BY <1>9 DEF SetDebounceMs
  <2>2. p \in Int
    BY LoopAssumption
  <2>3. SameTasks /\ table' \in [0 .. Size - 1 -> Entry]
    BY <2>1, <2>2, DebounceInPlace
  <2>4. at # "boot" /\ at' = at /\ UNCHANGED <<board, nowAt, time, sp, i, copy>>
    BY <1>9, <2>1 DEF SetDebounceMs, Sched!SetDebounce
  <2>5. SchedTypes' /\ WhereAbouts'
    BY <2>3, <2>4 DEF SchedTypes, WhereAbouts, SameTasks
  <2> QED
    BY <2>3, <2>4, <2>5, SameTasksKeep
<1>10. CASE Millisecond
  <2>1. time' = time + 1 /\ UNCHANGED <<board, at, table, used, nowAt, sp, i, copy>>
    BY <1>10 DEF Millisecond, Sched!Tick
  <2> QED
    BY <2>1 DEF SchedTypes, WhereAbouts, AllLive, Distinct, BootOK, InUse, SameTasks
<1>11. CASE UNCHANGED vars
  BY <1>1, <1>11 DEF vars
<1> QED
  BY <1>2, <1>3, <1>4, <1>5, <1>6, <1>7, <1>8, <1>9, <1>10, <1>11 DEF Next, Loop

LEMMA TableInit == Init => TableInv
<1> SUFFICES ASSUME Init PROVE TableInv
  OBVIOUS
<1>1. /\ board \in Boards /\ at = "boot" /\ sp = "idle" /\ used = 0 /\ i = 0
      /\ nowAt = StartTime /\ time = StartTime /\ copy = [due |-> 0, at |-> 0]
      /\ table = [s \in 0 .. Size - 1 |-> Sched!NoTask]
  BY DEF Init, Sched!Init, Sched!SlotRange
<1>2. Sched!NoTask \in Entry
  BY DEF Sched!NoTask, Entry, Names
<1>3. SchedTypes
  BY <1>1, <1>2, LoopAssumption DEF SchedTypes
<1>4. Len(Registered(board)) > 0
  BY <1>1, LoopAssumption DEF Registered
<1> QED
  BY <1>1, <1>3, <1>4 DEF TableInv, WhereAbouts, AllLive, Distinct, BootOK, InUse

THEOREM TableInvariant == Spec => []TableInv
  BY TableInit, TableStep, PTL DEF Spec

\* The slot whose task sched_update is about to call, or is calling, holds a
\* task, whatever the interrupt does (sched.c:126-147, button.c:98-107).
THEOREM TaskIsThere == Spec => []NoNullCall
<1>1. TableInv => NoNullCall
  BY DEF TableInv, WhereAbouts, AllLive, SchedTypes, InUse, NoNullCall, Sched!NoNullCall
<1> QED
  BY <1>1, TableInvariant, PTL

\* SET_DEBOUNCE_MS neither loses nor doubles a task (button.c:98-107), on any
\* table and at any point of sched_update.
THEOREM TasksStay == Spec => ButtonTaskStays
<1>1. ASSUME TableInv, TableInv', [Next]_vars, at # "boot"
      PROVE  Sched!Scheduled' = Sched!Scheduled /\ Sched!NoDuplicates'
  <2>1. SameTasks
    BY <1>1, TableStep
  <2>2. /\ Sched!Scheduled = {table[s].name : s \in InUse}
        /\ Sched!Scheduled' = {table'[s].name : s \in InUse'}
    BY <1>1 DEF TableInv, AllLive, InUse, Sched!Scheduled, Sched!Live
  <2>3. Sched!NoDuplicates'
    BY <1>1 DEF TableInv, Distinct, InUse, Sched!NoDuplicates, Sched!Live
  <2> QED
    BY <2>1, <2>2, <2>3 DEF SameTasks, InUse
<1>2. TableInv /\ TableInv' /\ [Next]_vars
          => [at # "boot" => Sched!Scheduled' = Sched!Scheduled /\ Sched!NoDuplicates']_vars
  BY <1>1
<1> QED
  BY <1>2, TableInvariant, PTL DEF Spec, ButtonTaskStays
=============================================================================
