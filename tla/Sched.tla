------------------------------- MODULE Sched -------------------------------
(***************************************************************************)
(* The cooperative scheduler of sched.c: a table of SCHED_SIZE slots, of   *)
(* which the first s_used are in use, some of them freed and not yet       *)
(* compacted away.  sched_update runs in the main loop, one step per slot, *)
(* and calls the tasks, which may themselves add and remove tasks.         *)
(*                                                                         *)
(* Times are Clock milliseconds wide and wrap around, as uint32_t does in  *)
(* the code; at and nowAt are the same times unbounded, for the properties.*)
(***************************************************************************)
EXTENDS Integers, FiniteSets

CONSTANTS
    Size,          \* SCHED_SIZE
    Names, Periods,\* tasks and periods that are used
    Clock,         \* 2^32: the range of the millisecond counter, even
    StartTime,     \* bound: time at start
    MaxTime,       \* bound: time at which the clock stops
    MaxOps,        \* bound: calls of sched_add and sched_remove
    InCallbacks,   \* tasks themselves call sched_add and sched_remove
    Btn            \* the name of the button task

ASSUME ConstantsAssumption ==
    /\ Size \in Nat \ {0} /\ Clock \in Nat /\ Clock >= 2 /\ Clock % 2 = 0
    /\ Periods \subseteq 1 .. (Clock \div 2) - 1
    /\ {StartTime, MaxTime, MaxOps} \subseteq Nat
    /\ InCallbacks \in BOOLEAN
    /\ Btn \in Names

VARIABLES
    table,     \* s_tasks: [name, period, due, at, repeat, cb] per slot
    used,      \* s_used
    nowAt,     \* s_now_ms, unbounded
    time,      \* the millisecond counter, unbounded
    pc, i,     \* where the main loop stands in sched_update
    copy,      \* register of t->due_ms += t->period_ms: the due times loaded
    called,    \* how often each task has been called
    ops

vars == <<table, used, nowAt, time, pc, i, copy, called, ops>>

SlotRange == 0 .. Size - 1
Wrap(t) == t % Clock
NoTask == [name |-> Btn, period |-> 1, due |-> 0, at |-> 0, repeat |-> FALSE, cb |-> FALSE]

Live == {s \in 0 .. used - 1 : table[s].cb}
Scheduled == {table[s].name : s \in Live}

TypeOK ==
    /\ table \in [SlotRange -> [name : Names, period : Periods \cup {1}, due : 0 .. Clock - 1,
                                at : Nat, repeat : BOOLEAN, cb : BOOLEAN]]
    /\ used \in 0 .. Size
    /\ nowAt \in Nat /\ time \in Nat
    /\ pc \in {"idle", "compact", "scan", "rearm", "call", "callOnce"}
    /\ i \in 0 .. Size
    /\ copy \in [due : 0 .. Clock - 1, at : Nat]
    /\ called \in [Names -> Nat] /\ ops \in Nat

Init ==
    /\ table = [s \in SlotRange |-> NoTask]
    /\ used = 0 /\ nowAt = StartTime /\ time = StartTime
    /\ pc = "idle" /\ i = 0 /\ copy = [due |-> 0, at |-> 0]
    /\ called = [n \in Names |-> 0] /\ ops = 0

(***************************************************************************)
(* sched_add and sched_remove, on a given table.                           *)
(***************************************************************************)

Freed(tab, u) == {s \in 0 .. u - 1 : ~tab[s].cb}
Lowest(S) == CHOOSE s \in S : \A r \in S : s <= r

\* Mutation: a freed slot is not looked for.
SlotFor_Tail(tab, u) == u

\* The lowest freed slot, else the next one at the end of the table.
SlotFor(tab, u) == IF Freed(tab, u) # {} THEN Lowest(Freed(tab, u)) ELSE u

NewTask(n, p, r) ==
    [name |-> n, period |-> p, due |-> Wrap(nowAt + p), at |-> nowAt + p,
     repeat |-> r, cb |-> TRUE]

\* Mutation: the table overflows by one task.
AddTo_NoLimit(tab, u, n, p, r) ==
    LET s == SlotFor(tab, u) IN
    /\ table' = IF s < Size THEN [tab EXCEPT ![s] = NewTask(n, p, r)] ELSE tab
    /\ used' = IF s < u THEN u ELSE u + 1

AddTo(tab, u, n, p, r) ==
    LET s == SlotFor(tab, u) IN
    IF s >= Size THEN table' = tab /\ used' = u
    ELSE /\ table' = [tab EXCEPT ![s] = NewTask(n, p, r)]
         /\ used' = IF s < u THEN u ELSE u + 1

\* The table without the first task named n: marked, not taken out.
Without(tab, u, n) ==
    LET S == {s \in 0 .. u - 1 : tab[s].cb /\ tab[s].name = n} IN
    IF S = {} THEN tab ELSE [tab EXCEPT ![Lowest(S)].cb = FALSE]

MayCall ==
    /\ pc = "idle" \/ (InCallbacks /\ pc \in {"call", "callOnce"})
    /\ ops < MaxOps /\ ops' = ops + 1

\* The program adds each name once.
SchedAdd(n, p, r) ==
    /\ MayCall /\ n \notin Scheduled
    /\ AddTo(table, used, n, p, r)
    /\ UNCHANGED <<nowAt, time, pc, i, copy, called>>

SchedRemove(n) ==
    /\ MayCall /\ n \in Scheduled
    /\ table' = Without(table, used, n)
    /\ UNCHANGED <<used, nowAt, time, pc, i, copy, called>>

(***************************************************************************)
(* sched_update.                                                           *)
(***************************************************************************)

UpdateBegin ==
    /\ pc = "idle"
    /\ pc' = "compact" /\ i' = 0 /\ nowAt' = time
    /\ UNCHANGED <<table, used, time, copy, called, ops>>

\* Mutation: the end of the table stays where it is.
Compact_KeepsEnd ==
    /\ pc = "compact" /\ i < used
    /\ i' = i + 1
    /\ IF table[i].cb THEN UNCHANGED table
                      ELSE table' = [table EXCEPT ![i] = table[used - 1]]
    /\ UNCHANGED <<used, nowAt, time, pc, copy, called, ops>>

\* Mutation: freed slots are cut off the end of the table.
Compact_Cuts ==
    /\ pc = "compact" /\ i < used
    /\ IF table[i].cb THEN i' = i + 1 /\ UNCHANGED used
                      ELSE used' = used - 1 /\ UNCHANGED i
    /\ UNCHANGED <<table, nowAt, time, pc, copy, called, ops>>

\* A freed slot takes the last task of the table, and is looked at again.
Compact ==
    /\ pc = "compact" /\ i < used
    /\ IF table[i].cb THEN i' = i + 1 /\ UNCHANGED <<table, used>>
       ELSE /\ table' = [table EXCEPT ![i] = table[used - 1]] /\ used' = used - 1
            /\ UNCHANGED i
    /\ UNCHANGED <<nowAt, time, pc, copy, called, ops>>

CompactDone ==
    /\ pc = "compact" /\ i >= used
    /\ pc' = "scan" /\ i' = 0
    /\ UNCHANGED <<table, used, nowAt, time, copy, called, ops>>

\* Mutation: the two times are compared as they are.
Due_Unsigned(s) == Wrap(nowAt) >= table[s].due

\* (int32_t)(now_ms - t->due_ms) >= 0.
Due(s) == Wrap(nowAt - table[s].due) < Clock \div 2

\* Mutation: the first task that is not due ends the pass.
ScanSkip_Ends ==
    /\ pc = "scan" /\ i < used
    /\ ~table[i].cb \/ ~Due(i)
    /\ i' = used
    /\ UNCHANGED <<table, used, nowAt, time, pc, copy, called, ops>>

ScanSkip ==
    /\ pc = "scan" /\ i < used
    /\ ~table[i].cb \/ ~Due(i)
    /\ i' = i + 1
    /\ UNCHANGED <<table, used, nowAt, time, pc, copy, called, ops>>

\* A repeating task is due: the load of t->due_ms += t->period_ms.
ScanRepeat ==
    /\ pc = "scan" /\ i < used /\ table[i].cb /\ Due(i) /\ table[i].repeat
    /\ pc' = "rearm" /\ copy' = [due |-> table[i].due, at |-> table[i].at]
    /\ UNCHANGED <<table, used, nowAt, time, i, called, ops>>

\* ... the store; the call follows, so it counts from here on.
Rearm ==
    /\ pc = "rearm"
    /\ pc' = "call"
    /\ table' = [table EXCEPT ![i].due = Wrap(copy.due + table[i].period),
                              ![i].at = copy.at + table[i].period]
    /\ called' = [called EXCEPT ![table[i].name] = @ + 1]
    /\ UNCHANGED <<used, nowAt, time, i, copy, ops>>

\* A one-shot is due: its slot is free before it is called.
ScanOnce ==
    /\ pc = "scan" /\ i < used /\ table[i].cb /\ Due(i) /\ ~table[i].repeat
    /\ pc' = "callOnce" /\ table' = [table EXCEPT ![i].cb = FALSE]
    /\ called' = [called EXCEPT ![table[i].name] = @ + 1]
    /\ UNCHANGED <<used, nowAt, time, i, copy, ops>>

\* The callback returns.
CallReturn ==
    /\ pc \in {"call", "callOnce"}
    /\ pc' = "scan" /\ i' = i + 1
    /\ UNCHANGED <<table, used, nowAt, time, copy, called, ops>>

UpdateEnd ==
    /\ pc = "scan" /\ i >= used
    /\ pc' = "idle"
    /\ UNCHANGED <<table, used, nowAt, time, i, copy, called, ops>>

Update ==
    \/ UpdateBegin \/ Compact \/ CompactDone \/ ScanSkip \/ ScanRepeat \/ Rearm
    \/ ScanOnce \/ CallReturn \/ UpdateEnd

(***************************************************************************)
(* The interrupt and the clock.                                            *)
(***************************************************************************)

\* Button_SetDebounceMs in the USB interrupt: sched_remove, then sched_add.  It
\* is an action of MainLoop, between any two steps of Update.
SetDebounce(p) ==
    /\ Btn \in Scheduled
    /\ ops < MaxOps /\ ops' = ops + 1
    /\ AddTo(Without(table, used, Btn), used, Btn, p, TRUE)
    /\ UNCHANGED <<nowAt, time, pc, i, copy, called>>

\* No task waits for half the range of the clock: 24 days in the code.
LagBounded == \A s \in Live : time + 1 - table[s].at < Clock \div 2

Tick ==
    /\ time < MaxTime /\ LagBounded /\ time + 1 - nowAt < Clock \div 2
    /\ time' = time + 1
    /\ UNCHANGED <<table, used, nowAt, pc, i, copy, called, ops>>

Next ==
    \/ \E n \in Names, p \in Periods, r \in BOOLEAN : SchedAdd(n, p, r)
    \/ \E n \in Names : SchedRemove(n)
    \/ Update \/ Tick

Spec == Init /\ [][Next]_vars

\* The main loop calls sched_update again and again and every task returns.
FairSpec == Spec /\ WF_vars(Update)

-----------------------------------------------------------------------------

\* The wrapped due time decides as the unbounded one would: across the
\* wraparound of the counter no task is called early and none is held back.
DueIsDue == \A s \in Live : Due(s) <=> table[s].at <= nowAt

\* No name has two slots, whatever compaction and reuse of slots do while
\* tasks come and go inside their own callbacks.
NoDuplicates == \A s, t \in Live : table[s].name = table[t].name => s = t

\* A task that is due is called or taken out in the end, and a pass that
\* began comes to its end: no task is skipped for ever by moving slots.
DueIsCalled ==
    \A n \in Names :
        (\E s \in Live : table[s].name = n /\ table[s].at <= time)
            ~> ~(\E s \in Live : table[s].name = n /\ table[s].at <= time)

\* The task of slot s, as TimerSet has it.
TaskAt(s) ==
    [name |-> table[s].name, due |-> table[s].at,
     period |-> table[s].period, repeat |-> table[s].repeat]
Tasks == {TaskAt(s) : s \in Live}

Timers == INSTANCE TimerSet WITH tasks <- Tasks, requests <- ops

\* The table with its freed slots, its moves and its wrapped times behaves as
\* the set of timers: no task is lost, doubled, called early or drifts.
ImplementsTimers == Timers!TimersSpec

\* The interrupt never takes the task away that the main loop is calling.
NoNullCall == pc \in {"rearm", "call"} => i < used /\ table[i].cb

\* A repeating task is due again exactly one period after it was due, whatever
\* an interrupt has done to it while sched_update was at it.  The code does not
\* keep to it (README, known deviations): no run checks it.
PeriodExact == [][Rearm => table'[i].at = table[i].at + table[i].period]_vars
=============================================================================
