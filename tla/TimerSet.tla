------------------------------ MODULE TimerSet ------------------------------
(***************************************************************************)
(* What sched.h promises, without the table: a set of named tasks.  A task *)
(* is called when its time has come and not before; a repeating one is due *)
(* again one period later, exactly; a one-shot is forgotten.  Time does    *)
(* not wrap around.                                                        *)
(***************************************************************************)
EXTENDS Naturals, FiniteSets

CONSTANTS
    Names,      \* names of tasks
    Periods,    \* their periods
    Size        \* how many tasks there is room for

VARIABLES
    time,       \* milliseconds
    tasks,      \* set of [name, due, period, repeat]
    called,     \* how often each name has been called
    requests    \* calls of sched_add and sched_remove

tsVars == <<time, tasks, called, requests>>

InitTimers ==
    /\ time \in Nat /\ tasks = {} /\ called = [n \in Names |-> 0]
    /\ requests = 0

Add(n, period, repeat) ==
    /\ \A t \in tasks : t.name # n
    /\ \E base \in 0 .. time :
           tasks' = tasks \cup {[name |-> n, due |-> base + period,
                                 period |-> period, repeat |-> repeat]}
    /\ Cardinality(tasks') <= Size
    /\ requests' = requests + 1
    /\ UNCHANGED <<time, called>>

\* There is no room for one more.
Refuse ==
    /\ Cardinality(tasks) >= Size
    /\ requests' = requests + 1
    /\ UNCHANGED <<time, tasks, called>>

Remove(n) ==
    /\ tasks' = {t \in tasks : t.name # n}
    /\ requests' = requests + 1
    /\ UNCHANGED <<time, called>>

Call(t) ==
    /\ t \in tasks /\ t.due <= time
    /\ tasks' = (tasks \ {t}) \cup
           (IF t.repeat THEN {[t EXCEPT !.due = @ + t.period]} ELSE {})
    /\ called' = [called EXCEPT ![t.name] = @ + 1]
    /\ UNCHANGED <<time, requests>>

Tick == time' = time + 1 /\ UNCHANGED <<tasks, called, requests>>

TimersNext ==
    \/ \E n \in Names : Remove(n) \/ \E p \in Periods, r \in BOOLEAN : Add(n, p, r)
    \/ \E t \in tasks : Call(t)
    \/ Refuse \/ Tick

TimersSpec == InitTimers /\ [][TimersNext]_tsVars
=============================================================================
