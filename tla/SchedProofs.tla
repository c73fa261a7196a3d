---------------------------- MODULE SchedProofs -----------------------------
(***************************************************************************)
(* Proofs about the scheduler, for every size of the table, set of names   *)
(* and periods, and range of the clock: the types, that no name has two    *)
(* slots, that the wrapped times decide as the unbounded ones, and that    *)
(* the table implements the set of timers.                                 *)
(***************************************************************************)
EXTENDS Sched, FiniteSetTheorems, TLAPS

(***************************************************************************)
(* Arithmetic modulo C, which is how an index into a ring, or a clock that *)
(* wraps around, is computed.                                              *)
(***************************************************************************)

LEMMA ModRange == ASSUME NEW C \in Nat \ {0}, NEW x \in Int PROVE x % C \in 0 .. C - 1
  OBVIOUS

LEMMA ModUnique ==
    ASSUME NEW C \in Nat \ {0}, NEW q \in Int, NEW r \in 0 .. C - 1
    PROVE  (C * q + r) % C = r
  OBVIOUS

\* Whole turns do not show.
LEMMA ModShift ==
    ASSUME NEW C \in Nat \ {0}, NEW x \in Int, NEW q \in Int
    PROVE  (x + C * q) % C = x % C
<1>1. x + C * q = C * (x \div C + q) + (x % C)
  OBVIOUS
<1>2. x % C \in 0 .. C - 1 /\ x \div C \in Int /\ x \div C + q \in Int
  OBVIOUS
<1> QED
  BY <1>1, <1>2, ModUnique

\* A number may be added to, or taken from another, before or after its
\* modulus is taken.
LEMMA ModArith ==
    ASSUME NEW C \in Nat \ {0}, NEW n \in Int, NEW a \in Int
    PROVE  /\ (n - (a % C)) % C = (n - a) % C
           /\ ((a % C) + n) % C = (a + n) % C
<1>1. n - (a % C) = (n - a) + C * (a \div C) /\ a + n = ((a % C) + n) + C * (a \div C)
  OBVIOUS
<1>2. n - a \in Int /\ (a % C) + n \in Int /\ a \div C \in Int
  OBVIOUS
<1>3. ((n - a) + C * (a \div C)) % C = (n - a) % C
  BY <1>2, ModShift
<1>4. (((a % C) + n) + C * (a \div C)) % C = ((a % C) + n) % C
  BY <1>2, ModShift
<1> QED
  BY <1>1, <1>3, <1>4

Half == Clock \div 2

Entry == [name : Names, period : Periods \cup {1}, due : 0 .. Clock - 1, at : Nat,
          repeat : BOOLEAN, cb : BOOLEAN]

\* The types, and that no task is called out of a slot past the end.
SlotInv == TypeOK /\ (pc \in {"rearm", "call", "callOnce"} => i < Size)

LEMMA Numbers ==
    /\ Clock \in Nat \ {0} /\ Half \in Nat \ {0} /\ Clock = 2 * Half
    /\ Size \in Nat \ {0} /\ Periods \subseteq Nat
    /\ \A p \in Periods : p > 0 /\ p < Half
  BY ConstantsAssumption DEF Half

(***************************************************************************)
(* Numbers: the wrapped comparison, and the least of a set of slots.       *)
(***************************************************************************)

\* (int32_t) of a difference of less than half the range has its sign.
LEMMA Near ==
    ASSUME NEW x \in Int, -Half < x, x < Half
    PROVE  x % Clock < Half <=> 0 <= x
<1>1. CASE 0 <= x
  <2>1. x = Clock * 0 + x /\ x \in 0 .. Clock - 1
    BY <1>1, Numbers
  <2> QED
    BY <1>1, <2>1, ModUnique, Numbers
<1>2. CASE x < 0
  <2>1. x + Clock \in 0 .. Clock - 1 /\ x = Clock * (-1) + (x + Clock) /\ x + Clock > Half
    BY <1>2, Numbers
  <2>2. x % Clock = x + Clock
    BY <2>1, ModUnique, Numbers
  <2> QED
    BY <1>2, <2>1, <2>2, Numbers
<1> QED
  BY <1>1, <1>2

\* A set of naturals without a least one would have a bounded set L of numbers
\* below it, and n + 1 in L with every n: an injection of a finite set into
\* itself which misses 0.
LEMMA LeastExists ==
    ASSUME NEW S \in SUBSET Nat, S # {}
    PROVE  Lowest(S) \in S
<1>1. \E x \in S : \A y \in S : x <= y
  <2> SUFFICES ASSUME \A x \in S : \E y \in S : y < x
               PROVE  FALSE
    OBVIOUS
  <2> DEFINE L == {n \in Nat : \A s \in S : n < s}
             up == [n \in L |-> n + 1]
  <2>1. PICK top \in S : TRUE
    OBVIOUS
  <2>2. L \in SUBSET Nat /\ \A n \in L : n <= top
    BY <2>1
  <2>3. IsFiniteSet(L)
    BY <2>1, <2>2, FS_BoundedSetOfNaturals
  <2>4. 0 \in L /\ \A n \in L : n + 1 \in L
    OBVIOUS
  <2>5. up \in Injection(L, L)
    BY <2>4 DEF Injection, IsInjective
  <2>6. up \in Surjection(L, L)
    BY <2>3, <2>5, FS_Injection
  <2>7. PICK n \in L : up[n] = 0
    BY <2>4, <2>6 DEF Surjection
  <2> QED
    BY <2>7
<1> QED
  BY <1>1 DEF Lowest

(***************************************************************************)
(* What the operations do to the table.                                    *)
(***************************************************************************)

LEMMA SlotFacts ==
    ASSUME SlotInv
    PROVE  /\ used \in Nat /\ used <= Size /\ Size \in Nat
           /\ Live \subseteq 0 .. used - 1 /\ 0 .. used - 1 \subseteq SlotRange
           /\ \A s \in Live : s \in SlotRange /\ s \in Nat
           /\ \A s \in SlotRange : table[s] \in Entry
  BY Numbers DEF SlotInv, TypeOK, Live, SlotRange, Entry

\* What sched_add writes is an entry of the table.
LEMMA NewTaskType ==
    ASSUME SlotInv, NEW n \in Names, NEW p \in Periods, NEW r \in BOOLEAN
    PROVE  NewTask(n, p, r) \in Entry
<1>1. nowAt + p \in Nat
  BY Numbers DEF SlotInv, TypeOK
<1>2. Wrap(nowAt + p) \in 0 .. Clock - 1
  <2>1. nowAt + p \in Int /\ Clock \in Nat \ {0}
    BY <1>1, Numbers
  <2> QED
    BY <2>1, ModRange DEF Wrap
<1> QED
  BY <1>1, <1>2 DEF NewTask, Entry

\* sched_add takes a freed slot, or the next one, and finds none only if every
\* slot of the table is taken.
LEMMA AddEffect ==
    ASSUME SlotInv, NEW n \in Names, NEW p \in Periods, NEW r \in BOOLEAN,
           AddTo(table, used, n, p, r)
    PROVE  \/ UNCHANGED <<table, used>> /\ used = Size /\ Live = SlotRange
           \/ \E k \in SlotRange \ Live :
                  /\ table' \in [SlotRange -> Entry] /\ used' \in 0 .. Size
                  /\ table'[k] = NewTask(n, p, r)
                  /\ \A s \in SlotRange : s # k => table'[s] = table[s]
                  /\ Live' = Live \cup {k}
<1> DEFINE k == SlotFor(table, used)
<1>1. \/ k = used /\ Freed(table, used) = {}
      \/ k \in 0 .. used - 1 /\ ~table[k].cb
  <2>1. Freed(table, used) \in SUBSET Nat
    BY SlotFacts DEF Freed
  <2>2. CASE Freed(table, used) = {}
    BY <2>2 DEF SlotFor
  <2>3. CASE Freed(table, used) # {}
    <3>1. k \in Freed(table, used)
      BY <2>1, <2>3, LeastExists DEF SlotFor
    <3> QED
      BY <3>1 DEF Freed
  <2> QED
    BY <2>2, <2>3
<1>2. CASE k >= Size
  <2>1. k = used /\ Freed(table, used) = {} /\ used = Size
    BY <1>1, <1>2, SlotFacts
  <2>2. UNCHANGED <<table, used>>
    BY <1>2 DEF AddTo
  <2>3. Live = SlotRange
    BY <2>1 DEF Live, Freed, SlotRange
  <2> QED
    BY <2>1, <2>2, <2>3
<1>3. CASE ~(k >= Size)
  <2>1. /\ table' = [table EXCEPT ![k] = NewTask(n, p, r)]
        /\ used' = IF k < used THEN used ELSE used + 1
    BY <1>3 DEF AddTo
  <2> HIDE DEF k
  <2>2. k \in SlotRange /\ k \notin Live
    BY <1>1, <1>3, SlotFacts DEF SlotRange, Live
  <2>3. used' \in 0 .. Size /\ 0 .. used' - 1 = (0 .. used - 1) \cup {k}
    BY <1>1, <1>3, <2>1, SlotFacts
  <2> DEFINE New == NewTask(n, p, r)
  <2>4. New \in Entry /\ New.cb
    BY NewTaskType DEF NewTask
  <2>5. table \in [SlotRange -> Entry] /\ table' = [table EXCEPT ![k] = New]
    BY <2>1 DEF SlotInv, TypeOK, Entry
  <2> HIDE DEF New
  <2>6. /\ table' \in [SlotRange -> Entry] /\ table'[k] = New
        /\ \A s \in SlotRange : s # k => table'[s] = table[s]
    BY <2>2, <2>4, <2>5
  <2>7. \A s \in 0 .. used - 1 : s \in SlotRange
    BY SlotFacts
  <2>8. Live' = Live \cup {k}
    BY <2>3, <2>4, <2>6, <2>7 DEF Live
  <2> QED
    BY <2>2, <2>3, <2>6, <2>8 DEF New
<1> QED
  BY <1>2, <1>3

\* sched_remove frees a slot of the task, where it has one.
LEMMA RemoveEffect ==
    ASSUME SlotInv, NEW n, n \in Scheduled
    PROVE  \E k \in Live : /\ table[k].name = n
                           /\ Without(table, used, n) = [table EXCEPT ![k].cb = FALSE]
<1> DEFINE S == {s \in 0 .. used - 1 : table[s].cb /\ table[s].name = n}
<1>1. S # {} /\ S \in SUBSET Nat
  BY SlotFacts DEF Scheduled, Live
<1>2. Lowest(S) \in S
  BY <1>1, LeastExists
<1>3. Without(table, used, n) = [table EXCEPT ![Lowest(S)].cb = FALSE]
  BY <1>1 DEF Without
<1> QED
  BY <1>2, <1>3 DEF Live

\* A slot is freed: by sched_remove, and for a one-shot before it is called.
LEMMA FreeSlot ==
    ASSUME SlotInv, NEW k \in Live, table' = [table EXCEPT ![k].cb = FALSE]
    PROVE  /\ table' \in [SlotRange -> Entry]
           /\ \A s \in SlotRange : s # k => table'[s] = table[s]
           /\ used' = used => Live' = Live \ {k}
<1>1. k \in SlotRange /\ table \in [SlotRange -> Entry]
  BY SlotFacts DEF SlotInv, TypeOK, Entry
<1>2. /\ table' \in [SlotRange -> Entry] /\ ~table'[k].cb
      /\ \A s \in SlotRange : s # k => table'[s] = table[s]
  BY <1>1 DEF Entry
<1>3. \A s \in 0 .. used - 1 : s \in SlotRange
  BY SlotFacts
<1> QED
  BY <1>2, <1>3 DEF Live

\* Compaction moves the last task of the table into the freed slot, if there is
\* a task in the last slot.
LEMMA CompactEffect ==
    ASSUME SlotInv, Compact, ~table[i].cb
    PROVE  /\ i \in SlotRange \ Live /\ used - 1 \in SlotRange
           /\ table' \in [SlotRange -> Entry]
           /\ table'[i] = table[used - 1]
           /\ \A s \in SlotRange : s # i => table'[s] = table[s]
           /\ Live' = IF used - 1 \in Live THEN (Live \ {used - 1}) \cup {i} ELSE Live
<1>1. /\ i \in SlotRange /\ i \notin Live /\ i \in 0 .. used - 1
      /\ used - 1 \in SlotRange /\ used - 1 \in 0 .. used - 1 /\ used \in Nat
  BY SlotFacts DEF Compact, SlotInv, TypeOK, SlotRange, Live
<1>2. /\ table \in [SlotRange -> Entry] /\ used' = used - 1
      /\ table' = [table EXCEPT ![i] = table[used - 1]]
  BY DEF Compact, SlotInv, TypeOK, Entry
<1>3. /\ table' \in [SlotRange -> Entry] /\ table'[i] = table[used - 1]
      /\ \A s \in SlotRange : s # i => table'[s] = table[s]
  BY <1>1, <1>2
<1>4. 0 .. used' - 1 = (0 .. used - 1) \ {used - 1}
  BY <1>1, <1>2
<1>5. \A s \in 0 .. used - 1 : s \in SlotRange
  BY SlotFacts
<1>6. Live' = {s \in (0 .. used - 1) \ {used - 1} : table'[s].cb}
  BY <1>4 DEF Live
<1>7. CASE used - 1 \in Live
  <2>1. i # used - 1 /\ table[used - 1].cb
    BY <1>1, <1>7 DEF Live
  <2>2. \A s \in 0 .. used - 1 : s \in Live' <=> s \in (Live \ {used - 1}) \cup {i}
    BY <1>1, <1>3, <1>5, <1>6, <2>1 DEF Live
  <2>3. Live' \subseteq 0 .. used - 1 /\ (Live \ {used - 1}) \cup {i} \subseteq 0 .. used - 1
    BY <1>1, <1>6 DEF Live
  <2>4. Live' = (Live \ {used - 1}) \cup {i}
    BY <2>2, <2>3
  <2> QED
    BY <1>1, <1>3, <1>7, <2>4
<1>8. CASE used - 1 \notin Live
  <2>1. ~table[used - 1].cb
    BY <1>1, <1>8 DEF Live
  <2>2. Live' = Live
    BY <1>1, <1>3, <1>5, <1>6, <1>8, <2>1 DEF Live
  <2> QED
    BY <1>1, <1>3, <1>8, <2>2
<1> QED
  BY <1>7, <1>8

\* The store of t->due_ms += t->period_ms.
LEMMA RearmEffect ==
    ASSUME SlotInv, Rearm
    PROVE  /\ i \in SlotRange /\ table' \in [SlotRange -> Entry] /\ Live' = Live
           /\ table'[i] = [table[i] EXCEPT !.due = Wrap(copy.due + table[i].period),
                                          !.at = copy.at + table[i].period]
           /\ \A s \in SlotRange : s # i => table'[s] = table[s]
<1> DEFINE due == Wrap(copy.due + table[i].period)
           next == copy.at + table[i].period
           new == [table[i] EXCEPT !.due = due, !.at = next]
<1>1. i \in SlotRange /\ table[i] \in Entry /\ table \in [SlotRange -> Entry]
  BY SlotFacts DEF Rearm, SlotInv, TypeOK, SlotRange, Entry
<1>2. copy.due \in Nat /\ copy.at \in Nat /\ table[i].period \in Nat
  <2>1. table[i].period \in Periods \cup {1}
    BY <1>1 DEF Entry
  <2>2. Periods \cup {1} \subseteq Nat
    BY Numbers
  <2>3. table[i].period \in Nat
    BY <2>1, <2>2
  <2> QED
    BY <2>3 DEF SlotInv, TypeOK
<1>3. due \in 0 .. Clock - 1
  <2>1. copy.due + table[i].period \in Int
    BY <1>2
  <2> QED
    BY <2>1, ModRange, Numbers DEF Wrap
<1>4. next \in Nat
  BY <1>2
<1>5. table' = [table EXCEPT ![i] = new]
  BY <1>1 DEF Rearm
<1> HIDE DEF due, next
<1>6. new \in Entry /\ new.cb = table[i].cb
  BY <1>1, <1>3, <1>4 DEF Entry
<1> HIDE DEF new
<1>7. table' \in [SlotRange -> Entry] /\ table'[i] = new
      /\ \A s \in SlotRange : s # i => table'[s] = table[s]
  BY <1>1, <1>5, <1>6
<1>8. Live' = Live
  <2>1. used' = used /\ \A s \in 0 .. used - 1 : s \in SlotRange
    BY SlotFacts DEF Rearm
  <2>2. \A s \in SlotRange : table'[s].cb = table[s].cb
    BY <1>6, <1>7
  <2> QED
    BY <2>1, <2>2 DEF Live
<1> QED
  BY <1>1, <1>7, <1>8 DEF new, due, next

(***************************************************************************)
(* Types.                                                                  *)
(***************************************************************************)

LEMMA SlotStep == SlotInv /\ [Next]_vars => SlotInv'
<1> SUFFICES ASSUME SlotInv, [Next]_vars PROVE SlotInv'
  OBVIOUS
<1>1. CASE \E n \in Names, p \in Periods, r \in BOOLEAN : SchedAdd(n, p, r)
  <2>1. PICK n \in Names, p \in Periods, r \in BOOLEAN : SchedAdd(n, p, r)
    BY <1>1
  <2>2. /\ AddTo(table, used, n, p, r) /\ ops' = ops + 1
        /\ UNCHANGED <<nowAt, time, pc, i, copy, called>>
    BY <2>1 DEF SchedAdd, MayCall
  <2>3. table' \in [SlotRange -> Entry] /\ used' \in 0 .. Size
    <3>1. CASE UNCHANGED <<table, used>>
      BY <3>1 DEF SlotInv, TypeOK, Entry
    <3> QED
      BY <2>2, <3>1, AddEffect
  <2> QED
    BY <2>2, <2>3 DEF SlotInv, TypeOK, Entry
<1>2. CASE \E n \in Names : SchedRemove(n)
  <2>1. PICK n \in Names : SchedRemove(n)
    BY <1>2
  <2>2. /\ table' = Without(table, used, n) /\ n \in Scheduled /\ ops' = ops + 1
        /\ UNCHANGED <<used, nowAt, time, pc, i, copy, called>>
    BY <2>1 DEF SchedRemove, MayCall
  <2>3. PICK k \in Live : table' = [table EXCEPT ![k].cb = FALSE]
    BY <2>2, RemoveEffect
  <2>4. table' \in [SlotRange -> Entry]
    BY <2>3, FreeSlot
  <2> QED
    BY <2>2, <2>4 DEF SlotInv, TypeOK, Entry
<1>3. CASE UpdateBegin
  BY <1>3, Numbers DEF UpdateBegin, SlotInv, TypeOK
<1>4. CASE Compact
  <2>1. /\ pc = "compact" /\ i < used /\ i + 1 \in 0 .. Size
        /\ i \in SlotRange /\ used - 1 \in SlotRange /\ used - 1 \in 0 .. Size
    BY <1>4, SlotFacts DEF Compact, SlotInv, TypeOK, SlotRange
  <2>2. /\ UNCHANGED <<nowAt, time, pc, copy, called, ops>>
        /\ \/ i' = i + 1 /\ UNCHANGED <<table, used>>
           \/ table' = [table EXCEPT ![i] = table[used - 1]] /\ used' = used - 1 /\ i' = i
    BY <1>4 DEF Compact
  <2>3. table' \in [SlotRange -> Entry] /\ used' \in 0 .. Size /\ i' \in 0 .. Size
    BY <2>1, <2>2, SlotFacts DEF SlotInv, TypeOK, Entry
  <2> QED
    BY <2>1, <2>2, <2>3 DEF SlotInv, TypeOK, Entry
<1>5. CASE CompactDone
  BY <1>5, Numbers DEF CompactDone, SlotInv, TypeOK
<1>6. CASE ScanSkip
  BY <1>6, Numbers DEF ScanSkip, SlotInv, TypeOK
<1>7. CASE ScanRepeat
  <2>1. i \in SlotRange /\ i < Size
    BY <1>7, SlotFacts DEF ScanRepeat, SlotInv, TypeOK, SlotRange
  <2>2. copy' \in [due : 0 .. Clock - 1, at : Nat]
    BY <1>7, <2>1, SlotFacts DEF ScanRepeat, Entry
  <2> QED
    BY <1>7, <2>1, <2>2 DEF ScanRepeat, SlotInv, TypeOK
<1>8. CASE Rearm
  <2>1. i \in SlotRange /\ i < Size /\ table[i].name \in Names
    BY <1>8, SlotFacts DEF Rearm, SlotInv, TypeOK, SlotRange, Entry
  <2>2. table' \in [SlotRange -> Entry]
    BY <1>8, <2>1, RearmEffect
  <2>3. called' \in [Names -> Nat]
    BY <1>8, <2>1 DEF Rearm, SlotInv, TypeOK
  <2> QED
    BY <1>8, <2>1, <2>2, <2>3 DEF Rearm, SlotInv, TypeOK, Entry
<1>9. CASE ScanOnce
  <2>1. i \in SlotRange /\ i < Size /\ table[i].name \in Names
    BY <1>9, SlotFacts DEF ScanOnce, SlotInv, TypeOK, SlotRange, Entry
  <2>2. table' \in [SlotRange -> Entry]
    <3>1. i \in Live
      BY <1>9 DEF ScanOnce, Live, SlotInv, TypeOK
    <3> QED
      BY <1>9, <3>1, FreeSlot DEF ScanOnce
  <2>3. called' \in [Names -> Nat]
    BY <1>9, <2>1 DEF ScanOnce, SlotInv, TypeOK
  <2> QED
    BY <1>9, <2>1, <2>2, <2>3 DEF ScanOnce, SlotInv, TypeOK, Entry
<1>10. CASE CallReturn
  BY <1>10, Numbers DEF CallReturn, SlotInv, TypeOK
<1>11. CASE UpdateEnd
  BY <1>11 DEF UpdateEnd, SlotInv, TypeOK
<1>12. CASE Tick
  BY <1>12 DEF Tick, SlotInv, TypeOK
<1>13. CASE UNCHANGED vars
  BY <1>13 DEF vars, SlotInv, TypeOK
<1> QED
  BY <1>1, <1>2, <1>3, <1>4, <1>5, <1>6, <1>7, <1>8, <1>9, <1>10, <1>11, <1>12, <1>13
  DEF Next, Update

LEMMA SlotInit == Init => SlotInv
<1> SUFFICES ASSUME Init PROVE SlotInv
  OBVIOUS
<1>1. NoTask \in Entry
  BY ConstantsAssumption, Numbers DEF NoTask, Entry
<1>2. table \in [SlotRange -> Entry]
  BY <1>1 DEF Init
<1>3. 0 \in 0 .. Size /\ 0 \in 0 .. Clock - 1 /\ StartTime \in Nat
  BY Numbers, ConstantsAssumption
<1> QED
  BY <1>2, <1>3 DEF Init, SlotInv, TypeOK, Entry

\* sched.c: every slot, index and time stays in its type.
THEOREM TypeCorrect == Spec => []TypeOK
<1>1. SlotInv => TypeOK
  BY DEF SlotInv
<1> QED
  BY <1>1, SlotInit, SlotStep, PTL DEF Spec

(***************************************************************************)
(* No name has two slots.                                                  *)
(***************************************************************************)

\* Steps that leave the slots in use and their names as they are.
LEMMA SameNames ==
    ASSUME NoDuplicates, Live' \subseteq Live, \A s \in Live' : table'[s].name = table[s].name
    PROVE  NoDuplicates'
  BY DEF NoDuplicates

LEMMA NamesStep == SlotInv /\ NoDuplicates /\ [Next]_vars => NoDuplicates'
<1> SUFFICES ASSUME SlotInv, NoDuplicates, [Next]_vars PROVE NoDuplicates'
  OBVIOUS
<1>1. ASSUME UNCHANGED <<table, used>> PROVE NoDuplicates'
  BY <1>1 DEF NoDuplicates, Live
<1>2. CASE \E n \in Names, p \in Periods, r \in BOOLEAN : SchedAdd(n, p, r)
  <2>1. PICK n \in Names, p \in Periods, r \in BOOLEAN : SchedAdd(n, p, r)
    BY <1>2
  <2>2. AddTo(table, used, n, p, r) /\ \A s \in Live : table[s].name # n
    BY <2>1 DEF SchedAdd, Scheduled
  <2>3. CASE UNCHANGED <<table, used>>
    BY <1>1, <2>3
  <2>4. CASE \E k \in SlotRange \ Live :
                 /\ table'[k] = NewTask(n, p, r)
                 /\ \A s \in SlotRange : s # k => table'[s] = table[s]
                 /\ Live' = Live \cup {k}
    <3>1. NewTask(n, p, r).name = n
      BY DEF NewTask
    <3> QED
      BY <2>2, <2>4, <3>1, SlotFacts DEF NoDuplicates
  <2> QED
    BY <2>2, <2>3, <2>4, AddEffect
<1>3. CASE \E n \in Names : SchedRemove(n)
  <2>1. PICK n \in Names : SchedRemove(n)
    BY <1>3
  <2>2. PICK k \in Live : table' = [table EXCEPT ![k].cb = FALSE] /\ used' = used
    BY <2>1, RemoveEffect DEF SchedRemove
  <2> QED
    BY <2>2, FreeSlot, SlotFacts DEF NoDuplicates
<1>4. CASE Compact
  <2>1. CASE table[i].cb
    BY <1>1, <1>4, <2>1 DEF Compact
  <2>2. CASE ~table[i].cb
    BY <1>4, <2>2, CompactEffect, SlotFacts DEF NoDuplicates
  <2> QED
    BY <2>1, <2>2
<1>5. CASE Rearm
  <2>1. Live' = Live /\ table'[i].name = table[i].name
        /\ \A s \in SlotRange : s # i => table'[s] = table[s]
    BY <1>5, RearmEffect, SlotFacts DEF Entry
  <2> QED
    BY <2>1, SlotFacts, SameNames
<1>6. CASE ScanOnce
  <2>1. i \in Live /\ table' = [table EXCEPT ![i].cb = FALSE] /\ used' = used
    BY <1>6 DEF ScanOnce, Live, SlotInv, TypeOK
  <2> QED
    BY <2>1, FreeSlot, SlotFacts DEF NoDuplicates
<1>7. CASE UpdateBegin \/ CompactDone \/ ScanSkip \/ ScanRepeat \/ CallReturn \/ UpdateEnd
  BY <1>1, <1>7 DEF UpdateBegin, CompactDone, ScanSkip, ScanRepeat, CallReturn, UpdateEnd
<1>8. CASE Tick \/ UNCHANGED vars
  BY <1>1, <1>8 DEF Tick, vars
<1> QED
  BY <1>2, <1>3, <1>4, <1>5, <1>6, <1>7, <1>8 DEF Next, Update

\* sched.c:39-157: slots are freed, reused and moved, by tasks inside
\* their own callbacks as well, and no task comes to have two.
THEOREM OneSlotEach == Spec => []NoDuplicates
<1>1. Init => NoDuplicates
  BY DEF Init, NoDuplicates, Live
<1> QED
  BY <1>1, SlotInit, SlotStep, NamesStep, PTL DEF Spec

(***************************************************************************)
(* Times.                                                                  *)
(***************************************************************************)

\* The time of slot s, wrapped and not, when the pass looks at now.
TimeOK(s) ==
    /\ table[s].period \in Periods /\ table[s].due = Wrap(table[s].at)
    /\ time - table[s].at < Half /\ table[s].at - nowAt < Half

\* No time in the table is half the range of the clock or more from the time of
\* the pass, and what sched_update has loaded is the time of a task that is due.
TimesInv ==
    /\ nowAt <= time /\ time - nowAt < Half
    /\ \A s \in Live : TimeOK(s)
    /\ pc = "rearm" => /\ i \in Live /\ table[i].repeat
                       /\ copy.due = table[i].due /\ copy.at = table[i].at
                       /\ copy.at <= nowAt

\* Within half the range the wrapped comparison is the unbounded one.
LEMMA TimesTell == SlotInv /\ TimesInv => DueIsDue
<1> SUFFICES ASSUME SlotInv, TimesInv, NEW s \in Live
             PROVE  Due(s) <=> table[s].at <= nowAt
  BY DEF DueIsDue
<1> DEFINE x == nowAt - table[s].at
<1>1. table[s].at \in Nat /\ nowAt \in Nat /\ time \in Nat
  BY SlotFacts DEF SlotInv, TypeOK, Entry
<1>2. x \in Int /\ -Half < x /\ x < Half
  BY <1>1, Numbers DEF TimesInv, TimeOK
<1>3. Wrap(nowAt - table[s].due) = Wrap(x)
  <2>1. table[s].due = table[s].at % Clock
    BY DEF TimesInv, TimeOK, Wrap
  <2>2. (nowAt - (table[s].at % Clock)) % Clock = (nowAt - table[s].at) % Clock
    <3>1. nowAt \in Int /\ table[s].at \in Int
      BY <1>1
    <3> QED
      BY <3>1, ModArith, Numbers
  <2> QED
    BY <2>1, <2>2 DEF Wrap
<1>4. Due(s) <=> 0 <= x
  BY <1>2, <1>3, Near DEF Due, Wrap, Half
<1> QED
  BY <1>1, <1>4

\* The times of a task moved or left alone.
LEMMA SameTime ==
    ASSUME NEW s, NEW r, TimeOK(r), table'[s] = table[r], UNCHANGED <<nowAt, time>>
    PROVE  TimeOK(s)'
  BY DEF TimeOK, Wrap

LEMMA TimesStep == SlotInv /\ TimesInv /\ [Next]_vars => TimesInv'
<1> SUFFICES ASSUME SlotInv, TimesInv, [Next]_vars PROVE TimesInv'
  OBVIOUS
<1>0. /\ time \in Nat /\ nowAt \in Nat /\ Half \in Nat
      /\ \A s \in Live : table[s].at \in Nat /\ TimeOK(s) /\ s \in SlotRange
  BY SlotFacts, Numbers DEF SlotInv, TypeOK, Entry, TimesInv
<1>1. ASSUME UNCHANGED <<nowAt, time>>, \A s \in Live' : TimeOK(s)', pc' # "rearm"
      PROVE  TimesInv'
  BY <1>1 DEF TimesInv
<1>2. ASSUME UNCHANGED <<table, used, nowAt, time>>, pc' # "rearm" PROVE TimesInv'
  BY <1>2 DEF TimesInv, TimeOK, Live, Wrap
<1>3. CASE \E n \in Names, p \in Periods, r \in BOOLEAN : SchedAdd(n, p, r)
  <2>1. PICK n \in Names, p \in Periods, r \in BOOLEAN : SchedAdd(n, p, r)
    BY <1>3
  <2>2. /\ AddTo(table, used, n, p, r) /\ UNCHANGED <<nowAt, time, pc>> /\ pc # "rearm"
    BY <2>1 DEF SchedAdd, MayCall
  <2>3. CASE UNCHANGED <<table, used>>
    BY <1>2, <2>2, <2>3
  <2>4. CASE \E k \in SlotRange \ Live :
                 /\ table'[k] = NewTask(n, p, r)
                 /\ \A s \in SlotRange : s # k => table'[s] = table[s]
                 /\ Live' = Live \cup {k}
    <3>1. PICK k \in SlotRange \ Live :
                 /\ table'[k] = NewTask(n, p, r)
                 /\ \A s \in SlotRange : s # k => table'[s] = table[s]
                 /\ Live' = Live \cup {k}
      BY <2>4
    <3>2. TimeOK(k)'
      <4>1. /\ table'[k].period = p /\ table'[k].at = nowAt + p
            /\ table'[k].due = Wrap(nowAt + p)
        BY <3>1 DEF NewTask
      <4>2. p \in Nat /\ p > 0 /\ p < Half
        BY Numbers
      <4>3. time - (nowAt + p) < Half /\ (nowAt + p) - nowAt < Half
        BY <1>0, <4>2 DEF TimesInv
      <4> QED
        BY <2>2, <4>1, <4>3 DEF TimeOK, Wrap
    <3>3. \A s \in Live : TimeOK(s)'
      BY <1>0, <2>2, <3>1, SameTime
    <3> QED
      BY <1>1, <2>2, <3>1, <3>2, <3>3
  <2> QED
    BY <2>2, <2>3, <2>4, AddEffect
<1>4. CASE \E n \in Names : SchedRemove(n)
  <2>1. PICK n \in Names : SchedRemove(n)
    BY <1>4
  <2>2. /\ n \in Scheduled /\ table' = Without(table, used, n)
        /\ UNCHANGED <<used, nowAt, time, pc>> /\ pc # "rearm"
    BY <2>1 DEF SchedRemove, MayCall
  <2>3. PICK k \in Live : table' = [table EXCEPT ![k].cb = FALSE]
    BY <2>2, RemoveEffect
  <2>4. Live' = Live \ {k} /\ \A s \in Live' : table'[s] = table[s]
    BY <1>0, <2>2, <2>3, FreeSlot
  <2>5. \A s \in Live' : TimeOK(s)'
    BY <1>0, <2>2, <2>4, SameTime
  <2> QED
    BY <1>1, <2>2, <2>5
<1>5. CASE UpdateBegin
  <2>1. pc' = "compact" /\ nowAt' = time /\ UNCHANGED <<table, used, time>>
    BY <1>5 DEF UpdateBegin
  <2>2. \A s \in Live' : TimeOK(s)'
    BY <1>0, <2>1 DEF TimesInv, TimeOK, Live, Wrap
  <2> QED
    BY <1>0, <2>1, <2>2, Numbers DEF TimesInv
<1>6. CASE Compact
  <2>1. pc' # "rearm" /\ UNCHANGED <<nowAt, time>>
    BY <1>6 DEF Compact
  <2>2. CASE table[i].cb
    BY <1>2, <1>6, <2>1, <2>2 DEF Compact
  <2>3. CASE ~table[i].cb
    <3>1. ASSUME NEW s \in Live' PROVE TimeOK(s)'
      <4>1. \E r \in Live : table'[s] = table[r]
        BY <1>0, <1>6, <2>3, CompactEffect
      <4> QED
        BY <1>0, <2>1, <4>1, SameTime
    <3> QED
      BY <1>1, <2>1, <3>1
  <2> QED
    BY <2>2, <2>3
<1>7. CASE CompactDone \/ ScanSkip \/ CallReturn \/ UpdateEnd
  BY <1>2, <1>7 DEF CompactDone, ScanSkip, CallReturn, UpdateEnd
<1>8. CASE ScanRepeat
  <2>1. i \in Live /\ Due(i) /\ table[i].repeat
    BY <1>8 DEF ScanRepeat, Live, SlotInv, TypeOK
  <2>2. table[i].at <= nowAt
    BY <2>1, TimesTell DEF DueIsDue
  <2> QED
    BY <1>8, <2>1, <2>2 DEF ScanRepeat, TimesInv, TimeOK, Live, Wrap
<1>9. CASE Rearm
  <2>1. /\ pc = "rearm" /\ pc' = "call" /\ UNCHANGED <<nowAt, time, i>>
    BY <1>9 DEF Rearm
  <2>2. /\ i \in Live /\ copy.due = Wrap(table[i].at) /\ copy.at = table[i].at
        /\ table[i].at <= nowAt /\ time - table[i].at < Half
        /\ table[i].period \in Periods /\ table[i].at \in Nat
    BY <1>0, <2>1 DEF TimesInv, TimeOK
  <2> DEFINE p == table[i].period
             a == table[i].at
  <2>3. p \in Nat /\ p > 0 /\ p < Half /\ a \in Nat
    BY <2>2, Numbers
  <2>4. Wrap(copy.due + p) = Wrap(a + p)
    <3>1. copy.due = a % Clock /\ a \in Int /\ p \in Int /\ Clock \in Nat \ {0}
      BY <2>2, <2>3, Numbers DEF Wrap
    <3>2. ((a % Clock) + p) % Clock = (a + p) % Clock
      BY <3>1, ModArith
    <3> QED
      BY <3>1, <3>2 DEF Wrap
  <2>5. /\ Live' = Live /\ i \in SlotRange
        /\ table'[i] = [table[i] EXCEPT !.due = Wrap(copy.due + p), !.at = copy.at + p]
        /\ \A s \in SlotRange : s # i => table'[s] = table[s]
    BY <1>9, RearmEffect
  <2>6. table'[i].due = Wrap(a + p) /\ table'[i].at = a + p /\ table'[i].period = p
    BY <2>2, <2>4, <2>5, SlotFacts DEF Entry
  <2>7. time - (a + p) < Half /\ (a + p) - nowAt < Half
    BY <1>0, <2>2, <2>3
  <2>8. TimeOK(i)'
    BY <2>1, <2>2, <2>6, <2>7 DEF TimeOK, Wrap
  <2>9. \A s \in Live : s # i => TimeOK(s)'
    BY <1>0, <2>1, <2>5, SameTime
  <2> QED
    BY <1>1, <2>1, <2>5, <2>8, <2>9
<1>10. CASE ScanOnce
  <2>1. /\ i \in Live /\ table' = [table EXCEPT ![i].cb = FALSE]
        /\ UNCHANGED <<used, nowAt, time>> /\ pc' # "rearm"
    BY <1>10 DEF ScanOnce, Live, SlotInv, TypeOK
  <2>2. Live' = Live \ {i} /\ \A s \in Live' : table'[s] = table[s]
    BY <1>0, <2>1, FreeSlot
  <2>3. \A s \in Live' : TimeOK(s)'
    BY <1>0, <2>1, <2>2, SameTime
  <2> QED
    BY <1>1, <2>1, <2>3
<1>11. CASE Tick
  <2>1. /\ time' = time + 1 /\ UNCHANGED <<table, used, nowAt, pc, i, copy>>
        /\ \A s \in Live : time + 1 - table[s].at < Half
        /\ time + 1 - nowAt < Half
    BY <1>11 DEF Tick, LagBounded, Half
  <2>2. \A s \in Live' : TimeOK(s)'
    BY <1>0, <2>1 DEF TimeOK, Live, Wrap
  <2>3. nowAt' <= time' /\ time' - nowAt' < Half
    BY <1>0, <2>1 DEF TimesInv
  <2> QED
    BY <2>1, <2>2, <2>3 DEF TimesInv, Live
<1>12. CASE UNCHANGED vars
  BY <1>12 DEF vars, TimesInv, TimeOK, Live, Wrap
<1> QED
  BY <1>3, <1>4, <1>5, <1>6, <1>7, <1>8, <1>9, <1>10, <1>11, <1>12 DEF Next, Update

LEMMA TimesInit == Init => TimesInv
  BY Numbers, ConstantsAssumption DEF Init, TimesInv, Live

\* (int32_t)(now_ms - t->due_ms) (sched.c:135) decides for every range of the
\* counter, and t->due_ms += t->period_ms (sched.c:142) keeps it so.
THEOREM WrapDecides == Spec => []DueIsDue
  BY SlotInit, SlotStep, TimesInit, TimesStep, TimesTell, PTL DEF Spec

(***************************************************************************)
(* The table implements the set of timers.                                 *)
(***************************************************************************)

\* A set of tasks taken from slots of the table has room in it, and fills it if
\* every slot holds another task.
LEMMA Room ==
    ASSUME NEW L \in SUBSET SlotRange, NEW T, NEW f \in Surjection(L, T)
    PROVE  /\ Cardinality(T) <= Size
           /\ L = SlotRange /\ f \in Injection(L, T) => Cardinality(T) >= Size
<1>1. IsFiniteSet(SlotRange) /\ Cardinality(SlotRange) = Size
  <2>1. 0 \in Int /\ Size - 1 \in Int /\ ~(0 > Size - 1) /\ Size - 1 - 0 + 1 = Size
    BY Numbers
  <2> QED
    BY <2>1, FS_Interval DEF SlotRange
<1>2. IsFiniteSet(L) /\ Cardinality(L) <= Size
  BY <1>1, FS_Subset
<1>3. /\ IsFiniteSet(T) /\ Cardinality(T) <= Cardinality(L)
      /\ Cardinality(T) = Cardinality(L) <=> f \in Injection(L, T)
  BY <1>2, FS_Surjection
<1>4. Cardinality(T) \in Nat /\ Cardinality(L) \in Nat /\ Size \in Nat
  BY <1>2, <1>3, FS_CardinalityType, Numbers
<1> QED
  BY <1>1, <1>2, <1>3, <1>4

LEMMA SameCount == \A S : Timers!Cardinality(S) = Cardinality(S)
  BY Zenon DEF Timers!Cardinality, Cardinality

\* Different slots in use hold different tasks, for they have different names.
LEMMA TasksDiffer ==
    ASSUME NoDuplicates
    PROVE  /\ \A s, r \in Live : TaskAt(s) = TaskAt(r) => s = r
           /\ \A k \in Live : {TaskAt(s) : s \in Live \ {k}} = Tasks \ {TaskAt(k)}
<1>1. \A s, r \in Live : TaskAt(s) = TaskAt(r) => s = r
  <2>1. \A s : TaskAt(s).name = table[s].name
    BY DEF TaskAt
  <2> QED
    BY <2>1 DEF NoDuplicates
<1> QED
  BY <1>1 DEF Tasks

\* A slot that keeps its entry keeps its task.
LEMMA SameTask ==
    ASSUME NEW s, NEW r, table'[s] = table[r]
    PROVE  TaskAt(s)' = TaskAt(r)
  BY DEF TaskAt

\* Steps that move tasks, or none, are not seen.
LEMMA Unseen ==
    ASSUME UNCHANGED <<time, called, ops>>,
           \A s \in Live' : \E r \in Live : table'[s] = table[r],
           \A r \in Live : \E s \in Live' : table'[s] = table[r]
    PROVE  UNCHANGED Timers!tsVars
<1>1. Tasks' = Tasks
  BY SameTask DEF Tasks
<1> QED
  BY <1>1 DEF Timers!tsVars

LEMMA TimersStep ==
    SlotInv /\ NoDuplicates /\ TimesInv /\ [Next]_vars => [Timers!TimersNext]_(Timers!tsVars)
<1> SUFFICES ASSUME SlotInv, NoDuplicates, TimesInv, [Next]_vars
             PROVE  Timers!TimersNext \/ UNCHANGED Timers!tsVars
  OBVIOUS
<1>0. /\ time \in Nat /\ nowAt \in Nat /\ nowAt <= time
      /\ \A s \in Live : s \in SlotRange /\ table[s].at \in Nat
  BY SlotFacts DEF SlotInv, TypeOK, Entry, TimesInv
<1>1. ASSUME UNCHANGED <<table, used, time, called, ops>> PROVE UNCHANGED Timers!tsVars
  <2>1. Live' = Live
    BY <1>1 DEF Live
  <2> QED
    BY <1>1, <2>1, Unseen
<1>2. CASE \E n \in Names, p \in Periods, r \in BOOLEAN : SchedAdd(n, p, r)
  <2>1. PICK n \in Names, p \in Periods, r \in BOOLEAN : SchedAdd(n, p, r)
    BY <1>2
  <2>2. /\ AddTo(table, used, n, p, r) /\ UNCHANGED <<nowAt, time, called>> /\ ops' = ops + 1
        /\ \A s \in Live : table[s].name # n
    BY <2>1 DEF SchedAdd, MayCall, Scheduled
  <2>3. CASE UNCHANGED <<table, used>> /\ used = Size /\ Live = SlotRange
    <3> DEFINE f == [s \in SlotRange |-> TaskAt(s)]
    <3>1. f \in Surjection(SlotRange, Tasks) /\ f \in Injection(SlotRange, Tasks)
      BY <2>3, TasksDiffer DEF Surjection, Injection, IsInjective, Tasks
    <3>2. Cardinality(Tasks) >= Size
      BY <3>1, Room
    <3>3. Tasks' = Tasks
      BY <2>3, SameTask DEF Tasks, Live
    <3>4. Timers!Refuse
      BY <2>2, <3>2, <3>3, SameCount DEF Timers!Refuse
    <3> QED
      BY <3>4 DEF Timers!TimersNext
  <2>4. CASE \E k \in SlotRange \ Live :
                 /\ table' \in [SlotRange -> Entry] /\ used' \in 0 .. Size
                 /\ table'[k] = NewTask(n, p, r)
                 /\ \A s \in SlotRange : s # k => table'[s] = table[s]
                 /\ Live' = Live \cup {k}
    <3>1. PICK k \in SlotRange \ Live :
                 /\ table'[k] = NewTask(n, p, r)
                 /\ \A s \in SlotRange : s # k => table'[s] = table[s]
                 /\ Live' = Live \cup {k}
      BY <2>4
    <3> DEFINE new == [name |-> n, due |-> nowAt + p, period |-> p, repeat |-> r]
    <3>2. TaskAt(k)' = new
      BY <3>1 DEF TaskAt, NewTask
    <3>3. \A s \in Live : TaskAt(s)' = TaskAt(s)
      BY <1>0, <3>1, SameTask
    <3>4. Tasks' = Tasks \cup {new}
      BY <3>1, <3>2, <3>3 DEF Tasks
    <3>5. Cardinality(Tasks') <= Size
      <4> DEFINE L == Live'
                 f == [s \in L |-> TaskAt(s)']
      <4>1. L \in SUBSET SlotRange
        BY <1>0, <3>1
      <4>2. f \in Surjection(L, Tasks')
        BY DEF Surjection, Tasks
      <4> QED
        BY <4>1, <4>2, Room
    <3>6. \A t \in Tasks : t.name # n
      BY <2>2 DEF Tasks, TaskAt
    <3>7. nowAt \in 0 .. time
      BY <1>0
    <3>8. Timers!Add(n, p, r)
      BY <2>2, <3>4, <3>5, <3>6, <3>7, SameCount DEF Timers!Add
    <3> QED
      BY <3>8 DEF Timers!TimersNext
  <2> QED
    BY <2>2, <2>3, <2>4, AddEffect
<1>3. CASE \E n \in Names : SchedRemove(n)
  <2>1. PICK n \in Names : SchedRemove(n)
    BY <1>3
  <2>2. /\ n \in Scheduled /\ table' = Without(table, used, n)
        /\ UNCHANGED <<used, time, called>> /\ ops' = ops + 1
    BY <2>1 DEF SchedRemove, MayCall
  <2>3. PICK k \in Live : table[k].name = n /\ table' = [table EXCEPT ![k].cb = FALSE]
    BY <2>2, RemoveEffect
  <2>4. Live' = Live \ {k} /\ \A s \in Live' : table'[s] = table[s]
    BY <1>0, <2>2, <2>3, FreeSlot
  <2>5. Tasks' = {TaskAt(s) : s \in Live \ {k}}
    BY <2>4, SameTask DEF Tasks
  <2>6. \A s \in Live : TaskAt(s).name = n <=> s = k
    BY <2>3 DEF TaskAt, NoDuplicates
  <2>7. Tasks' = {t \in Tasks : t.name # n}
    BY <2>5, <2>6 DEF Tasks
  <2>8. Timers!Remove(n)
    BY <2>2, <2>7 DEF Timers!Remove
  <2> QED
    BY <2>8 DEF Timers!TimersNext
<1>4. CASE Compact
  <2>1. UNCHANGED <<time, called, ops>>
    BY <1>4 DEF Compact
  <2>2. CASE table[i].cb
    BY <1>1, <1>4, <2>1, <2>2 DEF Compact
  <2>3. CASE ~table[i].cb
    <3>1. \A s \in Live' : \E r \in Live : table'[s] = table[r]
      BY <1>0, <1>4, <2>3, CompactEffect
    <3>2. \A r \in Live : \E s \in Live' : table'[s] = table[r]
      BY <1>0, <1>4, <2>3, CompactEffect
    <3> QED
      BY <2>1, <3>1, <3>2, Unseen
  <2> QED
    BY <2>2, <2>3
<1>5. CASE Rearm
  <2> DEFINE t == TaskAt(i)
  <2>1. /\ i \in Live /\ table[i].repeat /\ copy.at = table[i].at /\ copy.at <= nowAt
        /\ UNCHANGED <<time, ops, i>> /\ called' = [called EXCEPT ![table[i].name] = @ + 1]
    BY <1>5 DEF Rearm, TimesInv
  <2>2. /\ Live' = Live
        /\ table'[i] = [table[i] EXCEPT !.due = Wrap(copy.due + table[i].period),
                                       !.at = copy.at + table[i].period]
        /\ \A s \in SlotRange : s # i => table'[s] = table[s]
    BY <1>5, RearmEffect
  <2>3. TaskAt(i)' = [t EXCEPT !.due = @ + t.period]
    <3>1. table[i] \in Entry /\ copy.at = table[i].at
      BY <1>0, <2>1, SlotFacts
    <3>2. /\ table'[i].name = table[i].name /\ table'[i].period = table[i].period
          /\ table'[i].repeat = table[i].repeat
          /\ table'[i].at = table[i].at + table[i].period
      BY <2>2, <3>1 DEF Entry
    <3>3. TaskAt(i)' = [name |-> table[i].name, due |-> table[i].at + table[i].period,
                        period |-> table[i].period, repeat |-> table[i].repeat]
      BY <2>1, <3>2 DEF TaskAt
    <3> QED
      BY <3>3 DEF TaskAt
  <2>4. \A s \in Live \ {i} : TaskAt(s)' = TaskAt(s)
    BY <1>0, <2>2, SameTask
  <2>5. Tasks' = {TaskAt(s) : s \in Live \ {i}} \cup {[t EXCEPT !.due = @ + t.period]}
    BY <2>1, <2>2, <2>3, <2>4 DEF Tasks
  <2>6. {TaskAt(s) : s \in Live \ {i}} = Tasks \ {t} /\ t \in Tasks
    BY <2>1, TasksDiffer DEF Tasks
  <2>7. t.due <= time /\ t.repeat /\ t.name = table[i].name
    BY <1>0, <2>1 DEF TaskAt
  <2> HIDE DEF t
  <2>8. Timers!Call(t)
    BY <2>1, <2>5, <2>6, <2>7 DEF Timers!Call
  <2> QED
    BY <2>6, <2>8 DEF Timers!TimersNext
<1>6. CASE ScanOnce
  <2> DEFINE t == TaskAt(i)
  <2>1. /\ i \in Live /\ Due(i) /\ ~table[i].repeat
        /\ table' = [table EXCEPT ![i].cb = FALSE]
        /\ UNCHANGED <<used, time, ops>> /\ called' = [called EXCEPT ![table[i].name] = @ + 1]
    BY <1>6 DEF ScanOnce, Live, SlotInv, TypeOK
  <2>2. Live' = Live \ {i} /\ \A s \in Live \ {i} : table'[s] = table[s]
    BY <1>0, <2>1, FreeSlot
  <2>3. Tasks' = {TaskAt(s) : s \in Live \ {i}}
    BY <2>2, SameTask DEF Tasks
  <2>4. {TaskAt(s) : s \in Live \ {i}} = Tasks \ {t} /\ t \in Tasks
    BY <2>1, TasksDiffer DEF Tasks
  <2>5. table[i].at <= nowAt
    BY <2>1, TimesTell DEF DueIsDue
  <2>6. t.due <= time /\ ~t.repeat /\ t.name = table[i].name
    BY <1>0, <2>1, <2>5 DEF TaskAt
  <2> HIDE DEF t
  <2>7. Timers!Call(t)
    BY <2>1, <2>3, <2>4, <2>6 DEF Timers!Call
  <2> QED
    BY <2>4, <2>7 DEF Timers!TimersNext
<1>7. CASE UpdateBegin \/ CompactDone \/ ScanSkip \/ ScanRepeat \/ CallReturn \/ UpdateEnd
  BY <1>1, <1>7 DEF UpdateBegin, CompactDone, ScanSkip, ScanRepeat, CallReturn, UpdateEnd
<1>8. CASE Tick
  <2>1. time' = time + 1 /\ UNCHANGED <<table, used, called, ops>>
    BY <1>8 DEF Tick
  <2>2. Tasks' = Tasks
    BY <2>1 DEF Tasks, TaskAt, Live
  <2>3. Timers!Tick
    BY <2>1, <2>2 DEF Timers!Tick
  <2> QED
    BY <2>3 DEF Timers!TimersNext
<1>9. CASE UNCHANGED vars
  BY <1>1, <1>9 DEF vars
<1> QED
  BY <1>2, <1>3, <1>4, <1>5, <1>6, <1>7, <1>8, <1>9 DEF Next, Update

\* The table of sched.c, with its freed slots, moves and wrapped times, behaves
\* as the set of timers that sched.h promises: no task is lost, doubled, called
\* before its time or made to drift.
THEOREM TableIsTimers == Spec => ImplementsTimers
<1>1. Init => Timers!InitTimers
  <2>1. Init => Live = {} /\ time \in Nat
    BY ConstantsAssumption DEF Init, Live
  <2> QED
    BY <2>1 DEF Init, Timers!InitTimers, Tasks
<1>2. Init => NoDuplicates
  BY DEF Init, NoDuplicates, Live
<1> QED
  BY <1>1, <1>2, SlotInit, SlotStep, NamesStep, TimesInit, TimesStep, TimersStep, PTL
  DEF Spec, ImplementsTimers, Timers!TimersSpec
=============================================================================
