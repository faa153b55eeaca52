---------------------------- MODULE SCH51Proofs ----------------------------
(***************************************************************************)
(* Proofs about the scheduler SCH51, for every table size, width of RunMe, *)
(* set of delays and periods, and every placement of the timer interrupt.  *)
(***************************************************************************)
EXTENDS SCH51, TLAPS

-----------------------------------------------------------------------------
(* Type correctness.                                                       *)

\* The table is well-typed at reset.
LEMMA InitTypeOK == Init => TypeOK
BY SchAssumption DEF Init, TypeOK, Slot, tByte, NotAdding, Never,
   ERROR_SCH_TOO_MANY_TASKS, ERROR_SCH_CANNOT_DELETE_TASK

\* Decrementing a byte yields a byte.
LEMMA ReducedType == \A r \in tByte : Reduced(r) \in tByte
BY SchAssumption DEF Reduced, tByte

\* What the interrupt writes has the type of the fields it writes to.
LEMMA UpdateType ==
    ASSUME TypeOK, NEW i \in Slot
    PROVE  NewRunMe(i) \in tByte /\ NewDelay(i) \in Nat
<1>1. RunMe[i] \in tByte /\ Delay[i] \in Nat /\ Period[i] \in Nat
  BY DEF TypeOK
<1>2. (RunMe[i] + 1) % ByteMod \in tByte
  BY <1>1, SchAssumption DEF tByte
<1> QED BY <1>1, <1>2 DEF NewRunMe, NewDelay

\* SCH_Delete_Task leaves the table well typed.
LEMMA DeleteType ==
    ASSUME TypeOK, NEW i \in Slot, Delete(i)
    PROVE  /\ pTask' \in [Slot -> Tasks \cup {NULL}]
           /\ Delay' \in [Slot -> Nat]
           /\ Period' \in [Slot -> Nat]
           /\ RunMe' \in [Slot -> tByte]
           /\ Error_code_G' \in {0, ERROR_SCH_TOO_MANY_TASKS, ERROR_SCH_CANNOT_DELETE_TASK}
           /\ owed' \in [Slot -> Nat]
           /\ age' \in [Slot -> Nat \cup {Never}]
           /\ runs' \in [Slot -> 0 .. 2]
           /\ hit' \subseteq Slot
           /\ replaced' \subseteq Slot
BY SchAssumption DEF Delete, Forget, TypeOK, tByte

\* Every step of the main program and the interrupt keeps the types.
LEMMA NextTypeOK == TypeOK /\ [Next]_vars => TypeOK'
<1> SUFFICES ASSUME TypeOK, [Next]_vars PROVE TypeOK'
  OBVIOUS
<1> USE SchAssumption
<1>1. CASE SCH_Init_T2
  BY <1>1 DEF SCH_Init_T2, TypeOK, tByte, history
<1>2. CASE SCH_Start
  BY <1>2 DEF SCH_Start, TypeOK, table, history
<1>3. ASSUME NEW f \in Tasks, NEW d \in Delays, NEW p \in Periods, SCH_Add_Task(f, d, p)
      PROVE  TypeOK'
  <2>1. PICK i \in Slot : /\ pTask' = [pTask EXCEPT ![i] = f]
                          /\ adding' = [next |-> "Delay", at |-> i, d |-> d, p |-> p]
                          /\ Forget(i) /\ replaced' \subseteq replaced \cup {i}
    BY <1>3 DEF SCH_Add_Task
  <2>2. adding' \in AddRecord
    BY <2>1 DEF AddRecord
  <2>3. pc \in {"setup", "body"} /\ calls' \in Nat
    BY <1>3 DEF SCH_Add_Task, MayCall, CountCall, TypeOK
  <2>4. /\ owed' \in [Slot -> Nat]
        /\ age' \in [Slot -> Nat \cup {Never}]
        /\ runs' \in [Slot -> 0 .. 2]
        /\ hit' \subseteq Slot /\ replaced' \subseteq Slot
    BY <2>1 DEF Forget, TypeOK
  <2> QED BY <1>3, <2>1, <2>2, <2>3, <2>4 DEF SCH_Add_Task, TypeOK
<1>4. CASE SCH_Add_Task_Full
  BY <1>4 DEF SCH_Add_Task_Full, CountCall, TypeOK, table, history
<1>5. CASE AddDelay
  <2>1. adding \in AddRecord
    BY <1>5 DEF AddDelay, TypeOK, NotAdding
  <2>2. adding' \in AddRecord /\ adding.at \in Slot /\ adding.d \in Nat
    BY <1>5, <2>1 DEF AddDelay, AddRecord
  <2> QED BY <1>5, <2>1, <2>2 DEF AddDelay, TypeOK, history
<1>6. CASE AddPeriod
  <2>1. adding \in AddRecord
    BY <1>6 DEF AddPeriod, TypeOK, NotAdding
  <2>2. adding' \in AddRecord /\ adding.at \in Slot /\ adding.p \in Nat
    BY <1>6, <2>1 DEF AddPeriod, AddRecord
  <2> QED BY <1>6, <2>1, <2>2 DEF AddPeriod, TypeOK
<1>7. CASE AddRunMe
  <2>1. adding \in AddRecord
    BY <1>7 DEF AddRunMe, TypeOK, NotAdding
  <2>2. adding.at \in Slot /\ 0 \in tByte
    BY <2>1 DEF AddRecord, tByte
  <2> QED BY <1>7, <2>1, <2>2 DEF AddRunMe, TypeOK, NotAdding, history
<1>8. ASSUME NEW i \in Slot, SCH_Delete_Task(i)
      PROVE  TypeOK'
  BY <1>8, DeleteType DEF SCH_Delete_Task, CountCall, TypeOK
<1>9. CASE DispatchSkip
  <2>1. Index' \in 0 .. SCH_MAX_TASKS
    BY <1>9 DEF DispatchSkip, Slot
  <2> QED BY <1>9, <2>1 DEF DispatchSkip, TypeOK, table, history
<1>10. CASE DispatchCall
  BY <1>10 DEF DispatchCall, TypeOK, table
<1>11. CASE DispatchLoad
  BY <1>11 DEF DispatchLoad, TypeOK, table, history
<1>12. CASE DispatchStore
  <2>1. Index \in Slot /\ pc' = "test" /\ reg' \in tByte /\ adding.next = "none"
    BY <1>12 DEF DispatchStore, TypeOK, tByte
  <2>2. Reduced(reg) \in tByte
    BY ReducedType DEF TypeOK
  <2>3. RunMe' \in [Slot -> tByte] /\ owed' \in [Slot -> Nat]
    BY <1>12, <2>2 DEF DispatchStore, TypeOK
  <2> QED BY <1>12, <2>1, <2>3 DEF DispatchStore, TypeOK
<1>16. CASE DispatchTest
  <2>1. Index' \in 0 .. SCH_MAX_TASKS /\ Index \in Slot /\ pc' = "scan" /\ adding.next = "none"
    BY <1>16 DEF DispatchTest, TypeOK, Slot
  <2>2. CASE IsOneShot(Index)
    <3>1. Delete(Index)
      BY <1>16, <2>2 DEF DispatchTest
    <3> QED BY <1>16, <2>1, <3>1, DeleteType DEF DispatchTest, TypeOK
  <2>3. CASE ~IsOneShot(Index)
    BY <1>16, <2>1, <2>3 DEF DispatchTest, TypeOK, table, history
  <2> QED BY <2>2, <2>3
<1>13. CASE SCH_Go_To_Sleep
  BY <1>13 DEF SCH_Go_To_Sleep, TypeOK, table, history
<1>14. CASE SCH_Update
  <2>1. RunMe' \in [Slot -> tByte] /\ Delay' \in [Slot -> Nat]
    BY <1>14, UpdateType DEF SCH_Update
  <2>2. owed' \in [Slot -> Nat] /\ age' \in [Slot -> Nat \cup {Never}]
    BY <1>14 DEF SCH_Update, TypeOK, Never
  <2>3. hit' \subseteq Slot
    BY <1>14 DEF SCH_Update, TypeOK
  <2> QED BY <1>14, <2>1, <2>2, <2>3 DEF SCH_Update, TypeOK
<1>15. CASE UNCHANGED vars
  BY <1>15 DEF vars, TypeOK, table, history
<1> QED
  BY <1>1, <1>2, <1>3, <1>4, <1>5, <1>6, <1>7, <1>8, <1>9, <1>10, <1>11, <1>12,
     <1>13, <1>14, <1>15, <1>16 DEF Next, Call, SCH_Dispatch_Tasks

\* Every field of the table keeps its type, RunMe stays within a byte through
\* increments by the interrupt and decrements by the dispatcher, and the
\* dispatcher's index stays inside the table while a task runs.
THEOREM TypeCorrect == Spec => []TypeOK
<1>1. Init => TypeOK
  BY InitTypeOK
<1>2. TypeOK /\ [Next]_vars => TypeOK'
  BY NextTypeOK
<1> QED BY <1>1, <1>2, PTL DEF Spec

-----------------------------------------------------------------------------
(* The task table: what every interleaving of the interrupt with the four  *)
(* writes of SCH_Add_Task and with the dispatcher leaves intact.           *)

\* The slot that SCH_Add_Task is filling holds a task, and its Period is still
\* zero until it is written: the interrupt cannot reload a stale period.
FillingSlot ==
    /\ adding.next # "none" => pTask[adding.at] # NULL
    /\ adding.next \in {"Delay", "Period"} => Period[adding.at] = 0

\* Since its last activation a periodic task has waited Period - Delay ticks.
DelayMatchesAge ==
    \A i \in Slot : (age[i] # Never /\ Period[i] > 0) => age[i] + Delay[i] = Period[i]

TableInv ==
    /\ FreeSlotIsClear
    /\ FillingSlot
    /\ DelayMatchesAge
    /\ OneShotRunsOnce

\* Every slot is free and clear at reset.
LEMMA InitTableInv == Init => TableInv
BY DEF Init, TableInv, FreeSlotIsClear, FillingSlot, DelayMatchesAge, OneShotRunsOnce,
   NotAdding, Never

\* Deleting any slot while no addition is in progress keeps the invariant.
LEMMA DeleteTableInv ==
    ASSUME TypeOK, TableInv, NEW i \in Slot, Delete(i), adding.next = "none",
           UNCHANGED adding, pc = "test" => Index = i,
           \A j \in Slot \ {i} : Running(j)' <=> Running(j)
    PROVE  TableInv'
<1> USE DEF TableInv
<1>1. \A j \in Slot : j # i => /\ pTask'[j] = pTask[j]
                               /\ Delay'[j] = Delay[j]
                               /\ Period'[j] = Period[j]
                               /\ RunMe'[j] = RunMe[j]
                               /\ age'[j] = age[j]
                               /\ runs'[j] = runs[j]
  BY DEF Delete, Forget, TypeOK
<1>2. /\ pTask'[i] = NULL
      /\ Delay'[i] = 0
      /\ Period'[i] = 0
      /\ RunMe'[i] = 0
  BY DEF Delete, TypeOK
<1>3. FreeSlotIsClear'
  BY <1>1, <1>2 DEF FreeSlotIsClear
<1>4. FillingSlot'
  BY DEF FillingSlot
<1>5. DelayMatchesAge'
  BY <1>1, <1>2 DEF DelayMatchesAge
<1>6. OneShotRunsOnce'
  <2>1. ASSUME NEW j \in Slot, pTask'[j] # NULL, Period'[j] = 0, ~Running(j)'
        PROVE  runs'[j] = 0
    <3>1. j # i
      BY <2>1, <1>2
    <3>2. ~Running(j)
      BY <2>1, <3>1
    <3> QED BY <2>1, <3>1, <3>2, <1>1 DEF OneShotRunsOnce
  <2> QED BY <2>1 DEF OneShotRunsOnce
<1> QED BY <1>3, <1>4, <1>5, <1>6

\* Every step, a tick in the middle of SCH_Add_Task included, keeps TableInv.
LEMMA NextTableInv == TypeOK /\ TableInv /\ [Next]_vars => TableInv'
<1> SUFFICES ASSUME TypeOK, TableInv, [Next]_vars PROVE TableInv'
  OBVIOUS
<1> USE SchAssumption DEF TableInv
<1>1. CASE SCH_Init_T2
  <2>1. adding.next = "none"
    BY <1>1 DEF SCH_Init_T2, TypeOK
  <2> QED BY <1>1, <2>1 DEF SCH_Init_T2, FreeSlotIsClear, FillingSlot, DelayMatchesAge,
          OneShotRunsOnce, history
<1>2. CASE SCH_Start
  BY <1>2 DEF SCH_Start, table, history, FreeSlotIsClear, FillingSlot, DelayMatchesAge,
     OneShotRunsOnce, Running
<1>3. ASSUME NEW f \in Tasks, NEW d \in Delays, NEW p \in Periods, SCH_Add_Task(f, d, p)
      PROVE  TableInv'
  <2>1. PICK i \in Slot : /\ FirstGap(i)
                          /\ pTask' = [pTask EXCEPT ![i] = f]
                          /\ adding' = [next |-> "Delay", at |-> i, d |-> d, p |-> p]
                          /\ Forget(i)
    BY <1>3 DEF SCH_Add_Task
  <2>2. pTask[i] = NULL /\ Period[i] = 0
    BY <2>1 DEF FirstGap, FreeSlotIsClear
  <2>3. UNCHANGED <<Delay, Period, RunMe, pc, Index>>
    BY <1>3 DEF SCH_Add_Task
  <2>4. FreeSlotIsClear'
    BY <2>1, <2>3 DEF FreeSlotIsClear, TypeOK
  <2>5. FillingSlot'
    BY <2>1, <2>2, <2>3 DEF FillingSlot, TypeOK
  <2>6. DelayMatchesAge'
    BY <2>1, <2>3 DEF DelayMatchesAge, Forget, TypeOK
  <2>7. OneShotRunsOnce'
    BY <2>1, <2>3 DEF OneShotRunsOnce, Running, Forget, TypeOK
  <2> QED BY <2>4, <2>5, <2>6, <2>7
<1>4. CASE SCH_Add_Task_Full
  BY <1>4 DEF SCH_Add_Task_Full, table, history, FreeSlotIsClear, FillingSlot,
     DelayMatchesAge, OneShotRunsOnce, Running
<1>5. CASE AddDelay
  <2>1. adding \in AddRecord
    BY <1>5 DEF AddDelay, TypeOK, NotAdding
  <2>2. /\ adding.at \in Slot
        /\ adding'.at = adding.at
        /\ adding'.next = "Period"
        /\ Delay' = [Delay EXCEPT ![adding.at] = adding.d]
        /\ UNCHANGED <<pTask, Period, RunMe, pc, Index, age, runs>>
    BY <1>5, <2>1 DEF AddDelay, AddRecord, history
  <2>3. pTask[adding.at] # NULL /\ Period[adding.at] = 0
    BY <1>5 DEF AddDelay, FillingSlot
  <2>4. FreeSlotIsClear' /\ DelayMatchesAge'
    BY <2>2, <2>3 DEF FreeSlotIsClear, DelayMatchesAge, TypeOK
  <2>5. FillingSlot' /\ OneShotRunsOnce'
    BY <2>2, <2>3 DEF FillingSlot, OneShotRunsOnce, Running
  <2> QED BY <2>4, <2>5
<1>6. CASE AddPeriod
  <2>1. adding \in AddRecord
    BY <1>6 DEF AddPeriod, TypeOK, NotAdding
  <2>2. /\ adding.at \in Slot
        /\ adding'.at = adding.at
        /\ adding'.next = "RunMe"
        /\ Period' = [Period EXCEPT ![adding.at] = adding.p]
        /\ age' = [age EXCEPT ![adding.at] = Never]
        /\ UNCHANGED <<pTask, Delay, RunMe, pc, Index, runs>>
    BY <1>6, <2>1 DEF AddPeriod, AddRecord
  <2>3. pTask[adding.at] # NULL /\ Period[adding.at] = 0
    BY <1>6 DEF AddPeriod, FillingSlot
  <2>4. FreeSlotIsClear' /\ DelayMatchesAge'
    BY <2>2, <2>3 DEF FreeSlotIsClear, DelayMatchesAge, TypeOK
  <2>5. FillingSlot' /\ OneShotRunsOnce'
    BY <2>2, <2>3 DEF FillingSlot, OneShotRunsOnce, Running, TypeOK
  <2> QED BY <2>4, <2>5
<1>7. CASE AddRunMe
  <2>1. adding \in AddRecord
    BY <1>7 DEF AddRunMe, TypeOK, NotAdding
  <2>2. /\ adding.at \in Slot
        /\ adding'.next = "none"
        /\ RunMe' = [RunMe EXCEPT ![adding.at] = 0]
        /\ UNCHANGED <<pTask, Delay, Period, pc, Index, age, runs>>
    BY <1>7, <2>1 DEF AddRunMe, AddRecord, NotAdding, history
  <2> QED BY <2>2 DEF FreeSlotIsClear, DelayMatchesAge, FillingSlot, OneShotRunsOnce,
          Running, TypeOK
<1>8. ASSUME NEW i \in Slot, SCH_Delete_Task(i)
      PROVE  TableInv'
  BY <1>8, DeleteTableInv DEF SCH_Delete_Task, MayCall, Running
<1>9. CASE DispatchSkip
  BY <1>9 DEF DispatchSkip, table, history, FreeSlotIsClear, FillingSlot, DelayMatchesAge,
     OneShotRunsOnce, Running
<1>10. CASE DispatchCall
  BY <1>10 DEF DispatchCall, table, FreeSlotIsClear, FillingSlot, DelayMatchesAge,
     OneShotRunsOnce, Running, TypeOK
<1>11. CASE DispatchLoad
  BY <1>11 DEF DispatchLoad, table, history, FreeSlotIsClear, FillingSlot, DelayMatchesAge,
     OneShotRunsOnce, Running
<1>12. CASE DispatchStore
  <2>1. /\ Index \in Slot /\ adding.next = "none" /\ pc = "store" /\ pc' = "test"
        /\ RunMe' = [RunMe EXCEPT ![Index] = Reduced(reg)]
        /\ UNCHANGED <<pTask, Delay, Period, age, runs, adding, Index>>
    BY <1>12 DEF DispatchStore, TypeOK
  <2>2. FreeSlotIsClear'
    BY <2>1 DEF FreeSlotIsClear, TypeOK
  <2>3. FillingSlot' /\ DelayMatchesAge'
    BY <2>1 DEF FillingSlot, DelayMatchesAge
  <2>4. OneShotRunsOnce'
    BY <2>1 DEF OneShotRunsOnce, Running
  <2> QED BY <2>2, <2>3, <2>4
<1>16. CASE DispatchTest
  <2>1. /\ Index \in Slot /\ adding.next = "none" /\ UNCHANGED adding
        /\ pc = "test" /\ pc' = "scan"
    BY <1>16 DEF DispatchTest, TypeOK
  <2>2. \A j \in Slot \ {Index} : Running(j)' <=> Running(j)
    BY <2>1 DEF Running
  <2>3. CASE IsOneShot(Index)
    <3>1. Delete(Index)
      BY <1>16, <2>3 DEF DispatchTest
    <3> QED BY <2>1, <2>2, <3>1, DeleteTableInv
  <2>4. CASE ~IsOneShot(Index)
    <3>1. UNCHANGED <<pTask, Delay, Period, RunMe, age, runs>>
      BY <1>16, <2>4 DEF DispatchTest, table, history
    <3>2. Period[Index] # 0
      BY <2>4 DEF IsOneShot
    <3>3. FreeSlotIsClear'
      BY <3>1, <3>2, <2>1 DEF FreeSlotIsClear
    <3>4. FillingSlot' /\ DelayMatchesAge'
      BY <3>1, <2>1 DEF FillingSlot, DelayMatchesAge
    <3>5. OneShotRunsOnce'
      BY <3>1, <3>2, <2>1, <2>2 DEF OneShotRunsOnce
    <3> QED BY <3>3, <3>4, <3>5
  <2> QED BY <2>3, <2>4
<1>13. CASE SCH_Go_To_Sleep
  BY <1>13 DEF SCH_Go_To_Sleep, table, history, FreeSlotIsClear, FillingSlot,
     DelayMatchesAge, OneShotRunsOnce, Running
<1>14. CASE SCH_Update
  <2>1. /\ RunMe' = [i \in Slot |-> NewRunMe(i)]
        /\ Delay' = [i \in Slot |-> NewDelay(i)]
        /\ UNCHANGED <<pTask, Period, pc, Index, adding, runs>>
    BY <1>14 DEF SCH_Update
  <2>2. FreeSlotIsClear'
    BY <2>1 DEF FreeSlotIsClear, NewRunMe, NewDelay, IsDue
  <2>3. FillingSlot' /\ OneShotRunsOnce'
    BY <2>1 DEF FillingSlot, OneShotRunsOnce, Running
  <2>4. DelayMatchesAge'
    <3>1. ASSUME NEW i \in Slot, age'[i] # Never, Period[i] > 0
          PROVE  age'[i] + Delay'[i] = Period[i]
      <4>1. pTask[i] # NULL
        BY <3>1 DEF FreeSlotIsClear
      <4>2. age'[i] = IF IsDue(i) THEN 0 ELSE IF age[i] = Never THEN Never ELSE age[i] + 1
        BY <1>14 DEF SCH_Update
      <4>3. Delay'[i] = IF Delay[i] = 0 THEN Period[i] ELSE Delay[i] - 1
        BY <2>1, <4>1 DEF NewDelay
      <4>4. age[i] \in Nat \cup {Never} /\ Delay[i] \in Nat /\ Period[i] \in Nat
        BY DEF TypeOK
      <4>5. CASE Delay[i] = 0
        BY <4>1, <4>2, <4>3, <4>4, <4>5 DEF IsDue
      <4>6. CASE Delay[i] # 0
        <5>1. age[i] # Never /\ age'[i] = age[i] + 1
          BY <4>2, <4>6, <3>1 DEF IsDue
        <5>2. age[i] + Delay[i] = Period[i]
          BY <5>1, <3>1 DEF DelayMatchesAge
        <5> QED BY <5>1, <5>2, <4>3, <4>4, <4>6 DEF Never
      <4> QED BY <4>5, <4>6
    <3> QED BY <2>1, <3>1 DEF DelayMatchesAge
  <2> QED BY <2>2, <2>3, <2>4
<1>15. CASE UNCHANGED vars
  BY <1>15 DEF vars, table, history, FreeSlotIsClear, FillingSlot, DelayMatchesAge,
     OneShotRunsOnce, Running
<1> QED
  BY <1>1, <1>2, <1>3, <1>4, <1>5, <1>6, <1>7, <1>8, <1>9, <1>10, <1>11, <1>12,
     <1>13, <1>14, <1>15, <1>16 DEF Next, Call, SCH_Dispatch_Tasks

\* TableInv holds in every state.
LEMMA TableInvariant == Spec => []TableInv
<1>1. Init => TableInv
  BY InitTableInv
<1>2. TypeOK /\ TableInv /\ [Next]_vars => TableInv'
  BY NextTableInv
<1> QED BY <1>1, <1>2, TypeCorrect, PTL DEF Spec

\* A slot without a task is zero in every field, in every state between any two
\* steps of the main program, self-deletion by a running task included: RunMe wraps
\* below zero there, but is cleared in the step that follows.
THEOREM FreeSlotsAreClear == Spec => []FreeSlotIsClear
<1>1. TableInv => FreeSlotIsClear
  BY DEF TableInv
<1> QED BY <1>1, TableInvariant, PTL

\* SCH_Dispatch_Tasks never calls a null function pointer.
THEOREM NeverCallsNull == Spec => []NoNullCall
<1>1. TypeOK /\ TableInv => NoNullCall
  BY DEF TableInv, FreeSlotIsClear, NoNullCall
<1> QED BY <1>1, TypeCorrect, TableInvariant, PTL

\* A one-shot task that has run is no longer in the table.
THEOREM OneShotsRunOnce == Spec => []OneShotRunsOnce
<1>1. TableInv => OneShotRunsOnce
  BY DEF TableInv
<1> QED BY <1>1, TableInvariant, PTL

-----------------------------------------------------------------------------
(* Activations.                                                            *)

\* Every activation of a periodic task but the first comes Period + 1 ticks
\* after the one before: the counting of SCH_Update neither drifts nor skips,
\* wherever in the main program the ticks strike.
THEOREM ActivationsAreRegular == Spec => ActivationInterval
<1> DEFINE Regular == \A i \in Slot :
                        (owed'[i] > owed[i] /\ age[i] # Never /\ Period[i] > 0)
                            => age[i] = Period[i]
<1>1. TypeOK /\ TableInv /\ [Next]_vars => [Regular]_vars
  <2> SUFFICES ASSUME TypeOK, TableInv, Next,
                      NEW i \in Slot, owed'[i] > owed[i], age[i] # Never, Period[i] > 0
               PROVE  age[i] = Period[i]
    OBVIOUS
  <2>1. owed \in [Slot -> Nat] /\ Index \in 0 .. SCH_MAX_TASKS
    BY DEF TypeOK
  <2>2. CASE SCH_Update
    <3>1. Delay[i] = 0
      BY <2>1, <2>2 DEF SCH_Update, IsDue
    <3> QED BY <3>1 DEF TableInv, DelayMatchesAge, TypeOK, Never
  <2>3. CASE ~SCH_Update
    <3>1. \/ UNCHANGED owed
          \/ \E j \in Slot : Forget(j)
          \/ \E j \in Slot : owed' = [owed EXCEPT ![j] = IF @ > 0 THEN @ - 1 ELSE 0]
      <4>1. CASE DispatchStore \/ DispatchTest
        BY <4>1 DEF DispatchStore, DispatchTest, Delete, TypeOK, history
      <4>2. CASE ~(DispatchStore \/ DispatchTest)
        BY <2>3, <4>2 DEF Next, Call, SCH_Dispatch_Tasks, SCH_Init_T2, SCH_Start, SCH_Add_Task,
           SCH_Add_Task_Full, AddDelay, AddPeriod, AddRunMe, SCH_Delete_Task, Delete,
           DispatchSkip, DispatchCall, DispatchLoad, SCH_Go_To_Sleep, history
      <4> QED BY <4>1, <4>2
    <3> QED BY <2>1, <3>1 DEF Forget
  <2> QED BY <2>2, <2>3
<1> QED BY <1>1, TypeCorrect, TableInvariant, PTL DEF Spec, ActivationInterval

(***************************************************************************)
(* Runs and activations.  RunMe may wrap to zero while the task runs; then *)
(* at least ByteMod activations are owed, so that the decrement below zero *)
(* does not create runs.  A task that deletes itself leaves a slot that    *)
(* the dispatcher will find empty, or filled again and then in replaced.   *)
(***************************************************************************)

\* The task the dispatcher has called is still in its slot.
InPlace == pTask[Index] # NULL /\ Index \notin replaced

CountsInv ==
    /\ \A i \in Slot \ replaced : (pTask[i] # NULL /\ ~Filling(i)) => RunMe[i] <= owed[i]
    /\ pc \in {"body", "store", "test"} /\ InPlace => ~Filling(Index) /\ runs[Index] > 0
    /\ pc = "body" /\ InPlace => (RunMe[Index] = 0 => owed[Index] >= ByteMod)
    /\ pc = "store" /\ InPlace =>
        /\ reg <= owed[Index]
        /\ owed[Index] > 0
        /\ reg = 0 => owed[Index] >= ByteMod

\* Nothing is owed at reset.
LEMMA InitCountsInv == Init => CountsInv
BY DEF Init, CountsInv

\* Deleting a slot, the one of the running task included.
LEMMA DeleteCountsInv ==
    ASSUME TypeOK, CountsInv, NEW i \in Slot, Delete(i),
           UNCHANGED <<pc, Index, reg, adding>>
    PROVE  CountsInv'
<1>1. \A j \in Slot : j # i => /\ pTask'[j] = pTask[j]
                               /\ RunMe'[j] = RunMe[j]
                               /\ owed'[j] = owed[j]
                               /\ runs'[j] = runs[j]
                               /\ j \in replaced' <=> j \in replaced
  BY DEF Delete, Forget, TypeOK
<1>2. pTask'[i] = NULL
  BY DEF Delete, TypeOK
<1>3. pc \in {"body", "store", "test"} => Index \in Slot
  BY DEF TypeOK
<1>4. InPlace' => (InPlace /\ Index # i) \/ pc \notin {"body", "store", "test"}
  BY <1>1, <1>2, <1>3 DEF InPlace
<1> QED BY <1>1, <1>2, <1>3, <1>4 DEF CountsInv, Filling

\* Every step keeps CountsInv, also of tasks that delete themselves.
LEMMA NextCountsInv == TypeOK /\ TableInv /\ CountsInv /\ [Next]_vars => CountsInv'
<1> SUFFICES ASSUME TypeOK, TableInv, CountsInv, [Next]_vars PROVE CountsInv'
  OBVIOUS
<1> USE SchAssumption
<1>1. CASE SCH_Init_T2
  BY <1>1 DEF SCH_Init_T2, CountsInv
<1>2. CASE SCH_Start
  BY <1>2 DEF SCH_Start, CountsInv, Filling, table, history
<1>3. ASSUME NEW f \in Tasks, NEW d \in Delays, NEW p \in Periods, SCH_Add_Task(f, d, p)
      PROVE  CountsInv'
  <2>1. PICK i \in Slot : /\ FirstGap(i)
                          /\ pTask' = [pTask EXCEPT ![i] = f]
                          /\ adding' = [next |-> "Delay", at |-> i, d |-> d, p |-> p]
                          /\ Forget(i)
                          /\ replaced' = IF pc = "body" /\ i = Index THEN replaced \cup {i}
                                                                    ELSE replaced \ {i}
    BY <1>3 DEF SCH_Add_Task
  <2>2. /\ UNCHANGED <<RunMe, pc, Index, reg>>
        /\ adding.next = "none"
        /\ pc \in {"setup", "body"}
    BY <1>3 DEF SCH_Add_Task, MayCall
  <2>3. pc = "body" => Index \in Slot /\ (i = Index => Index \in replaced')
    BY <2>1 DEF TypeOK
  <2>4. \A j \in Slot : j # i => /\ pTask'[j] = pTask[j]
                                 /\ owed'[j] = owed[j]
                                 /\ runs'[j] = runs[j]
                                 /\ ~Filling(j) /\ ~Filling(j)'
                                 /\ j \in replaced' <=> j \in replaced
    BY <2>1, <2>2 DEF Forget, Filling, TypeOK
  <2>5. Filling(i)'
    BY <2>1 DEF Filling
  <2>6. pc = "body" /\ InPlace' => InPlace /\ Index # i
    BY <2>2, <2>3, <2>4 DEF InPlace
  <2> QED BY <2>2, <2>3, <2>4, <2>5, <2>6 DEF CountsInv
<1>4. CASE SCH_Add_Task_Full
  BY <1>4 DEF SCH_Add_Task_Full, CountsInv, InPlace, Filling, table, history
<1>5. CASE AddDelay \/ AddPeriod
  <2>1. adding \in AddRecord
    BY <1>5 DEF AddDelay, AddPeriod, TypeOK, NotAdding
  <2>2. /\ adding'.at = adding.at
        /\ adding.next # "none"
        /\ adding'.next # "none"
        /\ UNCHANGED <<pTask, RunMe, owed, runs, pc, Index, reg, replaced>>
    BY <1>5, <2>1 DEF AddDelay, AddPeriod, AddRecord, history
  <2> QED BY <2>2 DEF CountsInv, InPlace, Filling
<1>6. CASE AddRunMe
  <2>1. adding \in AddRecord
    BY <1>6 DEF AddRunMe, TypeOK, NotAdding
  <2>2. /\ adding.at \in Slot
        /\ adding.next # "none"
        /\ adding'.next = "none"
        /\ RunMe' = [RunMe EXCEPT ![adding.at] = 0]
        /\ UNCHANGED <<pTask, owed, runs, pc, Index, reg, replaced>>
    BY <1>6, <2>1 DEF AddRunMe, AddRecord, NotAdding, history
  <2>3. \A j \in Slot : j # adding.at => RunMe'[j] = RunMe[j] /\ ~Filling(j)
    BY <2>2 DEF Filling, TypeOK
  <2>4. RunMe'[adding.at] = 0 /\ owed[adding.at] \in Nat
    BY <2>2 DEF TypeOK
  <2>5. (InPlace' <=> InPlace)
        /\ (pc \in {"body", "store", "test"} /\ InPlace => Index \in Slot /\ Index # adding.at)
    BY <2>2 DEF CountsInv, InPlace, Filling, TypeOK
  <2> QED BY <2>2, <2>3, <2>4, <2>5 DEF CountsInv, Filling
<1>7. ASSUME NEW i \in Slot, SCH_Delete_Task(i)
      PROVE  CountsInv'
  BY <1>7, DeleteCountsInv DEF SCH_Delete_Task, MayCall
<1>8. CASE DispatchSkip
  BY <1>8 DEF DispatchSkip, CountsInv, Filling, table, history
<1>9. CASE DispatchCall
  <2>1. adding.next = "none" /\ Index \in Slot /\ RunMe[Index] > 0 /\ pTask[Index] # NULL
    BY <1>9 DEF DispatchCall, TypeOK, TableInv, FreeSlotIsClear
  <2>2. runs'[Index] > 0
    BY <1>9, <2>1 DEF DispatchCall, TypeOK
  <2> QED BY <1>9, <2>1, <2>2 DEF DispatchCall, CountsInv, Filling, table
<1>10. CASE DispatchLoad
  <2>1. /\ Index \in Slot /\ RunMe[Index] \in tByte /\ owed[Index] \in Nat
        /\ pc = "body" /\ pc' = "store" /\ adding.next = "none" /\ reg' = RunMe[Index]
        /\ UNCHANGED <<pTask, RunMe, Index, adding, owed, runs, replaced>>
    BY <1>10 DEF DispatchLoad, TypeOK, table, history
  <2>2. InPlace => /\ RunMe[Index] <= owed[Index]
                   /\ RunMe[Index] = 0 => owed[Index] >= ByteMod
    BY <2>1 DEF CountsInv, InPlace
  <2>3. InPlace => owed[Index] > 0
    BY <2>1, <2>2 DEF tByte
  <2> QED BY <2>1, <2>2, <2>3 DEF CountsInv, InPlace, Filling
<1>11. CASE DispatchStore
  <2>1. /\ Index \in Slot /\ adding.next = "none" /\ pc = "store" /\ pc' = "test"
        /\ RunMe' = [RunMe EXCEPT ![Index] = Reduced(reg)]
        /\ owed' = [owed EXCEPT ![Index] = IF @ > 0 THEN @ - 1 ELSE 0]
        /\ UNCHANGED <<pTask, Index, adding, runs, replaced>>
    BY <1>11 DEF DispatchStore, TypeOK
  <2>2. reg \in tByte /\ owed[Index] \in Nat
    BY <2>1 DEF TypeOK
  <2>3. ASSUME InPlace PROVE RunMe'[Index] <= owed'[Index]
    <3>1. reg <= owed[Index] /\ owed[Index] > 0 /\ (reg = 0 => owed[Index] >= ByteMod)
      BY <2>1, <2>3 DEF CountsInv
    <3>2. Reduced(reg) <= owed[Index] - 1
      BY <2>2, <3>1 DEF Reduced, tByte
    <3> QED BY <2>1, <3>1, <3>2 DEF TypeOK
  <2>4. \A j \in Slot : j # Index => RunMe'[j] = RunMe[j] /\ owed'[j] = owed[j]
    BY <2>1 DEF TypeOK
  <2> QED BY <2>1, <2>3, <2>4 DEF CountsInv, InPlace, Filling
<1>15. CASE DispatchTest
  <2>1. Index \in Slot /\ adding.next = "none" /\ UNCHANGED adding /\ pc' = "scan"
    BY <1>15 DEF DispatchTest, TypeOK
  <2>2. CASE IsOneShot(Index)
    <3>1. Delete(Index)
      BY <1>15, <2>2 DEF DispatchTest
    <3> QED BY <2>1, <3>1 DEF Delete, Forget, CountsInv, Filling, TypeOK
  <2>3. CASE ~IsOneShot(Index)
    BY <1>15, <2>1, <2>3 DEF DispatchTest, CountsInv, Filling, table, history
  <2> QED BY <2>2, <2>3
<1>12. CASE SCH_Go_To_Sleep
  BY <1>12 DEF SCH_Go_To_Sleep, CountsInv, Filling, table, history
<1>13. CASE SCH_Update
  <2>1. /\ RunMe' = [i \in Slot |-> NewRunMe(i)]
        /\ UNCHANGED <<pTask, pc, Index, reg, adding, runs, replaced>>
    BY <1>13 DEF SCH_Update
  <2>2. ASSUME NEW i \in Slot \ replaced, pTask[i] # NULL, ~Filling(i)
        PROVE  /\ RunMe'[i] <= owed'[i]
               /\ owed'[i] >= owed[i]
               /\ RunMe'[i] = 0 => (RunMe[i] = 0 /\ owed'[i] = owed[i]) \/ owed'[i] >= ByteMod
    <3>1. RunMe[i] \in tByte /\ owed[i] \in Nat /\ RunMe[i] <= owed[i]
      BY <2>2 DEF TypeOK, CountsInv
    <3>2. owed'[i] = IF IsDue(i) THEN owed[i] + 1 ELSE owed[i]
      BY <1>13, <2>2 DEF SCH_Update, DelayUnset, Filling
    <3>3. RunMe'[i] = IF IsDue(i) THEN (RunMe[i] + 1) % ByteMod ELSE RunMe[i]
      BY <2>1 DEF NewRunMe
    <3>4. (RunMe[i] + 1) % ByteMod = IF RunMe[i] = ByteMod - 1 THEN 0 ELSE RunMe[i] + 1
      BY <3>1 DEF tByte
    <3> QED BY <3>1, <3>2, <3>3, <3>4 DEF tByte
  <2>3. pc \in {"body", "store", "test"} /\ InPlace =>
            /\ Index \in Slot \ replaced
            /\ pTask[Index] # NULL
            /\ ~Filling(Index)
            /\ owed[Index] \in Nat
            /\ owed'[Index] \in Nat
            /\ reg \in Nat
    <3>1. owed' \in [Slot -> Nat]
      BY <1>13, NextTypeOK DEF TypeOK
    <3> QED BY <3>1 DEF TypeOK, CountsInv, InPlace, tByte
  <2>4. pc = "body" /\ InPlace => (RunMe'[Index] = 0 => owed'[Index] >= ByteMod)
    BY <2>2, <2>3 DEF CountsInv
  <2>5. pc = "store" /\ InPlace => /\ reg <= owed'[Index]
                                   /\ owed'[Index] > 0
                                   /\ reg = 0 => owed'[Index] >= ByteMod
    BY <2>2, <2>3 DEF CountsInv
  <2>6. InPlace' <=> InPlace
    BY <2>1 DEF InPlace
  <2> QED BY <2>1, <2>2, <2>3, <2>4, <2>5, <2>6 DEF CountsInv, Filling
<1>14. CASE UNCHANGED vars
  BY <1>14 DEF vars, CountsInv, InPlace, Filling, table, history
<1> QED
  BY <1>1, <1>2, <1>3, <1>4, <1>5, <1>6, <1>7, <1>8, <1>9, <1>10, <1>11, <1>12,
     <1>13, <1>14, <1>15 DEF Next, Call, SCH_Dispatch_Tasks

\* CountsInv holds in every state.
LEMMA CountsInvariant == Spec => []CountsInv
<1>1. Init => CountsInv
  BY InitCountsInv
<1>2. TypeOK /\ TableInv /\ CountsInv /\ [Next]_vars => CountsInv'
  BY NextCountsInv
<1> QED BY <1>1, <1>2, TypeCorrect, TableInvariant, PTL DEF Spec

\* No task runs more often than the interrupt has activated it, whatever the width of
\* RunMe and wherever the interrupt strikes, between the load and the store of RunMe
\* included; except one added to the slot of a task that deleted itself while it ran.
THEOREM RunsAreActivated == Spec => []NoSpuriousRun
<1>1. CountsInv => NoSpuriousRun
  BY DEF CountsInv, NoSpuriousRun, Filling
<1> QED BY <1>1, CountsInvariant, PTL

\* The dispatcher only removes tasks that have run, also when tasks delete themselves,
\* each other and add new ones; except a one-shot task that was added to the slot of a
\* task that deleted itself while it ran.
THEOREM RemovedTasksHaveRun == Spec => RemovedOnlyAfterRun
<1> DEFINE Ran == \A i \in Slot :
                    (pc = "test" /\ pTask[i] # NULL /\ pTask'[i] = NULL)
                        => runs[i] > 0 \/ i \in replaced
<1>1. TypeOK /\ CountsInv /\ [Next]_vars => [Ran]_vars
  <2> SUFFICES ASSUME TypeOK, CountsInv, Next, pc = "test",
                      NEW i \in Slot, pTask[i] # NULL, pTask'[i] = NULL, i \notin replaced
               PROVE  runs[i] > 0
    OBVIOUS
  <2>1. DispatchTest \/ UNCHANGED pTask
    BY DEF Next, Call, SCH_Dispatch_Tasks, SCH_Init_T2, SCH_Start, SCH_Add_Task, MayCall,
       SCH_Add_Task_Full, AddDelay, AddPeriod, AddRunMe, SCH_Delete_Task,
       DispatchSkip, DispatchCall, DispatchLoad, DispatchStore, SCH_Go_To_Sleep, SCH_Update, table
  <2>2. DispatchTest
    BY <2>1
  <2>3. i = Index
    BY <2>2 DEF DispatchTest, Delete, TypeOK, table
  <2> QED BY <2>3 DEF CountsInv, InPlace
<1> QED BY <1>1, TypeCorrect, CountsInvariant, PTL DEF Spec, RemovedOnlyAfterRun

(***************************************************************************)
(* Lost activations.                                                       *)
(***************************************************************************)

\* A slot that is being filled owes nothing until a tick strikes it.
FillingOwesNothing ==
    (adding.next # "none" /\ adding.at \notin hit) => owed[adding.at] = 0

\* A slot that is being filled stays without activations.
LEMMA NextFillingOwes == TypeOK /\ FillingOwesNothing /\ [Next]_vars => FillingOwesNothing'
<1> SUFFICES ASSUME TypeOK, FillingOwesNothing, [Next]_vars PROVE FillingOwesNothing'
  OBVIOUS
<1>1. ASSUME UNCHANGED <<owed, hit>>, adding' = adding \/ adding'.next = "none"
      PROVE  FillingOwesNothing'
  BY <1>1 DEF FillingOwesNothing
<1>2. CASE SCH_Init_T2 \/ SCH_Start \/ SCH_Add_Task_Full \/ AddRunMe \/ DispatchSkip
           \/ DispatchCall \/ DispatchLoad \/ SCH_Go_To_Sleep \/ UNCHANGED vars
  BY <1>1, <1>2 DEF SCH_Init_T2, SCH_Start, SCH_Add_Task_Full, AddRunMe, DispatchSkip,
     DispatchCall, DispatchLoad, SCH_Go_To_Sleep, NotAdding, vars, history
<1>3. ASSUME NEW f \in Tasks, NEW d \in Delays, NEW p \in Periods, SCH_Add_Task(f, d, p)
      PROVE  FillingOwesNothing'
  BY <1>3 DEF SCH_Add_Task, Forget, FillingOwesNothing, TypeOK
<1>4. CASE AddDelay \/ AddPeriod
  <2>1. adding \in AddRecord
    BY <1>4 DEF AddDelay, AddPeriod, TypeOK, NotAdding
  <2>2. adding'.at = adding.at /\ adding.next # "none" /\ UNCHANGED <<owed, hit>>
    BY <1>4, <2>1 DEF AddDelay, AddPeriod, AddRecord, history
  <2> QED BY <2>2 DEF FillingOwesNothing
<1>5. ASSUME adding.next = "none", UNCHANGED adding
      PROVE  FillingOwesNothing'
  BY <1>5 DEF FillingOwesNothing
<1>6. ASSUME NEW i \in Slot, SCH_Delete_Task(i)
      PROVE  FillingOwesNothing'
  BY <1>5, <1>6 DEF SCH_Delete_Task, MayCall
<1>7. CASE DispatchStore \/ DispatchTest
  BY <1>5, <1>7 DEF DispatchStore, DispatchTest, TypeOK
<1>8. CASE SCH_Update
  <2>1. CASE adding.next = "none"
    BY <1>5, <1>8, <2>1 DEF SCH_Update
  <2>2. CASE adding.next # "none"
    <3>1. adding.at \in Slot
      BY <2>2 DEF TypeOK, NotAdding, AddRecord
    <3>2. SUFFICES ASSUME adding.at \notin hit' PROVE owed'[adding.at] = 0
      BY <1>8 DEF SCH_Update, FillingOwesNothing
    <3>3. ~IsDue(adding.at) /\ adding.at \notin hit
      BY <1>8, <2>2, <3>1, <3>2 DEF SCH_Update, Hits
    <3>4. owed'[adding.at] = owed[adding.at]
      BY <1>8, <3>1, <3>3 DEF SCH_Update
    <3> QED BY <2>2, <3>3, <3>4 DEF FillingOwesNothing
  <2> QED BY <2>1, <2>2
<1> QED
  BY <1>2, <1>3, <1>4, <1>6, <1>7, <1>8 DEF Next, Call, SCH_Dispatch_Tasks

\* A slot that no tick has struck at a bad moment, and that nothing but ticks
\* has changed.
LEMMA SameCounts ==
    ASSUME TypeOK, LostOnlyWhenHit, NEW S \in SUBSET Slot,
           \A i \in S : /\ i \in hit \cup replaced => i \in hit' \cup replaced'
                        /\ pTask'[i] # NULL => pTask[i] # NULL
                        /\ RunMe'[i] = RunMe[i] /\ owed'[i] = owed[i],
           pc' = "store" => pc = "store" /\ Index' = Index /\ reg' = reg
    PROVE  \A i \in S \ (hit' \cup replaced') : pTask'[i] # NULL =>
                /\ RunMe'[i] = owed'[i]
                /\ (pc' = "store" /\ Index' = i) => reg' = owed'[i]
BY DEF LostOnlyWhenHit

\* Deleting a task other than the running one keeps the counts of the others.
LEMMA DeleteKeepsCounts ==
    ASSUME TypeOK, LostOnlyWhenHit, NEW i \in Slot, Delete(i),
           pc' = "store" => pc = "store" /\ Index' = Index /\ reg' = reg
    PROVE  LostOnlyWhenHit'
<1>1. \A j \in Slot \ {i} : /\ j \in hit \cup replaced => j \in hit' \cup replaced'
                            /\ pTask'[j] # NULL => pTask[j] # NULL
                            /\ RunMe'[j] = RunMe[j] /\ owed'[j] = owed[j]
  BY DEF Delete, Forget, TypeOK
<1>2. pTask'[i] = NULL
  BY DEF Delete, TypeOK
<1>3. \A j \in (Slot \ {i}) \ (hit' \cup replaced') : pTask'[j] # NULL =>
            /\ RunMe'[j] = owed'[j]
            /\ (pc' = "store" /\ Index' = j) => reg' = owed'[j]
  BY <1>1, SameCounts
<1> QED BY <1>2, <1>3 DEF LostOnlyWhenHit

\* A step loses an activation only in a slot that it adds to hit.
LEMMA NextLost ==
    TypeOK /\ TableInv /\ CountsInv /\ FillingOwesNothing /\ LostOnlyWhenHit /\ [Next]_vars
        => LostOnlyWhenHit'
<1> SUFFICES ASSUME TypeOK, TableInv, CountsInv, FillingOwesNothing, LostOnlyWhenHit,
                    [Next]_vars
             PROVE  LostOnlyWhenHit'
  OBVIOUS
<1> USE SchAssumption
<1>1. CASE SCH_Init_T2
  BY <1>1 DEF SCH_Init_T2, LostOnlyWhenHit
<1>2. ASSUME UNCHANGED <<pTask, RunMe, owed, hit, replaced>>,
             pc' = "store" => pc = "store" /\ Index' = Index /\ reg' = reg
      PROVE  LostOnlyWhenHit'
  BY <1>2 DEF LostOnlyWhenHit
<1>3. CASE SCH_Start \/ SCH_Add_Task_Full \/ AddDelay \/ AddPeriod \/ DispatchSkip
           \/ DispatchCall \/ SCH_Go_To_Sleep \/ UNCHANGED vars
  BY <1>2, <1>3 DEF SCH_Start, SCH_Add_Task_Full, AddDelay, AddPeriod, DispatchSkip,
     DispatchCall, SCH_Go_To_Sleep, vars, table, history
<1>4. ASSUME NEW f \in Tasks, NEW d \in Delays, NEW p \in Periods, SCH_Add_Task(f, d, p)
      PROVE  LostOnlyWhenHit'
  <2>1. PICK i \in Slot : FirstGap(i) /\ pTask' = [pTask EXCEPT ![i] = f] /\ Forget(i)
                          /\ replaced \ {i} \subseteq replaced'
    BY <1>4 DEF SCH_Add_Task
  <2>2. UNCHANGED <<RunMe, pc, Index, reg>> /\ pc \in {"setup", "body"}
    BY <1>4 DEF SCH_Add_Task, MayCall
  <2>3. RunMe'[i] = 0 /\ owed'[i] = 0
    BY <2>1, <2>2 DEF FirstGap, Forget, TypeOK, TableInv, FreeSlotIsClear
  <2>4. \A j \in Slot \ {i} : pTask'[j] = pTask[j] /\ owed'[j] = owed[j]
                              /\ (j \in hit \cup replaced => j \in hit' \cup replaced')
    BY <2>1 DEF Forget, TypeOK
  <2> QED BY <2>2, <2>3, <2>4 DEF LostOnlyWhenHit
<1>5. CASE AddRunMe
  <2>1. adding \in AddRecord
    BY <1>5 DEF AddRunMe, TypeOK, NotAdding
  <2>2. /\ adding.at \in Slot
        /\ RunMe' = [RunMe EXCEPT ![adding.at] = 0]
        /\ UNCHANGED <<pTask, owed, hit, replaced, pc, Index, reg>>
    BY <1>5, <2>1 DEF AddRunMe, AddRecord, history
  <2>3. adding.at \notin hit => RunMe'[adding.at] = 0 /\ owed[adding.at] = 0
    BY <1>5, <2>2 DEF AddRunMe, FillingOwesNothing, TypeOK
  <2>4. pc # "store"
    BY <1>5 DEF AddRunMe, TypeOK
  <2> QED BY <2>2, <2>3, <2>4 DEF LostOnlyWhenHit, TypeOK
<1>6. ASSUME NEW i \in Slot, SCH_Delete_Task(i)
      PROVE  LostOnlyWhenHit'
  BY <1>6, DeleteKeepsCounts DEF SCH_Delete_Task
<1>7. CASE DispatchLoad
  <2>1. UNCHANGED <<pTask, RunMe, owed, hit, replaced, Index>> /\ reg' = RunMe[Index]
    BY <1>7 DEF DispatchLoad, table, history
  <2> QED BY <2>1 DEF LostOnlyWhenHit
<1>8. CASE DispatchStore
  <2>1. /\ Index \in Slot /\ pc = "store" /\ pc' = "test"
        /\ RunMe' = [RunMe EXCEPT ![Index] = Reduced(reg)]
        /\ owed' = [owed EXCEPT ![Index] = IF @ > 0 THEN @ - 1 ELSE 0]
        /\ UNCHANGED <<pTask, hit, replaced>>
    BY <1>8 DEF DispatchStore, TypeOK
  <2>2. \A j \in Slot \ {Index} : RunMe'[j] = RunMe[j] /\ owed'[j] = owed[j]
    BY <2>1 DEF TypeOK
  <2>3. ASSUME Index \notin hit \cup replaced, pTask[Index] # NULL
        PROVE  RunMe'[Index] = owed'[Index]
    <3>1. reg = owed[Index] /\ owed[Index] > 0 /\ owed[Index] \in Nat
      BY <2>1, <2>3 DEF LostOnlyWhenHit, CountsInv, InPlace, TypeOK
    <3> QED BY <2>1, <3>1 DEF Reduced, TypeOK
  <2> QED BY <2>1, <2>2, <2>3 DEF LostOnlyWhenHit
<1>10. CASE DispatchTest
  <2>1. Index \in Slot /\ pc' = "scan"
    BY <1>10 DEF DispatchTest, TypeOK
  <2>2. CASE IsOneShot(Index)
    BY <1>10, <2>1, <2>2, DeleteKeepsCounts DEF DispatchTest
  <2>3. CASE ~IsOneShot(Index)
    BY <1>2, <1>10, <2>1, <2>3 DEF DispatchTest, table, history
  <2> QED BY <2>2, <2>3
<1>9. CASE SCH_Update
  <2>1. /\ RunMe' = [i \in Slot |-> NewRunMe(i)]
        /\ hit' = hit \cup {i \in Slot : Hits(i)}
        /\ UNCHANGED <<pTask, pc, Index, reg, adding, replaced>>
    BY <1>9 DEF SCH_Update
  <2>2. ASSUME NEW i \in Slot \ (hit' \cup replaced), pTask[i] # NULL
        PROVE  RunMe'[i] = owed'[i] /\ ((pc = "store" /\ Index = i) => reg = owed'[i])
    <3>1. RunMe[i] \in tByte /\ owed[i] \in Nat /\ RunMe[i] = owed[i]
          /\ ((pc = "store" /\ Index = i) => reg = owed[i]) /\ ~Hits(i)
      BY <2>1, <2>2 DEF TypeOK, LostOnlyWhenHit
    <3>2. owed'[i] = IF IsDue(i) /\ ~DelayUnset(i) THEN owed[i] + 1 ELSE owed[i]
      BY <1>9 DEF SCH_Update
    <3>3. RunMe'[i] = IF IsDue(i) THEN (RunMe[i] + 1) % ByteMod ELSE RunMe[i]
      BY <2>1 DEF NewRunMe
    <3>4. CASE IsDue(i)
      <4>1. ~DelayUnset(i) /\ ~(pc = "store" /\ Index = i) /\ RunMe[i] # ByteMod - 1
        BY <3>1, <3>4 DEF Hits, DelayUnset
      <4>2. (RunMe[i] + 1) % ByteMod = RunMe[i] + 1
        BY <3>1, <4>1 DEF tByte
      <4> QED BY <3>1, <3>2, <3>3, <3>4, <4>1, <4>2
    <3>5. CASE ~IsDue(i)
      BY <3>1, <3>2, <3>3, <3>5
    <3> QED BY <3>4, <3>5
  <2> QED BY <2>1, <2>2 DEF LostOnlyWhenHit
<1> QED
  BY <1>1, <1>3, <1>4, <1>5, <1>6, <1>7, <1>8, <1>9, <1>10
  DEF Next, Call, SCH_Dispatch_Tasks

\* There are exactly three ways to lose an activation: a tick that strikes while
\* SCH_Add_Task has yet to reset the slot's RunMe, between the load and the store of
\* "RunMe -= 1", or when RunMe is at its limit; and one way to miscount otherwise, the
\* decrement of a task that was added to the slot of a running task that had deleted
\* itself.  In all other slots RunMe equals the activations not yet run, whatever the
\* size of the table and the width of RunMe.
THEOREM ActivationsAreLostOnlyThen == Spec => []LostOnlyWhenHit
<1>1. Init => LostOnlyWhenHit /\ FillingOwesNothing
  BY DEF Init, LostOnlyWhenHit, FillingOwesNothing, NotAdding
<1>2. TypeOK /\ FillingOwesNothing /\ [Next]_vars => FillingOwesNothing'
  BY NextFillingOwes
<1>3. TypeOK /\ TableInv /\ CountsInv /\ FillingOwesNothing /\ LostOnlyWhenHit /\ [Next]_vars
        => LostOnlyWhenHit'
  BY NextLost
<1> QED BY <1>1, <1>2, <1>3, TypeCorrect, TableInvariant, CountsInvariant, PTL DEF Spec

-----------------------------------------------------------------------------
(***************************************************************************)
(* Refinement.  When ticks only come with all due work done and no task    *)
(* deletes itself, the scheduler implements TimeTriggered.  A tick then    *)
(* finds every RunMe at zero, so RunMe is a flag; it stays raised while    *)
(* the task runs; and no tick sees a slot that SCH_Add_Task is filling, so *)
(* what has been written there is what the call asked for.                 *)
(***************************************************************************)
ScheduleInv ==
    /\ \A i \in Slot : RunMe[i] \in {0, 1}
    /\ pc = "reset" => \A i \in Slot : pTask[i] = NULL
    /\ pc \in {"body", "store"} => RunMe[Index] = 1
    /\ pc = "test" => RunMe[Index] = 0
    /\ pc = "store" => reg = 1
    /\ adding.next # "none" => RunMe[adding.at] = 0
    /\ adding.next \in {"Period", "RunMe"} => Delay[adding.at] = adding.d
    /\ adding.next = "RunMe" => Period[adding.at] = adding.p

\* No slot has RunMe raised at reset.
LEMMA InitScheduleInv == Init => ScheduleInv
BY DEF Init, ScheduleInv, NotAdding

\* With ticks that find the work done every step keeps ScheduleInv.
LEMMA NextScheduleInv ==
    ASSUME ~TickAnywhere, ~SelfDelete
    PROVE  TypeOK /\ TableInv /\ ScheduleInv /\ [Next]_vars => ScheduleInv'
<1> SUFFICES ASSUME TypeOK, TableInv, ScheduleInv, [Next]_vars PROVE ScheduleInv'
  OBVIOUS
<1>1. CASE SCH_Init_T2
  <2>1. adding.next = "none" /\ UNCHANGED adding
    BY <1>1 DEF SCH_Init_T2, TypeOK
  <2> QED BY <1>1, <2>1 DEF SCH_Init_T2, ScheduleInv
<1>2. CASE SCH_Start \/ SCH_Add_Task_Full \/ DispatchSkip \/ SCH_Go_To_Sleep \/ UNCHANGED vars
  BY <1>2 DEF SCH_Start, SCH_Add_Task_Full, DispatchSkip, SCH_Go_To_Sleep, vars, table, history,
     ScheduleInv
<1>3. ASSUME NEW f \in Tasks, NEW d \in Delays, NEW p \in Periods, SCH_Add_Task(f, d, p)
      PROVE  ScheduleInv'
  <2>1. PICK i \in Slot : /\ FirstGap(i)
                          /\ pTask' = [pTask EXCEPT ![i] = f]
                          /\ adding' = [next |-> "Delay", at |-> i, d |-> d, p |-> p]
    BY <1>3 DEF SCH_Add_Task
  <2>2. UNCHANGED <<RunMe, pc, Index, reg>> /\ pc \in {"setup", "body"}
    BY <1>3 DEF SCH_Add_Task, MayCall
  <2>3. RunMe[i] = 0
    BY <2>1, <2>2 DEF FirstGap, TableInv, FreeSlotIsClear
  <2> QED BY <2>1, <2>2, <2>3 DEF ScheduleInv
<1>4. CASE AddDelay \/ AddPeriod
  <2>1. adding \in AddRecord
    BY <1>4 DEF AddDelay, AddPeriod, TypeOK, NotAdding
  <2>2. /\ adding.at \in Slot /\ adding'.at = adding.at
        /\ adding'.d = adding.d /\ adding'.p = adding.p
        /\ UNCHANGED <<RunMe, pTask, pc, Index, reg>>
    BY <1>4, <2>1 DEF AddDelay, AddPeriod, AddRecord
  <2>3. CASE AddDelay
    <3>1. adding'.next = "Period" /\ Delay'[adding.at] = adding.d /\ adding.next = "Delay"
      BY <2>1, <2>2, <2>3 DEF AddDelay, AddRecord, TypeOK
    <3> QED BY <2>2, <3>1 DEF ScheduleInv
  <2>4. CASE AddPeriod
    <3>1. /\ adding'.next = "RunMe" /\ Period'[adding.at] = adding.p /\ adding.next = "Period"
          /\ UNCHANGED Delay
      BY <2>1, <2>2, <2>4 DEF AddPeriod, AddRecord, TypeOK
    <3> QED BY <2>2, <3>1 DEF ScheduleInv
  <2> QED BY <1>4, <2>3, <2>4
<1>5. CASE AddRunMe
  <2>1. adding \in AddRecord
    BY <1>5 DEF AddRunMe, TypeOK, NotAdding
  <2>2. adding.at \in Slot /\ RunMe[adding.at] = 0 /\ adding'.next = "none"
    BY <1>5, <2>1 DEF AddRunMe, AddRecord, ScheduleInv, NotAdding
  <2>3. RunMe' = RunMe
    BY <1>5, <2>2 DEF AddRunMe, TypeOK
  <2> QED BY <1>5, <2>2, <2>3 DEF AddRunMe, ScheduleInv
<1>6. ASSUME NEW i \in Slot, SCH_Delete_Task(i)
      PROVE  ScheduleInv'
  <2>1. /\ adding.next = "none" /\ pc \in {"setup", "body"} /\ (pc = "body" => i # Index)
        /\ UNCHANGED <<adding, pc, Index, reg>>
    BY <1>6 DEF SCH_Delete_Task, MayCall
  <2>2. RunMe' = [RunMe EXCEPT ![i] = 0]
    BY <1>6 DEF SCH_Delete_Task, Delete
  <2>3. pc = "body" => RunMe'[Index] = RunMe[Index]
    BY <2>1, <2>2 DEF TypeOK
  <2> QED BY <2>1, <2>2, <2>3 DEF ScheduleInv, TypeOK
<1>7. CASE DispatchCall
  <2>1. RunMe[Index] = 1
    BY <1>7 DEF DispatchCall, ScheduleInv
  <2> QED BY <1>7, <2>1 DEF DispatchCall, ScheduleInv, table
<1>8. CASE DispatchLoad
  BY <1>8 DEF DispatchLoad, ScheduleInv, table
<1>9. CASE DispatchStore
  <2>1. /\ adding.next = "none" /\ UNCHANGED <<adding, Index>> /\ pc' = "test" /\ reg = 1
        /\ Index \in Slot
    BY <1>9 DEF DispatchStore, TypeOK, ScheduleInv
  <2>2. RunMe' = [RunMe EXCEPT ![Index] = 0]
    BY <1>9, <2>1 DEF DispatchStore, Reduced
  <2> QED BY <2>1, <2>2 DEF ScheduleInv, TypeOK
<1>11. CASE DispatchTest
  <2>1. adding.next = "none" /\ UNCHANGED adding /\ pc' = "scan" /\ Index \in Slot
    BY <1>11 DEF DispatchTest, TypeOK
  <2>2. \A i \in Slot : RunMe'[i] \in {0, RunMe[i]}
    BY <1>11, <2>1 DEF DispatchTest, Delete, TypeOK, table
  <2> QED BY <2>1, <2>2 DEF ScheduleInv
<1>10. CASE SCH_Update
  <2>1. pc = "scan" /\ \A i \in Slot : RunMe[i] = 0
    BY <1>10 DEF SCH_Update, AllDueWorkDone
  <2>2. adding.next = "none" /\ UNCHANGED <<adding, pc>>
    BY <1>10, <2>1 DEF SCH_Update, TypeOK
  <2>3. \A i \in Slot : NewRunMe(i) \in {0, 1}
    <3>1. 1 % ByteMod = 1
      BY SchAssumption
    <3> QED BY <2>1, <3>1 DEF NewRunMe
  <2> QED BY <1>10, <2>1, <2>2, <2>3 DEF SCH_Update, ScheduleInv
<1> QED
  BY <1>1, <1>2, <1>3, <1>4, <1>5, <1>6, <1>7, <1>8, <1>9, <1>10, <1>11
     DEF Next, Call, SCH_Dispatch_Tasks

\* ScheduleInv holds in every state.
LEMMA ScheduleInvariant ==
    ASSUME ~TickAnywhere, ~SelfDelete
    PROVE  Spec => []ScheduleInv
<1>1. Init => ScheduleInv
  BY InitScheduleInv
<1>2. TypeOK /\ TableInv /\ ScheduleInv /\ [Next]_vars => ScheduleInv'
  BY NextScheduleInv
<1> QED BY <1>1, <1>2, TypeCorrect, TableInvariant, PTL DEF Spec

\* The variables of TimeTriggered, as functions of the scheduler's.
waitBar == [i \in Slot |-> IF pTask[i] = NULL THEN -1
                           ELSE IF Filling(i) THEN adding.d ELSE Delay[i]]
periodBar == [i \in Slot |-> IF Filling(i) THEN adding.p ELSE Period[i]]
pendingBar == {i \in Slot : RunMe[i] > 0 \/ Removing(i)}

\* A step that leaves the three alone is a stuttering step of TimeTriggered.
LEMMA Stutters ==
    ASSUME UNCHANGED <<waitBar, periodBar, pendingBar>>
    PROVE  UNCHANGED TT!avars
BY DEF TT!avars, waitBar, periodBar, pendingBar

\* Emptying a slot, by SCH_Delete_Task or after the run of a one-shot task, is
\* Remove.
LEMMA DeleteRemoves ==
    ASSUME TypeOK, NEW i \in Slot, Delete(i), adding.next = "none", UNCHANGED adding,
           pc = "test" => Index = i, pc' # "test"
    PROVE  TT!Remove(i)
<1>1. \A j \in Slot : ~Filling(j) /\ ~Filling(j)'
  BY DEF Filling
<1>2. waitBar' = [waitBar EXCEPT ![i] = -1]
  BY <1>1 DEF waitBar, Delete, TypeOK
<1>3. periodBar' = [periodBar EXCEPT ![i] = 0]
  BY <1>1 DEF periodBar, Delete, TypeOK
<1>4. pendingBar' = pendingBar \ {i}
  <2>1. \A j \in Slot : ~Removing(j)' /\ (j # i => ~Removing(j))
    BY DEF Removing
  <2>2. RunMe'[i] = 0 /\ \A j \in Slot : j # i => RunMe'[j] = RunMe[j]
    BY DEF Delete, TypeOK
  <2> QED BY <2>1, <2>2 DEF pendingBar
<1> QED BY <1>2, <1>3, <1>4 DEF TT!Remove, TT!Free, waitBar, periodBar, pendingBar

\* The empty table is the empty schedule.
LEMMA InitRefines == Init => TT!AInit
BY DEF Init, TT!AInit, TT!Free, Filling, Removing, NotAdding

\* Every step of the scheduler is a step of TimeTriggered or leaves its variables
\* alone.
LEMMA StepRefines ==
    ASSUME ~TickAnywhere
    PROVE  TypeOK /\ TableInv /\ ScheduleInv /\ [Next]_vars => [TT!ANext]_TT!avars
<1> SUFFICES ASSUME TypeOK, TableInv, ScheduleInv, [Next]_vars PROVE [TT!ANext]_TT!avars
  OBVIOUS
<1>1. CASE SCH_Init_T2
  <2>1. \A i \in Slot : pTask[i] = NULL /\ Period[i] = 0 /\ RunMe[i] = 0
    BY <1>1 DEF SCH_Init_T2, ScheduleInv, TableInv, FreeSlotIsClear
  <2>2. \A i \in Slot : ~Filling(i) /\ ~Filling(i)'
    BY <1>1 DEF SCH_Init_T2, TypeOK, Filling
  <2>3. UNCHANGED <<waitBar, periodBar, pendingBar>>
    BY <1>1, <2>1, <2>2 DEF SCH_Init_T2, Removing, waitBar, periodBar, pendingBar
  <2> QED BY <2>3, Stutters
<1>2. CASE SCH_Start \/ SCH_Add_Task_Full \/ DispatchSkip \/ DispatchCall \/ DispatchLoad
           \/ SCH_Go_To_Sleep \/ UNCHANGED vars
  <2>1. /\ UNCHANGED <<pTask, Delay, Period, RunMe, adding>>
        /\ (pc # "test" /\ pc' # "test") \/ UNCHANGED <<pc, Index>>
    BY <1>2 DEF SCH_Start, SCH_Add_Task_Full, MayCall, DispatchSkip, DispatchCall, DispatchLoad,
       SCH_Go_To_Sleep, vars, table
  <2>2. \A i \in Slot : Removing(i)' <=> Removing(i)
    BY <2>1 DEF Removing
  <2>3. UNCHANGED <<waitBar, periodBar, pendingBar>>
    BY <2>1, <2>2 DEF waitBar, periodBar, pendingBar, Filling
  <2> QED BY <2>3, Stutters
<1>3. ASSUME NEW f \in Tasks, NEW d \in Delays, NEW p \in Periods, SCH_Add_Task(f, d, p)
      PROVE  TT!ANext
  <2>1. PICK i \in Slot : /\ FirstGap(i)
                          /\ pTask' = [pTask EXCEPT ![i] = f]
                          /\ adding' = [next |-> "Delay", at |-> i, d |-> d, p |-> p]
    BY <1>3 DEF SCH_Add_Task
  <2>2. /\ UNCHANGED <<Delay, Period, RunMe>>
        /\ \A j \in Slot : ~Filling(j) /\ ~Removing(j) /\ ~Removing(j)'
    BY <1>3 DEF SCH_Add_Task, MayCall, Filling, Removing
  <2>3. \A j \in Slot : Filling(j)' <=> j = i
    BY <2>1 DEF Filling
  <2>4. waitBar[i] = -1
    BY <2>1 DEF waitBar, FirstGap
  <2>5. waitBar' = [waitBar EXCEPT ![i] = d]
    BY <2>1, <2>2, <2>3, SchAssumption DEF waitBar, TypeOK
  <2>6. periodBar' = [periodBar EXCEPT ![i] = p]
    BY <2>1, <2>2, <2>3 DEF periodBar
  <2>7. pendingBar' = pendingBar
    BY <2>2 DEF pendingBar
  <2>8. TT!Install(i, d, p)
    BY <2>4, <2>5, <2>6, <2>7 DEF TT!Install, TT!Free, waitBar, periodBar, pendingBar
  <2> QED BY <2>8 DEF TT!ANext
<1>4. CASE AddDelay \/ AddPeriod
  <2>1. adding \in AddRecord
    BY <1>4 DEF AddDelay, AddPeriod, TypeOK, NotAdding
  <2>2. /\ adding.at \in Slot /\ adding'.at = adding.at
        /\ adding'.d = adding.d /\ adding'.p = adding.p
        /\ adding.next # "none" /\ adding'.next # "none"
        /\ UNCHANGED <<RunMe, pTask>>
        /\ \A j \in Slot : ~Removing(j) /\ ~Removing(j)'
    BY <1>4, <2>1 DEF AddDelay, AddPeriod, AddRecord, Removing, TypeOK
  <2>3. \A j \in Slot : j # adding.at => Delay'[j] = Delay[j] /\ Period'[j] = Period[j]
    BY <1>4, <2>2 DEF AddDelay, AddPeriod, TypeOK
  <2>4. \A j \in Slot : Filling(j) <=> j = adding.at
    BY <2>2 DEF Filling
  <2>5. \A j \in Slot : Filling(j)' <=> j = adding.at
    BY <2>2 DEF Filling
  <2>6. UNCHANGED <<waitBar, periodBar, pendingBar>>
    BY <2>2, <2>3, <2>4, <2>5 DEF waitBar, periodBar, pendingBar
  <2> QED BY <2>6, Stutters
<1>5. CASE AddRunMe
  <2>1. adding \in AddRecord
    BY <1>5 DEF AddRunMe, TypeOK, NotAdding
  <2>2. /\ adding.at \in Slot /\ RunMe[adding.at] = 0 /\ adding'.next = "none"
        /\ Delay[adding.at] = adding.d /\ Period[adding.at] = adding.p
    BY <1>5, <2>1 DEF AddRunMe, AddRecord, ScheduleInv, NotAdding
  <2>3. UNCHANGED <<RunMe, pTask, Delay, Period>>
    BY <1>5, <2>2 DEF AddRunMe, TypeOK
  <2>4. \A j \in Slot : /\ (Filling(j) => j = adding.at) /\ ~Filling(j)'
                         /\ ~Removing(j) /\ ~Removing(j)'
    BY <1>5, <2>2 DEF AddRunMe, Filling, Removing, TypeOK
  <2>5. UNCHANGED <<waitBar, periodBar, pendingBar>>
    BY <2>2, <2>3, <2>4 DEF waitBar, periodBar, pendingBar
  <2> QED BY <2>5, Stutters
<1>6. ASSUME NEW i \in Slot, SCH_Delete_Task(i)
      PROVE  TT!ANext
  <2>1. TT!Remove(i)
    BY <1>6, DeleteRemoves DEF SCH_Delete_Task, MayCall
  <2> QED BY <2>1 DEF TT!ANext
<1>7. CASE DispatchStore
  <2>1. /\ adding.next = "none" /\ pc = "store" /\ pc' = "test" /\ reg = 1
        /\ RunMe' = [RunMe EXCEPT ![Index] = 0]
        /\ UNCHANGED <<pTask, Delay, Period, adding, Index>>
    BY <1>7 DEF DispatchStore, TypeOK, ScheduleInv, Reduced
  <2>2. PICK i \in Slot : i = Index
    BY <1>7 DEF DispatchStore, TypeOK
  <2>3. i \in pendingBar
    BY <2>1, <2>2 DEF ScheduleInv, pendingBar
  <2>4. \A j \in Slot : ~Filling(j) /\ ~Filling(j)' /\ ~Removing(j) /\ (j # i => ~Removing(j)')
    BY <2>1, <2>2 DEF Filling, Removing
  <2>5. UNCHANGED <<waitBar, periodBar>> /\ periodBar[i] = Period[i]
    BY <2>1, <2>4 DEF waitBar, periodBar
  <2>6. RunMe'[i] = 0 /\ \A j \in Slot : j # i => RunMe'[j] = RunMe[j]
    BY <2>1, <2>2 DEF TypeOK
  <2>7. CASE IsOneShot(i)
    <3>1. pendingBar' = pendingBar
      <4>1. Removing(i)'
        BY <2>1, <2>2, <2>7 DEF Removing, IsOneShot
      <4> QED BY <2>3, <2>4, <2>6, <4>1 DEF pendingBar
    <3> QED BY <2>5, <3>1, Stutters
  <2>8. CASE ~IsOneShot(i)
    <3>1. pendingBar' = pendingBar \ {i}
      <4>1. ~Removing(i)'
        BY <2>1, <2>2, <2>8 DEF Removing, IsOneShot
      <4> QED BY <2>4, <2>6, <4>1 DEF pendingBar
    <3>2. periodBar[i] # 0
      BY <2>5, <2>8 DEF IsOneShot
    <3>3. TT!Run(i)
      BY <2>3, <2>5, <3>1, <3>2 DEF TT!Run, waitBar, periodBar, pendingBar
    <3> QED BY <3>3 DEF TT!ANext
  <2> QED BY <2>7, <2>8
<1>9. CASE DispatchTest
  <2>1. adding.next = "none" /\ UNCHANGED adding /\ pc = "test" /\ pc' = "scan"
    BY <1>9 DEF DispatchTest, TypeOK
  <2>2. PICK i \in Slot : i = Index
    BY <1>9 DEF DispatchTest, TypeOK
  <2>3. \A j \in Slot : ~Filling(j) /\ ~Filling(j)'
    BY <2>1 DEF Filling
  <2>4. CASE IsOneShot(i)
    <3>1. Delete(i)
      BY <1>9, <2>2, <2>4 DEF DispatchTest
    <3>2. TT!Remove(i)
      BY <2>1, <2>2, <3>1, DeleteRemoves
    <3>3. periodBar[i] = 0 /\ i \in pendingBar
      BY <2>1, <2>2, <2>3, <2>4 DEF IsOneShot, periodBar, pendingBar, Removing
    <3>4. TT!Run(i)
      BY <3>2, <3>3 DEF TT!Run, periodBar, pendingBar
    <3> QED BY <3>4 DEF TT!ANext
  <2>5. CASE ~IsOneShot(i)
    <3>1. UNCHANGED <<pTask, Delay, Period, RunMe, adding>>
      BY <1>9, <2>1, <2>2, <2>5 DEF DispatchTest, table
    <3>2. \A j \in Slot : ~Removing(j) /\ ~Removing(j)'
      BY <2>1, <2>2, <2>5 DEF Removing, IsOneShot
    <3>3. UNCHANGED <<waitBar, periodBar, pendingBar>>
      BY <2>3, <3>1, <3>2 DEF waitBar, periodBar, pendingBar
    <3> QED BY <3>3, Stutters
  <2> QED BY <2>4, <2>5
<1>8. CASE SCH_Update
  <2>1. pc = "scan" /\ \A i \in Slot : RunMe[i] = 0
    BY <1>8 DEF SCH_Update, AllDueWorkDone
  <2>2. \A i \in Slot : ~Filling(i) /\ ~Filling(i)' /\ ~Removing(i) /\ ~Removing(i)'
    BY <1>8, <2>1 DEF SCH_Update, TypeOK, Filling, Removing
  <2>3. /\ \A i \in Slot : RunMe'[i] = NewRunMe(i) /\ Delay'[i] = NewDelay(i)
        /\ UNCHANGED <<pTask, Period>>
    BY <1>8 DEF SCH_Update
  <2>4. \A i \in Slot : waitBar[i] = IF pTask[i] = NULL THEN -1 ELSE Delay[i]
    BY <2>2 DEF waitBar
  <2>5. \A i \in Slot : Delay[i] \in Nat /\ Period[i] \in Nat
    BY DEF TypeOK
  <2>6. pendingBar = {}
    BY <2>1, <2>2 DEF pendingBar
  <2>7. pendingBar' = {i \in Slot : waitBar[i] = 0}
    <3>1. 1 % ByteMod = 1
      BY SchAssumption
    <3>2. \A i \in Slot : RunMe'[i] > 0 <=> waitBar[i] = 0
      BY <2>1, <2>3, <2>4, <2>5, <3>1 DEF NewRunMe, IsDue
    <3> QED BY <2>2, <3>2 DEF pendingBar
  <2>8. periodBar' = periodBar /\ \A i \in Slot : periodBar[i] = Period[i]
    BY <2>2, <2>3 DEF periodBar
  <2>9. waitBar' = [i \in Slot |-> IF waitBar[i] = -1 THEN -1
                                   ELSE IF waitBar[i] = 0 THEN periodBar[i] ELSE waitBar[i] - 1]
    <3>1. \A i \in Slot : waitBar'[i] = IF pTask[i] = NULL THEN -1 ELSE NewDelay(i)
      BY <2>2, <2>3 DEF waitBar
    <3>2. waitBar' = [i \in Slot |-> waitBar'[i]]
      BY DEF waitBar
    <3>3. \A i \in Slot :
            waitBar'[i] = IF waitBar[i] = -1 THEN -1
                          ELSE IF waitBar[i] = 0 THEN periodBar[i] ELSE waitBar[i] - 1
      BY <2>4, <2>5, <2>8, <3>1 DEF NewDelay
    <3> QED BY <3>2, <3>3
  <2>10. TT!Tick
    BY <2>6, <2>7, <2>8, <2>9 DEF TT!Tick, TT!Free, waitBar, periodBar, pendingBar
  <2> QED BY <2>10 DEF TT!ANext
<1> QED
  BY <1>1, <1>2, <1>3, <1>4, <1>5, <1>6, <1>7, <1>8, <1>9 DEF Next, Call, SCH_Dispatch_Tasks

\* When ticks come with all due work done and tasks do not delete themselves, the
\* table, its flags and the dispatcher implement the time-triggered schedule, for
\* every size of the table, every width of RunMe and all delays and periods.
THEOREM KeepsTheSchedule ==
    ASSUME ~TickAnywhere, ~SelfDelete
    PROVE  Spec => ImplementsTimeTriggered
<1>1. Init => TT!AInit
  BY InitRefines
<1>2. TypeOK /\ TableInv /\ ScheduleInv /\ [Next]_vars => [TT!ANext]_TT!avars
  BY StepRefines
<1> QED BY <1>1, <1>2, TypeCorrect, TableInvariant, ScheduleInvariant, PTL
       DEF Spec, ImplementsTimeTriggered, TT!ASpec
=============================================================================
