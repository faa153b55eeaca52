------------------------------- MODULE SCH51 -------------------------------
(***************************************************************************)
(* The time-triggered co-operative scheduler of                            *)
(* c89_c99_scheduler/.../scheduler_raw/sch51.c.                            *)
(*                                                                         *)
(* Two actors share the task table: the main program (set-up code, then    *)
(* SCH_Dispatch_Tasks in an endless loop, which calls the tasks, which may *)
(* call SCH_Add_Task and SCH_Delete_Task) and the timer interrupt          *)
(* SCH_Update.  The interrupt runs to completion, so it is one action; the *)
(* main program is cut wherever an interrupt can make a difference:        *)
(*  - SCH_Add_Task fills the four fields of a slot one by one (the search  *)
(*    and the write of pTask are one step: the interrupt ignores a slot    *)
(*    until pTask is set);                                                 *)
(*  - "RunMe -= 1" is a load and a store, and the removal of a one-shot    *)
(*    task comes after the store;                                          *)
(*  - SCH_Delete_Task clears pTask first, after which the interrupt leaves *)
(*    the slot alone, so the whole function is one step.                   *)
(***************************************************************************)
EXTENDS Integers

CONSTANTS
    SCH_MAX_TASKS,  \* slots of the table (main.h: 4)
    Tasks,          \* the functions that can be scheduled
    NULL,           \* the null function pointer
    Delays,         \* the DELAY arguments callers use, in ticks
    Periods,        \* the PERIOD arguments callers use; 0 is a one-shot task
    ByteMod,        \* 2^width of tByte, the type of RunMe (256 in the code)
    MaxCalls,       \* bound: scheduler calls made by one run of a task
    MaxOwed,        \* bound: activations a slot may have outstanding
    TickAnywhere,   \* FALSE: a tick only finds the dispatcher with all due work done
    SelfDelete      \* TRUE: a task may delete the slot it is running from

ASSUME SchAssumption ==
    /\ SCH_MAX_TASKS \in Nat \ {0}
    /\ NULL \notin Tasks
    /\ Delays \subseteq Nat
    /\ Periods \subseteq Nat
    /\ ByteMod \in Nat \ {0, 1}
    /\ MaxCalls \in Nat
    /\ MaxOwed \in Nat
    /\ TickAnywhere \in BOOLEAN
    /\ SelfDelete \in BOOLEAN

ERROR_SCH_TOO_MANY_TASKS == 1
ERROR_SCH_CANNOT_DELETE_TASK == 2

Slot == 0 .. SCH_MAX_TASKS - 1
tByte == 0 .. ByteMod - 1

VARIABLES
    pTask, Delay, Period, RunMe,  \* SCH_tasks_G, one function per field of sTask
    Error_code_G,
    pc,        \* where the main program is
    Index,     \* the loop variable of SCH_Dispatch_Tasks
    reg,       \* the value of RunMe loaded for "RunMe -= 1"
    adding,    \* the SCH_Add_Task in progress
    calls,     \* scheduler calls made so far by the running task
    \* History of each slot's current task, read by properties only:
    owed,      \* activations by the interrupt that have not been run yet
    age,       \* ticks since its last activation, Never before the first
    runs,      \* times it has been started: 0, 1, or 2 for "more than once"
    hit,       \* the slots where a tick struck when RunMe could not record it
    replaced   \* the slots whose task was added while the slot's own task, which had
               \* deleted itself, was running

table == <<pTask, Delay, Period, RunMe>>
history == <<owed, age, runs, hit, replaced>>
vars == <<table, Error_code_G, pc, Index, reg, adding, calls, history>>

Never == -1
NotAdding == [next |-> "none"]

(***************************************************************************)
(* Before SCH_Init_T2 the table is static storage: every byte is zero.     *)
(***************************************************************************)
Init ==
    /\ pTask = [i \in Slot |-> NULL]
    /\ Delay = [i \in Slot |-> 0]
    /\ Period = [i \in Slot |-> 0]
    /\ RunMe = [i \in Slot |-> 0]
    /\ Error_code_G = 0
    /\ pc = "reset"
    /\ Index = 0
    /\ reg = 0
    /\ adding = NotAdding
    /\ calls = 0
    /\ owed = [i \in Slot |-> 0]
    /\ age = [i \in Slot |-> Never]
    /\ runs = [i \in Slot |-> 0]
    /\ hit = {}
    /\ replaced = {}

-----------------------------------------------------------------------------
(* Start-up.  Interrupts are off until SCH_Start sets EA.                  *)

\* Deletes every slot, then resets the error code those deletions have set.
SCH_Init_T2 ==
    /\ pc = "reset"
    /\ pc' = "setup"
    /\ pTask' = [i \in Slot |-> NULL]
    /\ Delay' = [i \in Slot |-> 0]
    /\ Period' = [i \in Slot |-> 0]
    /\ RunMe' = [i \in Slot |-> 0]
    /\ Error_code_G' = 0
    /\ UNCHANGED <<Index, reg, adding, calls, history>>

\* After SCH_Start the main program only calls SCH_Dispatch_Tasks.
SCH_Start ==
    /\ pc = "setup"
    /\ adding.next = "none"
    /\ pc' = "scan"
    /\ UNCHANGED <<table, Error_code_G, Index, reg, adding, calls, history>>

-----------------------------------------------------------------------------
(* SCH_Add_Task and SCH_Delete_Task, called by the set-up code or a task.  *)

\* The history of slot i starts afresh.
Forget(i) ==
    /\ owed' = [owed EXCEPT ![i] = 0]
    /\ age' = [age EXCEPT ![i] = Never]
    /\ runs' = [runs EXCEPT ![i] = 0]
    /\ hit' = hit \ {i}

\* Who calls: the set-up code, or a task while it runs.
MayCall ==
    /\ adding.next = "none"
    /\ pc = "setup" \/ (pc = "body" /\ calls < MaxCalls)

CountCall == calls' = IF pc = "body" THEN calls + 1 ELSE calls

\* Mutant: the search does not look at the slot it stops at.
MutFirstGap(i) == \A j \in 0 .. i - 1 : pTask[j] # NULL

\* The search loop stops at the first slot whose pTask is null.
FirstGap(i) ==
    /\ pTask[i] = NULL
    /\ \A j \in 0 .. i - 1 : pTask[j] # NULL

SCH_Add_Task(f, d, p) ==
    /\ MayCall
    /\ CountCall
    /\ \E i \in Slot :
        /\ FirstGap(i)
        /\ pTask' = [pTask EXCEPT ![i] = f]
        /\ adding' = [next |-> "Delay", at |-> i, d |-> d, p |-> p]
        /\ Forget(i)
        /\ replaced' = IF pc = "body" /\ i = Index THEN replaced \cup {i} ELSE replaced \ {i}
    /\ UNCHANGED <<Delay, Period, RunMe, Error_code_G, pc, Index, reg>>

\* With no gap the loop ends at SCH_MAX_TASKS, whatever it read one element
\* beyond the table on its way out.
SCH_Add_Task_Full ==
    /\ MayCall
    /\ CountCall
    /\ \A i \in Slot : pTask[i] # NULL
    /\ Error_code_G' = ERROR_SCH_TOO_MANY_TASKS
    /\ UNCHANGED <<table, pc, Index, reg, adding, history>>

AddDelay ==
    /\ adding.next = "Delay"
    /\ Delay' = [Delay EXCEPT ![adding.at] = adding.d]
    /\ adding' = [adding EXCEPT !.next = "Period"]
    /\ UNCHANGED <<pTask, Period, RunMe, Error_code_G, pc, Index, reg, calls, history>>

AddPeriod ==
    /\ adding.next = "Period"
    /\ Period' = [Period EXCEPT ![adding.at] = adding.p]
    /\ adding' = [adding EXCEPT !.next = "RunMe"]
    /\ age' = [age EXCEPT ![adding.at] = Never]
    /\ UNCHANGED <<pTask, Delay, RunMe, Error_code_G, pc, Index, reg, calls, owed, runs, hit, replaced>>

\* Mutant: RunMe is not reset.
MutAddRunMe ==
    /\ adding.next = "RunMe"
    /\ adding' = NotAdding
    /\ UNCHANGED <<table, Error_code_G, pc, Index, reg, calls, history>>

AddRunMe ==
    /\ adding.next = "RunMe"
    /\ RunMe' = [RunMe EXCEPT ![adding.at] = 0]
    /\ adding' = NotAdding
    /\ UNCHANGED <<pTask, Delay, Period, Error_code_G, pc, Index, reg, calls, history>>

\* Mutant: the delay of the deleted task stays behind.
MutDelete(i) ==
    /\ pTask' = [pTask EXCEPT ![i] = NULL]
    /\ Period' = [Period EXCEPT ![i] = 0]
    /\ RunMe' = [RunMe EXCEPT ![i] = 0]
    /\ Forget(i)
    /\ replaced' = replaced \ {i}
    /\ UNCHANGED <<Delay, Error_code_G>>

\* The body of SCH_Delete_Task: an empty slot is an error, and is cleared too.
Delete(i) ==
    /\ pTask' = [pTask EXCEPT ![i] = NULL]
    /\ Delay' = [Delay EXCEPT ![i] = 0]
    /\ Period' = [Period EXCEPT ![i] = 0]
    /\ RunMe' = [RunMe EXCEPT ![i] = 0]
    /\ Error_code_G' = IF pTask[i] = NULL
                       THEN ERROR_SCH_CANNOT_DELETE_TASK
                       ELSE Error_code_G
    /\ Forget(i)
    /\ replaced' = replaced \ {i}

SCH_Delete_Task(i) ==
    /\ MayCall
    /\ CountCall
    /\ (pc = "body" /\ i = Index) => SelfDelete
    /\ Delete(i)
    /\ UNCHANGED <<pc, Index, reg, adding>>

-----------------------------------------------------------------------------
(* SCH_Dispatch_Tasks.                                                     *)

\* RunMe is zero: on to the next slot.
DispatchSkip ==
    /\ pc = "scan"
    /\ Index \in Slot
    /\ RunMe[Index] = 0
    /\ Index' = Index + 1
    /\ UNCHANGED <<table, Error_code_G, pc, reg, adding, calls, history>>

\* RunMe is not zero: call the task.
DispatchCall ==
    /\ pc = "scan"
    /\ Index \in Slot
    /\ RunMe[Index] > 0
    /\ pc' = "body"
    /\ calls' = 0
    /\ runs' = [runs EXCEPT ![Index] = IF @ = 0 THEN 1 ELSE 2]
    /\ UNCHANGED <<table, Error_code_G, Index, reg, adding, owed, age, hit, replaced>>

\* The task returns and RunMe is loaded.
DispatchLoad ==
    /\ pc = "body"
    /\ adding.next = "none"
    /\ pc' = "store"
    /\ reg' = RunMe[Index]
    /\ UNCHANGED <<table, Error_code_G, Index, adding, calls, history>>

\* Mutant: no task is taken for a one-shot task.
MutIsOneShot(i) == FALSE

IsOneShot(i) == Period[i] = 0

\* Mutant: the flag is not reduced.
MutReduced(runMe) == runMe

\* "RunMe -= 1" in the arithmetic of tByte.
Reduced(runMe) == IF runMe = 0 THEN ByteMod - 1 ELSE runMe - 1

\* RunMe is stored, whatever the task has done to its slot meanwhile.
DispatchStore ==
    /\ pc = "store"
    /\ pc' = "test"
    /\ reg' = 0
    /\ RunMe' = [RunMe EXCEPT ![Index] = Reduced(reg)]
    /\ owed' = [owed EXCEPT ![Index] = IF @ > 0 THEN @ - 1 ELSE 0]
    /\ UNCHANGED <<pTask, Delay, Period, Error_code_G, Index, adding, calls, age, runs, hit, replaced>>

\* Mutant: the index is advanced before the removal.
MutDispatchTest ==
    /\ pc = "test"
    /\ pc' = "scan"
    /\ Index' = Index + 1
    /\ IF IsOneShot(Index)
       THEN Delete((Index + 1) % SCH_MAX_TASKS)
       ELSE UNCHANGED <<table, Error_code_G, history>>
    /\ UNCHANGED <<reg, adding, calls>>

\* A one-shot task, or what the slot holds now if that has no period, is removed.
DispatchTest ==
    /\ pc = "test"
    /\ pc' = "scan"
    /\ Index' = Index + 1
    /\ IF IsOneShot(Index)
       THEN Delete(Index)
       ELSE UNCHANGED <<table, Error_code_G, history>>
    /\ UNCHANGED <<reg, adding, calls>>

\* Mutant: the next scan leaves out the first slot.
MutGoToSleep ==
    /\ pc = "scan"
    /\ Index = SCH_MAX_TASKS
    /\ Index' = 1
    /\ UNCHANGED <<table, Error_code_G, pc, reg, adding, calls, history>>

\* The scan is over.  SCH_Go_To_Sleep is empty; the main loop starts again.
SCH_Go_To_Sleep ==
    /\ pc = "scan"
    /\ Index = SCH_MAX_TASKS
    /\ Index' = 0
    /\ UNCHANGED <<table, Error_code_G, pc, reg, adding, calls, history>>

-----------------------------------------------------------------------------
(* SCH_Update, the timer interrupt.                                        *)

AllDueWorkDone ==
    pc = "scan" /\ Index = SCH_MAX_TASKS /\ \A i \in Slot : RunMe[i] = 0

IsDue(i) == pTask[i] # NULL /\ Delay[i] = 0

\* SCH_Add_Task has set pTask but not yet Delay: what the slot holds is stale.
DelayUnset(i) == adding.next = "Delay" /\ adding.at = i

\* Mutant: only periodic tasks are flagged.
MutPeriodicOnly(i) ==
    IF IsDue(i) /\ Period[i] > 0 THEN (RunMe[i] + 1) % ByteMod ELSE RunMe[i]

NewRunMe(i) == IF IsDue(i) THEN (RunMe[i] + 1) % ByteMod ELSE RunMe[i]

\* Mutant: a task that has not run since it was last due is not scheduled again.
MutNewDelay(i) ==
    IF pTask[i] = NULL THEN Delay[i]
    ELSE IF Delay[i] = 0 THEN (IF RunMe[i] = 0 THEN Period[i] ELSE 0) ELSE Delay[i] - 1

\* A due task waits for its period again (a one-shot task stays due), a task
\* that is not due waits one tick less.
NewDelay(i) ==
    IF pTask[i] = NULL THEN Delay[i]
    ELSE IF Delay[i] = 0 THEN Period[i] ELSE Delay[i] - 1

\* The tick activates slot i, but SCH_Add_Task has yet to reset its RunMe, the
\* dispatcher has loaded RunMe and not yet stored it, or RunMe is at its limit.
Hits(i) ==
    /\ IsDue(i)
    /\ \/ adding.next # "none" /\ adding.at = i
       \/ pc = "store" /\ Index = i
       \/ RunMe[i] = ByteMod - 1

SCH_Update ==
    /\ pc \notin {"reset", "setup"}
    /\ TickAnywhere \/ AllDueWorkDone
    /\ \A i \in Slot : owed[i] < MaxOwed
    /\ RunMe' = [i \in Slot |-> NewRunMe(i)]
    /\ Delay' = [i \in Slot |-> NewDelay(i)]
    /\ owed' = [i \in Slot |->
                    IF IsDue(i) /\ ~DelayUnset(i) THEN owed[i] + 1 ELSE owed[i]]
    /\ age' = [i \in Slot |->
                    IF IsDue(i) THEN 0
                    ELSE IF age[i] = Never THEN Never ELSE age[i] + 1]
    /\ hit' = hit \cup {i \in Slot : Hits(i)}
    /\ UNCHANGED <<pTask, Period, Error_code_G, pc, Index, reg, adding, calls, runs, replaced>>

-----------------------------------------------------------------------------
Call ==
    \/ \E f \in Tasks, d \in Delays, p \in Periods : SCH_Add_Task(f, d, p)
    \/ SCH_Add_Task_Full
    \/ AddDelay
    \/ AddPeriod
    \/ AddRunMe
    \/ \E i \in Slot : SCH_Delete_Task(i)

SCH_Dispatch_Tasks ==
    \/ DispatchSkip
    \/ DispatchCall
    \/ DispatchLoad
    \/ DispatchStore
    \/ DispatchTest
    \/ SCH_Go_To_Sleep

Next == SCH_Init_T2 \/ SCH_Start \/ Call \/ SCH_Dispatch_Tasks \/ SCH_Update

Spec == Init /\ [][Next]_vars

(***************************************************************************)
(* The main program never stops on its own: a call it has begun ends, a    *)
(* task returns (co-operative tasks must) and the loop goes on.            *)
(***************************************************************************)
MainStep == SCH_Dispatch_Tasks \/ AddDelay \/ AddPeriod \/ AddRunMe

FairSpec == Spec /\ WF_vars(MainStep)

-----------------------------------------------------------------------------
(* Properties.                                                             *)

AddRecord == [next : {"Delay", "Period", "RunMe"}, at : Slot, d : Delays, p : Periods]

\* The type invariant.  An addition is only in progress under the set-up code
\* or a task, and the dispatcher is inside the table while a task runs.
TypeOK ==
    /\ pTask \in [Slot -> Tasks \cup {NULL}]
    /\ Delay \in [Slot -> Nat]
    /\ Period \in [Slot -> Nat]
    /\ RunMe \in [Slot -> tByte]
    /\ Error_code_G \in {0, ERROR_SCH_TOO_MANY_TASKS, ERROR_SCH_CANNOT_DELETE_TASK}
    /\ pc \in {"reset", "setup", "scan", "body", "store", "test"}
    /\ Index \in 0 .. SCH_MAX_TASKS
    /\ pc \in {"body", "store", "test"} => Index \in Slot
    /\ reg \in tByte
    /\ adding \in {NotAdding} \cup AddRecord
    /\ adding.next # "none" => pc \in {"setup", "body"}
    /\ calls \in Nat
    /\ owed \in [Slot -> Nat]
    /\ age \in [Slot -> Nat \cup {Never}]
    /\ runs \in [Slot -> 0 .. 2]
    /\ hit \subseteq Slot
    /\ replaced \subseteq Slot

\* A slot without a task is zero in every field.  SCH_Add_Task relies on it
\* (the interrupt may see the slot between its writes), and so does the
\* dispatcher, which calls pTask without looking at it when RunMe is not zero.
\* The one exception is the slot of a task that has deleted itself, whose RunMe the
\* dispatcher decrements below zero: it is clear again before anyone looks.
FreeSlotIsClear ==
    \A i \in Slot : pTask[i] = NULL =>
        Delay[i] = 0 /\ Period[i] = 0 /\ (RunMe[i] = 0 \/ (pc = "test" /\ Index = i))

\* SCH_Dispatch_Tasks never calls a null pTask: RunMe is only non-zero where
\* there is a task, also after a task has deleted itself and the dispatcher has
\* decremented its RunMe below zero.
NoNullCall ==
    (pc = "scan" /\ Index \in Slot /\ RunMe[Index] > 0) => pTask[Index] # NULL

Running(i) == pc \in {"body", "store", "test"} /\ Index = i

\* A task is never run more often than it was activated: RunMe, which counts
\* the runs to come, is at most the number of activations still owed.  It holds
\* through the wrap-around of RunMe and through a tick between the load and the
\* store of "RunMe -= 1".  It fails only for a task that was added to the slot of a
\* task that had deleted itself and was still running: there the dispatcher
\* decrements the RunMe of the wrong task.
NoSpuriousRun ==
    \A i \in Slot \ replaced :
        (pTask[i] # NULL /\ adding.next = "none") => RunMe[i] <= owed[i]

\* A one-shot task still in the table has not been started, unless it is the
\* one running now: it is removed after its first run, however many ticks have
\* raised its RunMe meanwhile.
OneShotRunsOnce ==
    \A i \in Slot :
        (pTask[i] # NULL /\ Period[i] = 0 /\ ~Running(i)) => runs[i] = 0

\* The dispatcher removes a task only after it has run.  The one task it removes
\* unrun is a one-shot task that was added to the slot of a task that had deleted
\* itself and was still running.
RemovedOnlyAfterRun ==
    [][\A i \in Slot :
        (pc = "test" /\ pTask[i] # NULL /\ pTask'[i] = NULL)
            => runs[i] > 0 \/ i \in replaced]_vars

\* Two activations of a periodic task are Period + 1 ticks apart, whatever the
\* main program was doing when the ticks came: no drift, no double activation.
ActivationInterval ==
    [][\A i \in Slot :
        (owed'[i] > owed[i] /\ age[i] # Never /\ Period[i] > 0)
            => age[i] = Period[i]]_vars

\* "Interval (ticks) between subsequent runs", the comment on Period: the tick that
\* activates a task again is the Period-th after the one that activated it last.
PeriodIsInterval ==
    [][\A i \in Slot :
        (owed'[i] > owed[i] /\ age[i] # Never /\ Period[i] > 0)
            => age[i] + 1 = Period[i]]_vars

\* The three moments of Hits are the only ones at which a tick is lost, wherever the
\* interrupt strikes: while SCH_Add_Task has yet to reset RunMe, between the load
\* and the store of "RunMe -= 1", and when RunMe is at its limit.  In every other
\* slot RunMe is exactly the number of activations not yet run, and the copy the
\* dispatcher works on is too; but for a task added to the slot of a running task
\* that had deleted itself, whose RunMe is decremented for the run of that task.
LostOnlyWhenHit ==
    \A i \in Slot \ (hit \cup replaced) : pTask[i] # NULL =>
        /\ RunMe[i] = owed[i]
        /\ (pc = "store" /\ Index = i) => reg = owed[i]

\* A slot whose RunMe is raised is served: the dispatcher comes round to run it,
\* unless the task is deleted or the count wraps to zero before.
RaisedIsServed ==
    \A i \in Slot : RunMe[i] > 0 ~> (Running(i) \/ RunMe[i] = 0)

\* When the tasks keep the schedule (ticks find all due work done) every tick's
\* work does get done: the dispatcher always comes back to rest.
WorkGetsDone == (pc = "scan") ~> AllDueWorkDone

-----------------------------------------------------------------------------
(***************************************************************************)
(* Refinement.  A slot being filled by SCH_Add_Task counts as installed    *)
(* with the arguments of the call; the slots that are due are those whose  *)
(* RunMe is raised, and a one-shot task is due until it is removed.        *)
(***************************************************************************)
Filling(i) == adding.next # "none" /\ adding.at = i

Removing(i) == pc = "test" /\ Index = i /\ Period[i] = 0

TT == INSTANCE TimeTriggered WITH
    wait <- [i \in Slot |-> IF pTask[i] = NULL THEN -1
                            ELSE IF Filling(i) THEN adding.d ELSE Delay[i]],
    period <- [i \in Slot |-> IF Filling(i) THEN adding.p ELSE Period[i]],
    pending <- {i \in Slot : RunMe[i] > 0 \/ Removing(i)}

\* When ticks only come with all due work done, the table, its flags and the
\* dispatcher implement the time-triggered schedule: each activation is run
\* once, before the next tick, and nothing else is ever run.
ImplementsTimeTriggered == TT!ASpec
=============================================================================
