# Verification of `schedulers`

The repository collects schedulers and the concurrency primitives they are built
from: a time-triggered scheduler for small micro-controllers, four "generic
sequencer" real-time demos for POSIX, queues, actors and executors in C++, C#
and Go. This project models the parts that carry scheduling or synchronisation
logic of their own in TLA+, checks them with TLC and proves the central results
with TLAPS.

## 1. Inventory

| part | state | operations | who interacts | what makes it correct |
|---|---|---|---|---|
| `sch51.c` scheduler | task table (`pTask`, `Delay`, `Period`, `RunMe` per slot), `Error_code_G` | `SCH_Init_T2`, `SCH_Start`, `SCH_Add_Task`, `SCH_Delete_Task`, `SCH_Dispatch_Tasks`, ISR `SCH_Update` | main loop, tasks called from it, timer interrupt; no lock | nothing is run that was not due, everything due is run, one-shot tasks once, periodic ones at their interval, no call through a null pointer |
| sequencers `seqgen.c`, `seqgen2.c`, `seqgenex0.c` | semaphores and abort flags per service, cycle count | sequencer loop, service loops, create and join in `main` | threads with SCHED_FIFO priorities on one or several cores | each service released at its sub-rate, no release lost, every thread ends |
| sequencer `seqgen3.c` | the same, and an interval timer | SIGALRM handler, services, `main` | handler on any thread, possibly on several | as above |
| `BlockedQueue`, `BoundedBlockedQueue` | list, size, mutex, condition variables | `push`, `try_pop` / `pop` | producers and consumers | no lost wake-up, order, bound |
| actors (`actors_cc11.h`, `actors_cc98.h`) on `message_queue` | queue, `done`, thread | `Send`, destructor, `Run` | clients, the actor's thread, the owner | messages in order, destructor returns after what was sent before its own message has run |
| executors and their registry (`threading.h`, `threading.cc`), `SingleWorker` and `AsioThreadPool` (`actors_cc98.h`, `thread_pools.*`) | map from ids to weak pointers under a mutex; io_service and threads of each executor | `add`, `post`, `getId`, `terminate_all`, the destructors | clients, handlers, owners that drop the last reference, the thread that terminates | nobody uses a destroyed executor, calls and destructors return when they can |
| C# executors (`Program.cs`) | dispatcher, `disposed`, `done` | `Post`, `Dispose`, the task on FS, `Main` | main thread, two executor threads, thread pool | the program ends, and what was posted in time runs |
| `go_bench.go` pipeline | cyclical buffer, channels, work pool | grabber, recogniser, routines, acceptor, RNN | goroutines; the grabber keeps the buffer's mutex while it sends | every frame arrives in order after a fixed delay, with the right mark, none lost unnoticed, nobody waits for ever |
| `posix_clock.c` delay test | time stamps, `sleep_count`, the reported differences | `delta_t`, the sleep loop | signals that interrupt a sleep | the differences are right, a sleep is completed |
| `QueuePthread`, try-queues | list, size, mutex | `push`/`try_push`, `pop`/`try_pop` | producers and consumers | bound, no pop of nothing |
| UI actor, `arch.*`, Qt executors, timer and thread demos, vm and slot stubs, echo server, tests, vendored `deps/` | - | - | - | section 7 |

Hard behaviours: an interrupt between any two machine steps of `sch51.c`
(including inside `RunMe -= 1`); threads on several cores during the shutdown
of a sequencer; a signal handler that runs on two threads at once; condition
variables signalled after the unlock and with conditions that have gone stale;
destruction racing with work that creates more work; a destructor run by
whichever thread drops the last reference, with a mutex locked; a mutex kept
while waiting for a channel; a sleep interrupted again and again.
PROJECT.json lists them one by one under "hazards".

## 2. Plan

Done in this order: (1) `SCH51` with `TimeTriggered` and `SCH51Proofs`;
(2) `SeqServices`, `SeqThread`, `SeqThreadProofs`, `SeqTimer`, `SeqTimerProofs`;
(3) `BlockedQueues`, `QueueProofs`; (4) `Actor`, `ActorProofs`;
(5) `Executors`, (6) `CsProgram`, and `ExecutorsProofs` about both;
(7) `FramePipeline`, `FramePipelineProofs`; (8) `PosixClock`, `PosixClockProofs`.

Left: `work_executor`, once the code that runs and destroys the io_service it
borrows is in the repository.

## 3. Modules and the code

### SCH51 (`sch51.c`, `main.h`)

The fields of `SCH_tasks_G` are one function each. `pc` says where the main
program is: `reset` -> `SCH_Init_T2` -> `setup` -> `SCH_Start` -> the dispatcher
loop (`scan`, `body` while a task runs, `store` between the load and the store
of `RunMe -= 1`, `test` between the store and the removal of a one-shot task). Tasks are opaque functions; while one runs it may make up to
`MaxCalls` calls of `SCH_Add_Task` and `SCH_Delete_Task`. `SCH_Add_Task` is cut
into its four field writes, since the interrupt can see the slot in between.
`SCH_Update` runs to completion and is one action. `RunMe` is computed modulo
`ByteMod`, the code's 256.

`SCH_Delete_Task` is one step because the interrupt ignores a slot as soon as
`pTask` is null. `SCH_Add_Task_Full` stands for the search that finds no gap;
the code reads `pTask` one element beyond the table on its way out (line 112),
which has no influence on the result.

Two switches select the environment. `TickAnywhere = FALSE` is the assumption
the FIXME at lines 103-104 makes ("if everything completes in less than a tick
there are no races"): a tick only finds the dispatcher with all due work done.
`SelfDelete = FALSE` excludes tasks that delete the slot they run from. The
variables `owed`, `age`, `runs`, `hit` and `replaced` are history, read by
properties only. `hit` holds the slots where a tick came when `RunMe` could not
record it, of which there are three cases: `SCH_Add_Task` has set `pTask` and not
yet reset `RunMe` (line 134 then erases what the tick has counted), the dispatcher
is between the load and the store of `RunMe -= 1`, or the byte is about to wrap.
`replaced` holds the slots whose task was added while the slot's own task, which
had deleted itself, was still running: there the dispatcher does to the new task
what it means for the old one.

`TimeTriggered` is the abstract specification: a task is due on tick d + 1 and
then every p + 1 ticks (what the code does; the comment on `Period` says p, see
`SCH51_period`), runs exactly once before the next tick, and leaves after
its run if p = 0. `SCH51` maps to it with `pending` = the slots whose `RunMe` is
raised or whose one-shot task is about to be removed, and a slot being filled
counts as installed with the call's arguments.

### SeqServices, SeqThread (`seqgen.c`, `seqgen2.c`, `seqgenex0.c`), SeqTimer (`seqgen3.c`)

`SeqServices` is what the four programs share: semaphores, abort flags, service
loops, create and join, and `main`'s set-up, which ends the process when a semaphore
cannot be initialised or SCHED_FIFO cannot be had. `SeqThread` adds the
sequencer thread. The variable
`ex0`, chosen initially and never changed, says which program runs: `seqgenex0.c`
counts at the end of the cycle (so every service is released in the first one),
treats every failed sleep as one that ended, and pins all threads to core 3 under
SCHED_FIFO (lines 120-136), so that a service runs only while the sequencer, which
has the highest priority, sleeps or has ended; in the other programs a sleep that
fails or is interrupted exits the process, and the threads use several cores. Each
`sem_post` and each flag is a step of its own. The work of a service and all
time stamps are left out.

`SeqTimer` models a sequencer that is a SIGALRM handler. `signal()` blocks the
signal only in the thread that handles it, so when a handler call has not ended
at the next expiry another thread may run it too (the history variable
`overlapped` records it); `seqCnt` is a
plain variable, and every later test in the handler may see the register copy
or the shared value. Only the services whose `sem_post` is not commented out
are in `Every`.

### BlockedQueues (`executors/test_pthread_safe_queue.cc`)

One module for both classes: `maxSize_` is chosen initially from `Sizes` and never
changes, and `BlockedQueue` is the queue whose size is `Unbounded`. It is never
full, so its `push` never waits, its `try_pop` never broadcasts, and what is left
is the code of that class. A critical section is one step, `pthread_cond_wait`'s
unlock-and-sleep is atomic, a broadcast after the unlock is a step of its own, and
sleepers may wake up spuriously (`WakeUp`). `was` keeps what the call saw when it
first had the mutex, which the code still uses after a wait; `popped` and `waited`
are history.

### Actor (`executors/actors_cc11.h`, `shadow/actors_cc11.h`, `executors/actors_cc98.h`, `safe_queue_cc11.h`)

The thread's loop, the queue's `enqueue` and `dequeue`, the destructor and its
join. With `Resends` a client's message sends one more message when it runs; the
actor's thread (`Self`) is the sender of those, and they are numbered and counted
like the clients'. `atDestroy` is history: what each sender had sent when the
destructor sent its message.
`cc98::Actor` uses a sentinel instead of a flag; finding it corresponds to
setting and testing `done`. A message that throws ends the process, in all
versions, and is not modelled.

### Executors (`threading.h`, `threading.cc`, `executors/actors_cc98.h`, `thread_pools.*`)

An executor is an io_service (a queue of handlers and the flag `stopped`) with
its threads. The registry `id_to_exec_` holds weak pointers, so it keeps nobody
alive: `owned` says whether the owner still has its reference, `pc[c] = "drop"`
that a caller inside the registry has one from `weak_ptr::lock`. Whoever drops
the last one enters the destructor (`dtor`) and joins the threads: the owner
(`Release`, `JoinedByOwner`), or a thread inside `post_task` or `terminate_all`
with the mutex locked (`Drop`, `JoinedInCall`). Posts come from clients and from
handlers, with a future that is waited for (`sync`) or without. A pool is not
registered, and its destructor stops the io_service before it joins.

A thread that calls `post_task` or `terminate_all` first comes to the mutex
(`pc = "lock"`) and stays there while another has it; a handler in that place does
not return. So the deadlocks this code can get into are states of the model, and
`Deadlock(S)` says what they are: every thread of S waits for the mutex that one of
S holds, joins a thread of S or one that is not stopped (with the mutex, so that
`terminate_all` cannot come to stop it), or waits for a task that a thread of S
executes, or that is queued at a service that was stopped or has only threads of S.

### CsProgram (`cs_executors/to_x86/Program.cs`)

The whole program, which has no parameters: `Main` creates both executors and
spins until each has its dispatcher, posts the task to FS, spins on `done` and
disposes of IO and FS in this order. The dispatcher and the thread pool are
external: an operation that arrives after the shutdown, or is still queued
then, is aborted. `ops` is the queue of each dispatcher. The specification is
called `CsSpec`, so that one proof module can extend it and `Executors`.
`done` is not volatile; `hoisted`, chosen initially, says whether the compiler
keeps it in a register. `late` is history.

### FramePipeline (`go_bench.go`)

The grabber's loop is cut where it may block: the tick, the push into the buffer
under the mutex, the send to the RNN with the mutex still locked, the send to the
recogniser. The work pool is a library, seen through its use: a queue of
`threads_count` works that refuses more, and its routines. The acceptor takes the
mutex to search the buffer for the frame and mark it. Channels have capacity
one. `rnn`, `skipped`, `recognised` and `marked` are history.

### PosixClock (`RT-Clock/posix_clock.c`)

`delta_t` is translated branch by branch, with the pair of its result and of
what it leaves in its output argument. The thread takes the time, sleeps, sleeps
again for what is left after an interruption while `sleep_count` is below
`max_sleep_calls`, takes the time again and computes `rtclk_dt` and
`delay_error`. Time is a number of nanoseconds; the clock starts in any phase of a
second. The stamps are of `CLOCK_MONOTONIC_RAW` (line 139) and `nanosleep` runs on
a clock that is slewed, so a sleep may measure up to `MaxSlew` shorter than it was,
and up to `MaxLate` longer (`Slumber`). Printing and the floating-point difference are left out.

## 4. Runs

| run | shows |
|---|---|
| `SCH51_preempted` | with interrupts anywhere, `RunMe` wrapping at 3 and tasks that delete themselves and may add another to their slot: free slots stay clear, no spurious runs, one-shots once, no removal before a run, activations exactly Period + 1 ticks apart, an activation is lost only in the three cases of `hit`, raised slots are served; `NoSpuriousRun`, `RemovedOnlyAfterRun` and `LostOnlyWhenHit` except the slots in `replaced` |
| `SCH51_schedule` | if ticks find the work done, the code refines `TimeTriggered` (so no activation is lost); the dispatcher always comes to rest, so the next tick can come |
| `SCH51_period` (violation) | activations come every Period + 1 ticks, where the comment on `Period` says "Interval (ticks) between subsequent runs." |
| `SeqThread_shutdown` | all releases accounted for and answered, on one core and on several; on one core nobody is stranded and the program ends |
| `SeqThread_stranded` (violation) | on several cores a service takes the last post, sees its flag clear and waits for ever |
| `SeqTimer_overlap` | releases accounted for until handler calls overlap; even when they overlap the shutdown does not come before `sequencePeriods` handler calls, and no service is gone while the timer is armed |
| `BlockedQueues_delivery` | for a `BlockedQueue` and a `BoundedBlockedQueue`: the bound kept, values popped in order, and until a producer has had to wait for room (so always in a `BlockedQueue`) no lost wake-up and everything popped |
| `Actor_resend` | order; when the destructor returns, exactly what clients and messages had sent before its message has run; and it returns |
| `Executors_registry` | nobody uses a destroyed executor; none is destroyed before terminate_all reached it; calls, `terminate_all` and the destructors of stopped executors return, unless their thread (or one they join) is in a `Deadlock`; and a deadlock lasts, so the exception is never one for a thread that would have gone on |
| `CsProgram_dispose` | `Main` returns unless `done` is kept in a register; when it has, the task on FS has run, and `ioCall` has unless it was posted after IO had been told to shut down |
| `FramePipeline_latency` | fixed latency, right marks, every frame accounted for, the grabber always comes back, every work ends and its result is taken by the acceptor |
| `PosixClock_delay` | the reported time is the elapsed time, the reported error is that of the last sleep that did not measure short, and until `max_sleep_calls` interruptions a test falls short of its request by no more than the two clocks differ over its sleeps |

The type invariant is checked in the runs of `BlockedQueues` and `CsProgram`,
where it says more than types (the queue's bound, what disposal leaves); in every
module it is a theorem.

Bounds. Two or three slots are enough for a slot to be passed, filled and
emptied while another is served; delays {0, 1} and periods {0, 1, 2} give
one-shot, shortest and longer reloads (with interrupts anywhere, delay 0 and
periods {0, 1}: a longer wait only adds ticks that do nothing); two calls let a
task delete itself and add another; `ByteMod` 3 lets `RunMe` wrap within
`MaxOwed` activations. Two or three services with dividers 1 and 3 over three to
six cycles bring every combination of releases, the first and the last cycle
included. Two producers, three consumers and three values each let
every wake-up race with another push and another pop, and fill a queue of two so
that both producers wait. Two executors with one id
let one replace the other in the registry; with a pool, a client, the handlers
and two posts every pair of post, drop, destructor and `terminate_all` meets, and
a post can be made from a handler; all the kinds of deadlock of section 6 are
reached. Five frames through a buffer of two wrap its
pointer twice, and two routines with one queued work make the pool refuse frames
and finish them out of order. A second of 6 ns, a request of 5 and sleeps up to
4 late or 1 short bring every case of `delta_t` that the clock can produce, with
borrow and without; three tests with a limit of three interruptions exhaust `sleep_count`
in every test.

Deadlock checking is off where the system really may stop: a stranded service
(`SeqThread_*`, `SeqTimer_overlap`), and executors whose owner is in a destructor
that only `terminate_all` could end, or clients whose future is never set
(`Executors_registry`). The other programs end in an explicit stuttering step.

Fairness. `SCH51`: the main program keeps going (tasks return, as co-operative
tasks must); the interrupt needs none. Sequencers: a runnable thread runs
eventually, a sleep ends or fails; a service on the one core is only required to
run when the sequencer is not runnable. Queues: a broadcast that was decided on
is made; a consumer that can take the mutex again and again gets it (strong
fairness of the mutex); nobody has to wake up spuriously. Actor: the thread and
the join go on when they can; no client has to send. Executors: weak fairness of
calls that have begun (those that wait for the mutex included: with a bounded
number of posts it is free in the end or held for ever), of workers and of joins;
nobody has to post, to release
an executor or to call `terminate_all`. C#: each thread goes on, as the runtime's
scheduler guarantees. Pipeline: weak fairness of each goroutine, and strong
fairness of the acceptor's lock, since Go's mutex hands itself over to a waiter
that has starved for a millisecond; the ticker needs none.

## 5. Proofs

All for arbitrary constants, under the named assumptions of the modules. Each
proof module proves that its specifications keep their type invariants.

`SCH51Proofs`. `TableInv` relates the table to the addition in
progress: a slot that is being filled still holds the zeros of a free slot in
the fields not written yet, which is why a tick that sees it half-filled does no
harm beyond one flag that `AddRunMe` clears; with the clause that a slot with
`RunMe` raised has a task it gives `FreeSlotsAreClear`, `NeverCallsNull` (for
self-deleting tasks too) and `OneShotsRunOnce`. The one slot without a task whose
`RunMe` may be raised is the dispatcher's own at `test`, where the decrement of a
self-deleted task's zero has wrapped; the removal that follows clears it. `ActivationsAreRegular` needs
that a slot's age and remaining delay add up to its period. `CountsInv` bounds
`RunMe`, and the value in the register between load and store, by the
activations owed; its case distinction is whether the task the dispatcher called
is still in its slot (`InPlace`). From it `RunsAreActivated` and
`RemovedTasksHaveRun`, and from its converse for slots that were not hit
`ActivationsAreLostOnlyThen`. All three hold with and without self-deletion, with
`replaced` as their only exception. `KeepsTheSchedule` is the refinement:
under `~TickAnywhere` and `~SelfDelete` every step of the code is a step of
`TimeTriggered` or leaves its variables alone. Its `ScheduleInv` says that
`RunMe` is 0 or 1, is 1 in the slot whose task is running, and that a slot being
filled has `RunMe` clear and its call's arguments in the fields already written;
from it follow `Stutters` (the
steps of an addition or of the dispatcher that the schedule does not see),
`DeleteRemoves` and, action by action, `StepRefines`.

`SeqThreadProofs`. `ControlInv` ties the position of `main` to
the threads that exist; `OneCoreShutdown` from `ShutdownInv`: with `ex0`,
from the first post of the shutdown on no service moves, so each one either
still holds its post or has not reached its test; `ReleasesAddUp` from the
arithmetic of one more cycle (n \div d grows exactly when d divides n + 1).
`EndInv` is about any number of cores: a service ends only for its flag, a flag
is set only after the last cycle and after all posts, and `main` joins the
sequencer before the services. It gives `ThreadsEndInOrder` and, with the
accounting of releases, `StrandedServicesAreIdle`: the race that
`SeqThread_stranded` shows can only catch a service that has answered every
release, so it costs the program its end and no work.

`SeqTimerProofs`. `HandlerInv`: `seqCnt` and every handler call's copy of it are
at most the number of handler calls, and a copy that is still to be incremented
is less; so overlapping calls lose counts and never gain one. With `EndInv` (whoever shuts
down has disarmed the timer, a flag is set only by one that does, a service ends
only by its flag) this gives `ShutdownIsNotEarly` and `ServicesEndAfterTimer` for
every overlap. `SerialInv`: until calls overlap there is one at a time, and it
reads what it wrote; then `ReleasesAddUp` goes through the positions of that
call, with the arithmetic of one more call.

`QueueProofs`. `TypeCorrect` contains the bound, which rests on `InBound`: a step
that adds a value has found room in the same critical section. `ConsumersAreWoken`
needs `FreshInv`: while no producer has waited, every push has looked at the list
in the critical section in which it adds its value. `WakeupsAreNotLost` is its
corollary for `BlockedQueue`, where nobody ever waits for room. `PopsAreInOrder`
from `ListInv`: the list holds exactly the values pushed and not popped, in order
for each producer, also where wake-ups go wrong.

`ActorProofs`. `Ordered(q, lo, hi)` says what a queue holds when the messages up
to `lo` have been taken and those up to `hi` sent; four lemmas say how appending
and taking change it. `OrderInv` is `Ordered` for the messages taken so far.
`Divided`: the destructor's message divides the queue into what had been sent when
it was sent (`atDestroy`) and what messages have sent since, and once it is taken
only the latter is left; `DoneInv`: nothing of the latter is taken, and the thread
ends only after that message. From them `MessagesRunInOrder` and
`DestructorWaitsForAll`, for clients' messages and for those that messages send.
`WaitInv`: a thread that sleeps has left nothing in the queue. So
`NoticeIsNeverMissed`: the thread that the destructor joins never sleeps, which
is the part of the liveness property `DestructorReturns` that needs no fairness.

`ExecutorsProofs`. `RegistryIsLocked`: a caller that holds a reference or joins
inside the registry has the mutex. `CallsInv`: a reference locked there is to an
executor whose destructor has not begun, and a caller that joins is in that
destructor. `LifeInv`: from the beginning of its destructor on an executor has
no owner, and when it is gone its threads have ended. With `StoppedInv` (a thread
ends only once its io_service was stopped) they give `NoUseAfterDestructionHolds`
and `OnlyTerminatedAreDestroyed`.

Futures: `FutureInv` says that a `packaged_task` belongs to the call its poster
is in (`OwnTaskInv`), that there is one of it (`OneTaskInv`) and that while the
poster waits it is in the queue of the service that was asked, in one of its
threads, or has run (`KeptTaskInv`). It needs the queues to be without
repetitions; the lemmas `HandlerPosted` and `HandlerTaken` say how posting and
taking change what a queue holds. With `StoppedInv` it gives
`OnlyStoppedAbandons`: a future can only stay unset because its io_service was
stopped with the task queued. `TerminateAllMissesNone` rests on `VisitedInv` (the
entries the loop has passed are stopped, or can never be locked again) and on the
mutex, which keeps `add` out between the loop and the clear.

`DeadlocksStay` justifies the exception of the liveness properties. A thread of a
deadlock cannot take the step it waits for (`DeadlockBlocks`): the holder of the
mutex is stuck, so `post_task` and `terminate_all` cannot begin and nothing more is
stopped under a join; the thread that would execute a task is stuck, or its service
was stopped and takes no more handlers. And no step of a thread outside changes
what one inside waits for (`DeadlockStep`); for that the invariants above are
needed, `FutureInv` most of all, since a task that is queued must be the one its
caller waits for.

C#: `CsInv` follows `Main` through its statements (`CsMainInv`) and says for each
position which threads run and what their dispatchers hold. `CsFlagInv`: nothing
is disposed of before the task has made its `UI_Post`. `CsFSInv`: the queue of
FS holds the task, then the shutdown. `CsIOInv`: the queue of IO holds at most
`ioCall` and the shutdown, `ioCall` behind only when it was late. Hence
`CsTypeCorrect`, `IoCallLostOnlyLateHolds` and `JoinsAreServed`: a `Join` always
waits for a thread that has its shutdown queued or has ended. The program has no
parameters, so the first two repeat what TLC enumerates; the proof adds the
reason.

`FramePipelineProofs`. `BufferInv`: read from the pointer on, the slots hold the
last `allowed_latency_frames` frames in order; `RnnInv`: the pushes so far are
the frames the RNN has, the one in the channel and the one in `oldest`; hence
`LatencyIsFixed`. `NoFrameIsLost`: no step takes a frame from its station
without putting it into another. `FramesStayApart` is its counterpart: no frame is
at two stations, or twice at one, and a frame on its way to the pool has not been
decided about; hence the action property `NoFrameIsRecognisedTwice`.
`MarksArrive` from `SeenInv` (offered before
recognised before accepted before marked) and `MarkInv`, using that a frame is
in one slot only and that one the buffer has returned is in none.

`PosixClockProofs`. The reported values of each test are tied to the elapsed
nanoseconds; the core is the lemma that `delta_t` computes the difference of two
normalised time stamps that are in order. `SleepInv`: what a test has measured and
what it still asks for add up to the request, less what the clocks may differ over
its sleeps so far; hence `SleepsAreCompleted` for any `MaxSlew`.

Only model-checked: the liveness properties (leads-to and termination under
fairness), which are beyond the proof system, and the properties that the runs
expecting a violation refute. `NoticeIsNeverMissed`, `OnlyStoppedAbandons`,
`JoinsAreServed`, `WakeupsAreNotLost` and `StrandedServicesAreIdle` are the safety
side of some of them: nobody waits for what can no longer come. That it does come
is what TLC checks under the fairness of section 4. The invariants that appear
only in the proof modules were model-checked on the instances of the runs before
they were proved.

## 6. Other observations

- `Period` is declared as the "Interval (ticks) between subsequent runs"
  (`sch51.c`, line 15). `SCH_Update` reloads `Delay` on the tick that finds the
  task due and counts it down from the next one, so activations are Period + 1
  ticks apart. `SCH51_period` shows the disagreement (a finding);
  `ActivationInterval` and `TimeTriggered` state what the code does.
- There are three ways to lose an activation: a tick that finds the task due while
  `SCH_Add_Task` has not yet reset `RunMe` (`sch51.c`, line 134), a tick between the
  load and the store of `RunMe -= 1` (line 153), and the wrap of the byte (line 83).
  `LostOnlyWhenHit` says that there is no other.
- A task that deletes itself and adds another may get the same slot. The
  dispatcher then decrements the new task's `RunMe` (`sch51.c`, line 153), to 255 if
  no tick has raised it, and removes the new task unrun if it has no period (line
  156). The history variable `replaced` names these tasks; for all others the
  properties hold with self-deletion as without.
- The handler of `seqgen3.c` shuts down in the same order as the sequencer
  threads (posts, then flags, lines 494-500), and can strand a service in the
  same way; handler calls that overlap can lose a count (line 452). A call that
  stores an old count late can set `seqCnt` back by any amount, and calls that
  test it then leave the timer armed, so the number of handler calls beyond
  `sequencePeriods` is not bounded by the number of threads.
- The actors' comments ("last message sets done to true", "wait for queue to
  drain") do not hold when a running message sends another one after the
  destructor has sent its own: that one stays in the queue. `JoinedAfterAll` states
  exactly which messages run.
- `seqgen3.c` says that it "gives semaphores to all other services" (line 50)
  but posts only services 4 and 7 before the shutdown; the other posts are
  commented out.
- `seqgen.c`, line 355, compares the result of `nanosleep` with `EINTR`; the
  result is -1, so an interrupted sleep ends the process.
- `seqgenex0.c`, line 243, lets `tv_nsec` be exactly one second; the sleep then
  fails with `EINVAL` and is taken for one that ended.
- In `BoundedBlockedQueue` `was_empty` and `was_full` are stale after a wait.
  Producers and consumers can then all sleep with nobody left to wake them; only
  spurious wake-ups keep the model moving there.
- The destructor of `asio_executor` joins a thread that only `terminate_all`
  stops, so an owner that lets go earlier waits in it; an executor that another
  one has replaced under its id is never stopped (`threading.h`, line 95). The
  deadlocks that `Executors` reaches: the last reference is dropped under the
  registry's mutex (`threading.cc`, line 53) and the destructor joins a thread that
  nobody can stop any more, or whose handler waits for the mutex; a handler waits
  for a task that only its own thread could run (`actors_cc98.h`, line 146); a
  future's task was still queued when its io_service was stopped (`threading.h`,
  line 86).
- In `Program.cs` the task sets `done` before it posts `ioCall`, so `Main` may shut
  IO down first; the loss of `ioCall` is not reported.
- `posix_clock.c` ignores the `ERROR` of `delta_t` (line 192), so a sleep that
  measures shorter than the request, because it was cut short or because
  `nanosleep` and the stamps use different clocks (line 139), leaves the error of an earlier test in place, and
  `sleep_count` is not reset between the tests (line 187). The branches of `delta_t`
  for nanoseconds above one second cannot be reached with normalised time stamps.
- The bounded queue of `data_structures.h` accepts a capacity below one (line 107).

## 7. Not modelled

- Times and time stamps of the sequencers, priorities other than the
  sequencer's, logging. A `pthread_create` that fails in a sequencer's `main`: the
  test `rc < 0` is never true of it, the thread id stays unset and joining it is
  undefined.
- The try-queues (`concurent_queues_pthread.h`, `data_structures.h`,
  `shadow/concurent_queues.h`): every operation is one critical section over a
  list, so a model would repeat the data structure. `QueuePthread` and
  `QueuePthreadV2`: experiments in a test file, marked as wrong by their author.
- The UI actor, `arch.*`, the vm and slot stubs: declarations and commented-out
  code. `work_executor`: it borrows an io_service that somebody else runs and
  destroys, and no code in the repository does so.
- Qt executors: they forward to Qt's event loop, without state of their own that
  changes after the set-up.
- Timer, watchdog and thread demos: straight-line programs around one system
  call, or independent threads that are forked and joined.
- The echo server, tests that only exercise libraries, vendored code.
