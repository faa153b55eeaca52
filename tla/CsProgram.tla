----------------------------- MODULE CsProgram -----------------------------
(***************************************************************************)
(* The program of cs_executors/to_x86/Program.cs: two executors, IO and    *)
(* FS, each a thread that runs a dispatcher, and a main thread that posts  *)
(* a task to FS, spins on the flag done and disposes of both executors.    *)
(* The task on FS asks the thread pool (UI_Post) to set done, and then     *)
(* posts ioCall to IO.                                                     *)
(*                                                                         *)
(* A dispatcher is external: BeginInvoke appends to its queue,             *)
(* InvokeShutdown ends it, and an operation that is queued or arrives      *)
(* after that is aborted.                                                  *)
(***************************************************************************)
EXTENDS Sequences

Executor == {"IO", "FS"}   \* the static fields of Scope, in order of their declaration

VARIABLES
    main,        \* where Main is: <<what, for which executor>>
    thread,      \* the executors' threads: "none", "start", "run", "end"
    dispatcher,  \* the field dispatcher is set
    disposed,    \* the field disposed
    ops,         \* operations of a dispatcher
    ended,       \* the dispatcher has been shut down
    task,        \* the task on FS: "none", "ui", "io", "invoke", "done"
    pool,        \* the thread pool has the action of UI_Post
    done,        \* the static field
    hoisted,     \* done is not volatile: the loop may read it once and for all
    ioCalled,    \* ioCall has run
    \* History, read by properties only:
    late         \* ioCall was posted after IO had been told to shut down

evars == <<thread, dispatcher, disposed, ops, ended>>
csvars == <<main, evars, task, pool, done, hoisted, ioCalled, late>>

CsInit ==
    /\ main = <<"new", "IO">>
    /\ thread = [x \in Executor |-> "none"]
    /\ dispatcher = [x \in Executor |-> FALSE]
    /\ disposed = [x \in Executor |-> FALSE]
    /\ ops = [x \in Executor |-> <<>>]
    /\ ended = [x \in Executor |-> FALSE]
    /\ task = "none"
    /\ pool = FALSE
    /\ done = FALSE
    /\ hoisted \in BOOLEAN
    /\ ioCalled = FALSE
    /\ late = FALSE

-----------------------------------------------------------------------------
(* The dispatcher (external) and the executor's thread.                    *)

BeginInvoke(x, op) ==
    ops' = [ops EXCEPT ![x] = IF ended[x] THEN @ ELSE Append(@, op)]

\* lock (thisLock) { dispatcher = Dispatcher.CurrentDispatcher; }
ThreadMethod(x) ==
    /\ thread[x] = "start"
    /\ dispatcher' = [dispatcher EXCEPT ![x] = TRUE]
    /\ thread' = [thread EXCEPT ![x] = "run"]
    /\ UNCHANGED <<main, disposed, ops, ended, task, pool, done, hoisted, ioCalled, late>>

\* Dispatcher.Run takes the next operation.
Dispatch(x) ==
    /\ thread[x] = "run"
    /\ ops[x] # <<>>
    /\ x = "FS" => task \in {"none", "done"}
    /\ LET op == Head(ops[x]) IN
        /\ IF op = "shutdown"
           THEN /\ ended' = [ended EXCEPT ![x] = TRUE]
                /\ thread' = [thread EXCEPT ![x] = "end"]
                /\ ops' = [ops EXCEPT ![x] = <<>>]
           ELSE /\ ops' = [ops EXCEPT ![x] = Tail(@)]
                /\ UNCHANGED <<ended, thread>>
        /\ task' = IF op = "task" THEN "ui" ELSE task
        /\ ioCalled' = (ioCalled \/ op = "ioCall")
    /\ UNCHANGED <<main, dispatcher, disposed, pool, done, hoisted, late>>

\* Mutant: the context has nobody to run the action.
MutUIPost ==
    /\ task = "ui"
    /\ task' = "io"
    /\ UNCHANGED <<main, evars, pool, done, hoisted, ioCalled, late>>

\* Scope.UI_Post(() => done = true): the default context uses the thread pool.
UI_Post ==
    /\ task = "ui"
    /\ pool' = TRUE
    /\ task' = "io"
    /\ UNCHANGED <<main, evars, done, hoisted, ioCalled, late>>

\* Mutant: the test of disposed is inverted.
MutPostCheck ==
    /\ task = "io"
    /\ task' = IF ~disposed["IO"] THEN "done" ELSE "invoke"
    /\ late' = disposed["IO"]
    /\ UNCHANGED <<main, evars, pool, done, hoisted, ioCalled>>

\* Scope.IO.Post(ioCall): ignored when IO is disposed, ...
PostCheck ==
    /\ task = "io"
    /\ task' = IF disposed["IO"] THEN "done" ELSE "invoke"
    /\ late' = disposed["IO"]
    /\ UNCHANGED <<main, evars, pool, done, hoisted, ioCalled>>

\* ... which may have changed by the time of the BeginInvoke.
PostInvoke ==
    /\ task = "invoke"
    /\ BeginInvoke("IO", "ioCall")
    /\ late' = (ended["IO"] \/ ops["IO"] # <<>>)
    /\ task' = "done"
    /\ UNCHANGED <<main, thread, dispatcher, disposed, ended, pool, done, hoisted, ioCalled>>

\* A thread of the pool runs the action.
PoolThread ==
    /\ pool
    /\ pool' = FALSE
    /\ done' = TRUE
    /\ UNCHANGED <<main, evars, task, hoisted, ioCalled, late>>

-----------------------------------------------------------------------------
(* The main thread.                                                        *)

\* Executor(): start the thread, ...
Construct(x) ==
    /\ main = <<"new", x>>
    /\ thread' = [thread EXCEPT ![x] = "start"]
    /\ main' = <<"spin", x>>
    /\ UNCHANGED <<dispatcher, disposed, ops, ended, task, pool, done, hoisted, ioCalled, late>>

\* ... and spin until it has set dispatcher.
Constructed(x) ==
    /\ main = <<"spin", x>>
    /\ dispatcher[x]
    /\ main' = IF x = "IO" THEN <<"new", "FS">> ELSE <<"post", "FS">>
    /\ UNCHANGED <<evars, task, pool, done, hoisted, ioCalled, late>>

\* Scope.FS.Post(...), then the first read of done.
PostTask ==
    /\ main = <<"post", "FS">>
    /\ BeginInvoke("FS", "task")
    /\ main' = <<"loop", "FS">>
    /\ UNCHANGED <<thread, dispatcher, disposed, ended, task, pool, done, hoisted, ioCalled, late>>

\* while (true) if (done) break; with done possibly kept in a register
Read ==
    /\ main = <<"loop", "FS">>
    /\ main' = IF done THEN <<"dispose", "IO">>
               ELSE IF hoisted THEN <<"stuck", "FS">> ELSE main
    /\ UNCHANGED <<evars, task, pool, done, hoisted, ioCalled, late>>

\* Dispose does nothing the second time; the shutdown is itself an operation of
\* the queue.
Dispose(x) ==
    /\ main = <<"dispose", x>>
    /\ ~disposed[x]
    /\ BeginInvoke(x, "shutdown")
    /\ main' = <<"join", x>>
    /\ UNCHANGED <<thread, dispatcher, disposed, ended, task, pool, done, hoisted, ioCalled, late>>

\* Mutant: the thread is not joined.
MutJoin(x) ==
    /\ main = <<"join", x>>
    /\ main' = <<"disposed", x>>
    /\ UNCHANGED <<evars, task, pool, done, hoisted, ioCalled, late>>

\* thread.Join()
Join(x) ==
    /\ main = <<"join", x>>
    /\ thread[x] = "end"
    /\ main' = <<"disposed", x>>
    /\ UNCHANGED <<evars, task, pool, done, hoisted, ioCalled, late>>

Disposed(x) ==
    /\ main = <<"disposed", x>>
    /\ disposed' = [disposed EXCEPT ![x] = TRUE]
    /\ main' = IF x = "IO" THEN <<"dispose", "FS">> ELSE <<"end", "FS">>
    /\ UNCHANGED <<thread, dispatcher, ops, ended, task, pool, done, hoisted, ioCalled, late>>

\* Main has returned, or spins on the register for ever.
Rest == main[1] \in {"end", "stuck"} /\ UNCHANGED csvars

-----------------------------------------------------------------------------
MainStep ==
    \/ \E x \in Executor : Construct(x) \/ Constructed(x) \/ Dispose(x) \/ Join(x) \/ Disposed(x)
    \/ PostTask
    \/ Read

ThreadStep(x) ==
    ThreadMethod(x) \/ Dispatch(x) \/ (x = "FS" /\ (UI_Post \/ PostCheck \/ PostInvoke))

CsNext == MainStep \/ (\E x \in Executor : ThreadStep(x)) \/ PoolThread \/ Rest

CsSpec == CsInit /\ [][CsNext]_csvars

\* Every thread that can run does; a loop that keeps done in a register spins.
CsFairSpec ==
    /\ CsSpec
    /\ WF_csvars(MainStep)
    /\ WF_csvars(PoolThread)
    /\ \A x \in Executor : WF_csvars(ThreadStep(x))

-----------------------------------------------------------------------------
(* Properties.                                                             *)

CsTypeOK ==
    /\ main \in {"new", "spin", "post", "loop", "stuck", "dispose", "join", "disposed", "end"}
                \X Executor
    /\ thread \in [Executor -> {"none", "start", "run", "end"}]
    /\ dispatcher \in [Executor -> BOOLEAN]
    /\ disposed \in [Executor -> BOOLEAN]
    /\ ops \in [Executor -> Seq({"task", "ioCall", "shutdown"})]
    /\ ended \in [Executor -> BOOLEAN]
    /\ \A x \in Executor : disposed[x] => ended[x] /\ ops[x] = <<>>
    /\ task \in {"none", "ui", "io", "invoke", "done"}
    /\ pool \in BOOLEAN
    /\ done \in BOOLEAN
    /\ hoisted \in BOOLEAN
    /\ ioCalled \in BOOLEAN
    /\ late \in BOOLEAN

\* When Main has returned, the task on FS has (FS is disposed last, and its shutdown
\* queues behind the task), and ioCall has run, unless it was posted to IO after IO
\* had been told to shut down: done is set before the post, so Main may be that
\* fast.  Nothing reports the loss.
IoCallLostOnlyLate ==
    main = <<"end", "FS">> => task = "done" /\ (ioCalled <=> ~late)

\* Unless the loop keeps done in a register, Main returns.
MainReturns == ~hoisted => <>(main = <<"end", "FS">>)
=============================================================================
