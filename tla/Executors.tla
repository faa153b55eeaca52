----------------------------- MODULE Executors -----------------------------
(***************************************************************************)
(* The executors of threading.h and threading.cc and the asio thread pool  *)
(* of actors_cc98.h.                                                       *)
(*                                                                         *)
(* An executor owns an io_service and the threads that run it.  A registry *)
(* maps ids to executors by weak pointers, under a mutex; post_task and    *)
(* terminate_all lock a weak pointer, use the executor, and drop their     *)
(* reference while they still hold the mutex.  Whoever drops the last      *)
(* reference runs the destructor, which joins the executor's threads: the  *)
(* owner, or a thread inside the registry.                                 *)
(*                                                                         *)
(* A pool is not registered: its owner and users hold it directly, and its *)
(* destructor stops the io_service before it joins.                        *)
(***************************************************************************)
EXTENDS Naturals, Sequences, FiniteSets

CONSTANTS
    Execs,      \* asio_executor objects
    Pools,      \* AsioThreadPool objects
    Workers,    \* the threads of all of them
    Home,       \* whose thread a worker is
    Clients,    \* other threads that post
    Main,       \* the thread that calls terminate_all
    Ids,        \* the ids of the registry
    None,
    MaxPosts    \* bound: posts in a behaviour

Services == Execs \cup Pools
Callers == Clients \cup Workers \cup {Main}

ASSUME ExecutorsAssumption ==
    /\ Home \in [Workers -> Services]
    /\ Execs \cap Pools = {}
    /\ Callers \cap Services = {}
    /\ Main \notin Clients \cup Workers
    /\ None \notin Callers \cup Services
    /\ \A e \in Execs : \E w \in Workers : Home[w] = e
    /\ MaxPosts \in Nat

VARIABLES
    id_to_exec_,  \* the registry
    mtx_,         \* who holds its mutex
    owned,        \* the owner still has its shared_ptr
    queue,        \* handlers in the io_service
    stopped,      \* io_service::stop has been called
    dtor,         \* who is in the destructor: None, a caller, or the service
                  \* itself for the thread of its owner
    gone,         \* the destructor has returned
    wpc,          \* workers: "idle" in io_service::run, "task", "exited"
    cur,          \* the handler a worker executes
    pc,           \* callers: "out" of any call, "lock" waiting for the mutex,
                  \* "drop" the reference, "join" in a destructor, "wait" for the
                  \* future; Main: "visit", "done"
    call,         \* what a caller asked for, and of whom
    todo,         \* ids that terminate_all has still to visit
    ready,        \* callers whose packaged_task has run
    posts         \* number of posts so far

svars == <<queue, stopped, gone, wpc, cur>>
vars == <<id_to_exec_, mtx_, owned, dtor, svars, pc, call, todo, ready, posts>>

NoCall == [of |-> None, sync |-> FALSE]

Init ==
    /\ id_to_exec_ = [i \in Ids |-> None]
    /\ mtx_ = None
    /\ owned = [e \in Services |-> TRUE]
    /\ queue = [e \in Services |-> <<>>]
    /\ stopped = [e \in Services |-> FALSE]
    /\ dtor = [e \in Services |-> None]
    /\ gone = [e \in Services |-> FALSE]
    /\ wpc = [w \in Workers |-> "idle"]
    /\ cur = [w \in Workers |-> NoCall]
    /\ pc = [c \in Callers |-> "out"]
    /\ call = [c \in Callers |-> NoCall]
    /\ todo = Ids
    /\ ready = {}
    /\ posts = 0

\* A call inside the registry has locked the weak pointer of e.
InUse(e) == \E c \in Callers : pc[c] = "drop" /\ call[c].of = e

\* thread::join, thread_group::join_all
Joined(e) == \A w \in Workers : Home[w] = e => wpc[w] = "exited"

\* weak_ptr::lock succeeds until the destructor has begun.
Locks(e) == e # None /\ dtor[e] = None /\ ~gone[e]

-----------------------------------------------------------------------------
(* Posting.                                                                *)

\* A worker only makes calls from a handler.
MayCall(c) ==
    /\ pc[c] = "out"
    /\ c # Main
    /\ c \in Workers => wpc[c] = "task"
    /\ posts < MaxPosts

\* executors::add keeps a weak pointer; the last executor given for an id stays.
add(i, e) ==
    /\ mtx_ = None
    /\ owned[e]
    /\ id_to_exec_[i] # e
    /\ id_to_exec_' = [id_to_exec_ EXCEPT ![i] = e]
    /\ UNCHANGED <<mtx_, owned, dtor, svars, pc, call, todo, ready, posts>>

\* io_service::post; a sync handler is a packaged_task whose poster waits.
Post(c, e, sync) ==
    /\ queue' = [queue EXCEPT ![e] = Append(@, [of |-> c, sync |-> sync])]
    /\ call' = [call EXCEPT ![c] = [of |-> e, sync |-> sync]]

\* A thread calls executors::post_task, and comes to the mutex.
CallPostTask(c) ==
    /\ MayCall(c)
    /\ pc' = [pc EXCEPT ![c] = "lock"]
    /\ posts' = posts + 1
    /\ UNCHANGED <<id_to_exec_, mtx_, owned, dtor, svars, call, todo, ready>>

\* It has the mutex.  It throws when the id is unknown or its executor has gone;
\* otherwise it posts, holding a reference and the mutex.
post_task(c, i, sync) ==
    /\ pc[c] = "lock"
    /\ c # Main
    /\ mtx_ = None
    /\ LET e == id_to_exec_[i] IN
        IF Locks(e)
        THEN /\ Post(c, e, sync)
             /\ mtx_' = c
             /\ pc' = [pc EXCEPT ![c] = "drop"]
        ELSE /\ pc' = [pc EXCEPT ![c] = "out"]
             /\ UNCHANGED <<queue, call, mtx_>>
    /\ UNCHANGED <<id_to_exec_, owned, dtor, stopped, gone, wpc, cur, todo, ready, posts>>

\* AsioThreadPool::add, and SingleWorker::post and getId on top of it.
AddToPool(c, e, sync) ==
    /\ MayCall(c)
    /\ owned[e] \/ (c \in Workers /\ Home[c] = e)
    /\ Post(c, e, sync)
    /\ posts' = posts + 1
    /\ pc' = [pc EXCEPT ![c] = IF sync THEN "wait" ELSE "out"]
    /\ UNCHANGED <<id_to_exec_, mtx_, owned, dtor, stopped, gone, wpc, cur, todo, ready>>

\* The end of a registry call: terminate_all goes on with the next entry, a
\* poster unlocks the mutex and, in executors::post, waits for the future.
Leave(c) ==
    IF c = Main
    THEN /\ pc' = [pc EXCEPT ![c] = "visit"]
         /\ UNCHANGED mtx_
    ELSE /\ pc' = [pc EXCEPT ![c] = IF call[c].sync THEN "wait" ELSE "out"]
         /\ mtx_' = None

\* The locked reference is dropped before the mutex is released; if the owner
\* has let go in the meantime, the destructor runs here.  (A handler that does
\* so to its own executor joins its own thread, and does not get past that.)
Drop(c) ==
    /\ pc[c] = "drop"
    /\ IF owned[call[c].of]
       THEN Leave(c) /\ UNCHANGED <<dtor>>
       ELSE /\ dtor' = [dtor EXCEPT ![call[c].of] = c]
            /\ pc' = [pc EXCEPT ![c] = "join"]
            /\ UNCHANGED mtx_
    /\ UNCHANGED <<id_to_exec_, owned, svars, call, todo, ready, posts>>

\* ~asio_executor has joined the thread.
JoinedInCall(c) ==
    /\ pc[c] = "join"
    /\ Joined(call[c].of)
    /\ gone' = [gone EXCEPT ![call[c].of] = TRUE]
    /\ dtor' = [dtor EXCEPT ![call[c].of] = None]
    /\ Leave(c)
    /\ UNCHANGED <<id_to_exec_, owned, queue, stopped, wpc, cur, call, todo, ready, posts>>

\* f->get() returns.
Get(c) ==
    /\ pc[c] = "wait"
    /\ c \in ready
    /\ ready' = ready \ {c}
    /\ pc' = [pc EXCEPT ![c] = "out"]
    /\ call' = [call EXCEPT ![c] = NoCall]
    /\ UNCHANGED <<id_to_exec_, mtx_, owned, dtor, svars, todo, posts>>

-----------------------------------------------------------------------------
(* executors::terminate_all.                                               *)

CallTerminateAll ==
    /\ pc[Main] = "out"
    /\ pc' = [pc EXCEPT ![Main] = "lock"]
    /\ UNCHANGED <<id_to_exec_, mtx_, owned, dtor, svars, call, todo, ready, posts>>

\* It has the mutex.
BeginTerminate ==
    /\ pc[Main] = "lock"
    /\ mtx_ = None
    /\ mtx_' = Main
    /\ pc' = [pc EXCEPT ![Main] = "visit"]
    /\ UNCHANGED <<id_to_exec_, owned, dtor, svars, call, todo, ready, posts>>

\* Mutant: the iterator does not advance.
MutVisit(i) ==
    /\ pc[Main] = "visit"
    /\ i \in todo
    /\ LET e == id_to_exec_[i] IN
        IF Locks(e)
        THEN /\ stopped' = [stopped EXCEPT ![e] = TRUE]
             /\ call' = [call EXCEPT ![Main] = [of |-> e, sync |-> FALSE]]
             /\ pc' = [pc EXCEPT ![Main] = "drop"]
        ELSE UNCHANGED <<stopped, call, pc>>
    /\ UNCHANGED <<id_to_exec_, mtx_, owned, dtor, queue, gone, wpc, cur, todo, ready, posts>>

\* One entry of the map: lock, terminate.
Visit(i) ==
    /\ pc[Main] = "visit"
    /\ i \in todo
    /\ todo' = todo \ {i}
    /\ LET e == id_to_exec_[i] IN
        IF Locks(e)
        THEN /\ stopped' = [stopped EXCEPT ![e] = TRUE]
             /\ call' = [call EXCEPT ![Main] = [of |-> e, sync |-> FALSE]]
             /\ pc' = [pc EXCEPT ![Main] = "drop"]
        ELSE UNCHANGED <<stopped, call, pc>>
    /\ UNCHANGED <<id_to_exec_, mtx_, owned, dtor, queue, gone, wpc, cur, ready, posts>>

\* id_to_exec_.clear()
EndTerminate ==
    /\ pc[Main] = "visit"
    /\ todo = {}
    /\ id_to_exec_' = [i \in Ids |-> None]
    /\ mtx_' = None
    /\ pc' = [pc EXCEPT ![Main] = "done"]
    /\ UNCHANGED <<owned, dtor, svars, call, todo, ready, posts>>

-----------------------------------------------------------------------------
(* Owners and workers.                                                     *)

\* The owner lets go.  A pool is not destroyed under a user that waits in it.
Release(e) ==
    /\ owned[e]
    /\ e \in Pools => \A c \in Callers : pc[c] = "wait" => call[c].of # e
    /\ owned' = [owned EXCEPT ![e] = FALSE]
    /\ dtor' = [dtor EXCEPT ![e] = IF InUse(e) THEN None ELSE e]
    /\ stopped' = [stopped EXCEPT ![e] = @ \/ e \in Pools]
    /\ UNCHANGED <<id_to_exec_, mtx_, queue, gone, wpc, cur, pc, call, todo, ready, posts>>

\* Mutant: the destructor does not join.
MutJoinedByOwner(e) ==
    /\ dtor[e] = e
    /\ gone' = [gone EXCEPT ![e] = TRUE]
    /\ dtor' = [dtor EXCEPT ![e] = None]
    /\ UNCHANGED <<id_to_exec_, mtx_, owned, queue, stopped, wpc, cur, pc, call, todo, ready,
                   posts>>

JoinedByOwner(e) ==
    /\ dtor[e] = e
    /\ Joined(e)
    /\ gone' = [gone EXCEPT ![e] = TRUE]
    /\ dtor' = [dtor EXCEPT ![e] = None]
    /\ UNCHANGED <<id_to_exec_, mtx_, owned, queue, stopped, wpc, cur, pc, call, todo, ready,
                   posts>>

\* Mutant: a stopped service still hands out its handlers.
MutTake(w) ==
    /\ wpc[w] = "idle"
    /\ queue[Home[w]] # <<>>
    /\ wpc' = [wpc EXCEPT ![w] = "task"]
    /\ cur' = [cur EXCEPT ![w] = Head(queue[Home[w]])]
    /\ queue' = [queue EXCEPT ![Home[w]] = Tail(@)]
    /\ UNCHANGED <<id_to_exec_, mtx_, owned, stopped, dtor, gone, pc, call, todo, ready, posts>>

\* io_service::run: one handler after the other until the service is stopped.
Take(w) ==
    /\ wpc[w] = "idle"
    /\ ~stopped[Home[w]]
    /\ queue[Home[w]] # <<>>
    /\ wpc' = [wpc EXCEPT ![w] = "task"]
    /\ cur' = [cur EXCEPT ![w] = Head(queue[Home[w]])]
    /\ queue' = [queue EXCEPT ![Home[w]] = Tail(@)]
    /\ UNCHANGED <<id_to_exec_, mtx_, owned, stopped, dtor, gone, pc, call, todo, ready, posts>>

\* Mutant: the handler is not wrapped in a packaged_task.
MutFinishUnpackaged(w) ==
    /\ wpc[w] = "task"
    /\ pc[w] = "out"
    /\ wpc' = [wpc EXCEPT ![w] = "idle"]
    /\ cur' = [cur EXCEPT ![w] = NoCall]
    /\ UNCHANGED ready
    /\ UNCHANGED <<id_to_exec_, mtx_, owned, queue, stopped, dtor, gone, pc, call, todo, posts>>

\* The handler returns; a packaged_task makes its future ready.
Finish(w) ==
    /\ wpc[w] = "task"
    /\ pc[w] = "out"
    /\ ready' = IF cur[w].sync THEN ready \cup {cur[w].of} ELSE ready
    /\ wpc' = [wpc EXCEPT ![w] = "idle"]
    /\ cur' = [cur EXCEPT ![w] = NoCall]
    /\ UNCHANGED <<id_to_exec_, mtx_, owned, queue, stopped, dtor, gone, pc, call, todo, posts>>

\* Mutant: the thread means to drain the queue before it ends.
MutExit(w) ==
    /\ wpc[w] = "idle"
    /\ stopped[Home[w]]
    /\ queue[Home[w]] = <<>>
    /\ wpc' = [wpc EXCEPT ![w] = "exited"]
    /\ UNCHANGED <<id_to_exec_, mtx_, owned, queue, stopped, dtor, gone, cur, pc, call, todo,
                   ready, posts>>

\* Mutant: real_run keeps no io_service::work, so run returns when it has nothing to do.
MutExitIdle(w) ==
    /\ wpc[w] = "idle"
    /\ stopped[Home[w]] \/ queue[Home[w]] = <<>>
    /\ wpc' = [wpc EXCEPT ![w] = "exited"]
    /\ UNCHANGED <<id_to_exec_, mtx_, owned, queue, stopped, dtor, gone, cur, pc, call, todo,
                   ready, posts>>

Exit(w) ==
    /\ wpc[w] = "idle"
    /\ stopped[Home[w]]
    /\ wpc' = [wpc EXCEPT ![w] = "exited"]
    /\ UNCHANGED <<id_to_exec_, mtx_, owned, queue, stopped, dtor, gone, cur, pc, call, todo,
                   ready, posts>>

-----------------------------------------------------------------------------
Posting(c) == \E i \in Ids, sync \in BOOLEAN : post_task(c, i, sync)

Calling(c) ==
    \/ CallPostTask(c)
    \/ Posting(c)
    \/ \E e \in Pools, sync \in BOOLEAN : AddToPool(c, e, sync)

terminate_all == CallTerminateAll \/ BeginTerminate \/ (\E i \in Ids : Visit(i)) \/ EndTerminate

Returning(c) == Drop(c) \/ JoinedInCall(c) \/ Get(c)

Running(w) == Take(w) \/ Finish(w) \/ Exit(w)

Next ==
    \/ \E i \in Ids, e \in Execs : add(i, e)
    \/ \E c \in Callers : Calling(c) \/ Returning(c)
    \/ terminate_all
    \/ \E e \in Services : Release(e) \/ JoinedByOwner(e)
    \/ \E w \in Workers : Running(w)

Spec == Init /\ [][Next]_vars

\* Threads go on when they can, those who wait for the mutex included (weak
\* fairness is enough for them: with a bounded number of posts it is free in the
\* end, or held for ever).  Nobody has to post, to call terminate_all or to let go
\* of an executor.
FairSpec ==
    /\ Spec
    /\ \A c \in Callers : WF_vars(Posting(c) \/ Returning(c))
    /\ WF_vars(BeginTerminate \/ (\E i \in Ids : Visit(i)) \/ EndTerminate)
    /\ \A e \in Services : WF_vars(JoinedByOwner(e))
    /\ \A w \in Workers : WF_vars(Running(w))

-----------------------------------------------------------------------------
(* Properties.                                                             *)

Call == [of : Services \cup {None}, sync : BOOLEAN]
Handler == [of : Callers, sync : BOOLEAN]

TypeOK ==
    /\ id_to_exec_ \in [Ids -> Execs \cup {None}]
    /\ mtx_ \in Callers \cup {None}
    /\ owned \in [Services -> BOOLEAN]
    /\ queue \in [Services -> Seq(Handler)]
    /\ stopped \in [Services -> BOOLEAN]
    /\ dtor \in [Services -> Callers \cup Services \cup {None}]
    /\ gone \in [Services -> BOOLEAN]
    /\ wpc \in [Workers -> {"idle", "task", "exited"}]
    /\ cur \in [Workers -> Handler \cup {NoCall}]
    /\ pc \in [Callers -> {"out", "lock", "drop", "join", "wait", "visit", "done"}]
    /\ call \in [Callers -> Call]
    /\ todo \subseteq Ids
    /\ ready \subseteq Callers
    /\ posts \in 0 .. MaxPosts

\* Nobody touches an executor that has been destroyed: no call holds it, no
\* handler of it runs, and it is no longer in anybody's destructor.
NoUseAfterDestruction ==
    \A e \in Services : gone[e] =>
        /\ ~InUse(e)
        /\ \A w \in Workers : Home[w] = e => wpc[w] = "exited"
        /\ dtor[e] = None

\* An asio_executor is destroyed only after terminate_all has reached it: its
\* destructor joins a thread that nothing else stops.
DestroyedOnlyTerminated == \A e \in Services : gone[e] => stopped[e]

\* The packaged_task of c waits in the queue of e, or is executed by w.
Task(c) == [of |-> c, sync |-> TRUE]
In(h, s) == \E k \in 1 .. Len(s) : s[k] = h
Queued(c, e) == In(Task(c), queue[e])
Runs(c, w) == wpc[w] = "task" /\ cur[w] = Task(c)

\* None of the threads S can go on.  One waits for a mutex that another of them
\* holds; one joins, with the mutex, a thread that is among them or one that only
\* terminate_all could still stop; one waits for a task that one of them executes,
\* or that is queued at a service that was stopped or has only threads of S.
Deadlock(S) ==
    \A c \in S :
        \/ pc[c] = "lock" /\ mtx_ \in S
        \/ /\ pc[c] = "join"
           /\ ~stopped[call[c].of] \/ \E w \in S \cap Workers : Home[w] = call[c].of
        \/ /\ pc[c] = "wait"
           /\ \/ \E w \in S \cap Workers : Runs(c, w)
              \/ /\ Queued(c, call[c].of)
                 /\ \/ stopped[call[c].of]
                    \/ \A w \in Workers : Home[w] = call[c].of => w \in S

Waiting == {c \in Callers : pc[c] \in {"lock", "join", "wait"}}

Deadlocked(c) == \E S \in SUBSET Waiting : c \in S /\ Deadlock(S)

\* A caller of executors::post or getId gets its result or is in a deadlock; that
\* the io_service was stopped is no excuse once the task has left its queue.
CallReturns ==
    \A c \in Clients : pc[c] = "wait" ~> (pc[c] = "out" \/ Deadlocked(c))

\* terminate_all, once called, gets the mutex and returns, or is in a deadlock.
TerminateReturns == pc[Main] = "lock" ~> (pc[Main] = "done" \/ Deadlocked(Main))

\* The destructor of a stopped executor returns, unless a thread that it joins is
\* in a deadlock: its threads end with the handler they are in.
DestructorReturns ==
    \A e \in Services :
        (dtor[e] = e /\ stopped[e])
            ~> (gone[e] \/ \E w \in Workers : Home[w] = e /\ Deadlocked(w))

\* A deadlock is one: no later call, stop or return gets anybody out of it.
DeadlockStays == [][\A c \in Callers : Deadlocked(c) => Deadlocked(c)']_vars
=============================================================================
