------------------------------ MODULE SeqTimer ------------------------------
(***************************************************************************)
(* The sequencer of seqgen3.c: a handler of SIGALRM, which an interval     *)
(* timer raises.  The signal is sent to the process, so the kernel picks   *)
(* the thread that runs the handler, and that thread stands still until    *)
(* the handler returns.  signal() blocks SIGALRM meanwhile in that thread  *)
(* only: a signal that comes before the handler has returned runs it on    *)
(* another thread at the same time.  sem_wait is restarted after the       *)
(* handler (SA_RESTART).                                                   *)
(***************************************************************************)
EXTENDS SeqServices

CONSTANTS
    Every,             \* the dividers of the services that are released
    sequencePeriods,   \* cycles to run (2000)
    MaxLoops           \* bound: handler calls

ASSUME TimerAssumption ==
    /\ DOMAIN Every \subseteq Service
    /\ \A s \in DOMAIN Every : Every[s] \in Nat \ {0}
    /\ sequencePeriods \in Nat \ {0}
    /\ MaxLoops \in Nat

Thread == {0} \cup Service   \* 0 is main

VARIABLES
    seqCnt,
    armed,     \* the interval timer runs
    pending,   \* a SIGALRM has not been delivered yet
    h,         \* where each thread is in the handler
    hpos,      \* the service that handler call deals with next
    reg,       \* the value of seqCnt in a register of that handler call
    \* History, read by properties only:
    loops,       \* the handler calls so far
    overlapped   \* two handler calls have run at the same time

hvars == <<h, hpos, reg>>
history == <<loops, overlapped>>
tvars == <<seqCnt, armed, pending, hvars, history>>
vars == <<svars, mvars, tvars>>

Init ==
    /\ ServicesInit
    /\ seqCnt = 0
    /\ armed = FALSE
    /\ pending = FALSE
    /\ h = [t \in Thread |-> "idle"]
    /\ hpos = [t \in Thread |-> 1]
    /\ reg = [t \in Thread |-> 0]
    /\ loops = 0
    /\ overlapped = FALSE

Idle == \A t \in Thread : h[t] = "idle"

-----------------------------------------------------------------------------
(* The timer and the handler.                                              *)

\* An expiry while a signal is pending is only an overrun of the timer.
TimerExpires ==
    /\ armed
    /\ main # "done"
    /\ loops < MaxLoops
    /\ pending' = TRUE
    /\ UNCHANGED <<svars, mvars, seqCnt, armed, hvars, history>>

\* The kernel delivers the signal to a thread that exists and does not block it;
\* the handler loads seqCnt, to increment it.
Enter(t) ==
    /\ pending
    /\ main # "done"
    /\ h[t] = "idle"
    /\ t \in Service => svc[t] \in {"check", "wait"}
    /\ pending' = FALSE
    /\ h' = [h EXCEPT ![t] = "count"]
    /\ reg' = [reg EXCEPT ![t] = seqCnt]
    /\ loops' = loops + 1
    /\ overlapped' = (overlapped \/ ~Idle)
    /\ UNCHANGED <<svars, mvars, seqCnt, armed, hpos>>

\* Mutant: a handler call is counted twice.
MutCount(t) ==
    /\ h[t] = "count"
    /\ seqCnt' = reg[t] + 2
    /\ reg' = [reg EXCEPT ![t] = reg[t] + 2]
    /\ h' = [h EXCEPT ![t] = "release"]
    /\ hpos' = [hpos EXCEPT ![t] = 1]
    /\ UNCHANGED <<svars, mvars, armed, pending, history>>

\* seqCnt++ stores its result
Count(t) ==
    /\ h[t] = "count"
    /\ seqCnt' = reg[t] + 1
    /\ reg' = [reg EXCEPT ![t] = reg[t] + 1]
    /\ h' = [h EXCEPT ![t] = "release"]
    /\ hpos' = [hpos EXCEPT ![t] = 1]
    /\ UNCHANGED <<svars, mvars, armed, pending, history>>

\* Mutant: the count is tested with a divider one too large.
MutDue(s, cnt) == s \in DOMAIN Every /\ cnt % (Every[s] + 1) = 0

Due(s, cnt) == s \in DOMAIN Every /\ cnt % Every[s] = 0

\* The tests read seqCnt again, or use the register: another handler call may
\* have changed seqCnt meanwhile, a data race.
Release(t) ==
    /\ h[t] = "release"
    /\ hpos[t] \in Service
    /\ \E cnt \in {reg[t], seqCnt} :
        sem' = [sem EXCEPT ![hpos[t]] = IF Due(hpos[t], cnt) THEN @ + 1 ELSE @]
    /\ hpos' = [hpos EXCEPT ![t] = @ + 1]
    /\ UNCHANGED <<abort, svc, SCnt, mvars, seqCnt, armed, pending, h, reg, history>>

\* Mutant: the timer is not disarmed.
MutHandlerTest(t) ==
    /\ h[t] = "release"
    /\ hpos[t] = N + 1
    /\ \E cnt \in {reg[t], seqCnt} :
        h' = [h EXCEPT ![t] = IF cnt >= sequencePeriods THEN "post" ELSE "idle"]
    /\ hpos' = [hpos EXCEPT ![t] = 1]
    /\ UNCHANGED <<svars, mvars, seqCnt, armed, pending, reg, history>>

\* if(abortTest || (seqCnt >= sequencePeriods)): disarm the timer and shut down
HandlerTest(t) ==
    /\ h[t] = "release"
    /\ hpos[t] = N + 1
    /\ \E cnt \in {reg[t], seqCnt} :
        /\ h' = [h EXCEPT ![t] = IF cnt >= sequencePeriods THEN "post" ELSE "idle"]
        /\ armed' = (armed /\ cnt < sequencePeriods)
    /\ hpos' = [hpos EXCEPT ![t] = 1]
    /\ reg' = [reg EXCEPT ![t] = 0]
    /\ UNCHANGED <<svars, mvars, seqCnt, pending, history>>

\* The shutdown: one sem_post per service, then one flag per service.
ShutdownPost(t) ==
    /\ h[t] = "post"
    /\ sem' = [sem EXCEPT ![hpos[t]] = @ + 1]
    /\ h' = [h EXCEPT ![t] = IF hpos[t] = N THEN "abort" ELSE "post"]
    /\ hpos' = [hpos EXCEPT ![t] = IF hpos[t] = N THEN 1 ELSE @ + 1]
    /\ UNCHANGED <<abort, svc, SCnt, mvars, seqCnt, armed, pending, reg, history>>

ShutdownAbort(t) ==
    /\ h[t] = "abort"
    /\ abort' = [abort EXCEPT ![hpos[t]] = TRUE]
    /\ h' = [h EXCEPT ![t] = IF hpos[t] = N THEN "idle" ELSE "abort"]
    /\ hpos' = [hpos EXCEPT ![t] = IF hpos[t] = N THEN 1 ELSE @ + 1]
    /\ UNCHANGED <<sem, svc, SCnt, mvars, seqCnt, armed, pending, reg, history>>

Sequencer(t) ==
    \/ Count(t)
    \/ Release(t)
    \/ HandlerTest(t)
    \/ ShutdownPost(t)
    \/ ShutdownAbort(t)

-----------------------------------------------------------------------------
(* main and the services.                                                  *)

\* timer_create, signal, timer_settime
ArmTimer ==
    /\ main = "create"
    /\ k = N + 1
    /\ armed' = TRUE
    /\ main' = "join"
    /\ k' = 1
    /\ UNCHANGED <<svars, seqCnt, pending, hvars, history>>

SetUpStep == (SetUp \/ SetUpFails) /\ UNCHANGED tvars

MainStep ==
    /\ h[0] = "idle"
    /\ \/ SetUpStep
       \/ CreateService /\ UNCHANGED tvars
       \/ ArmTimer
       \/ Join /\ UNCHANGED tvars

ServiceStep(s) ==
    /\ h[s] = "idle"
    /\ ServiceCheck(s) \/ ServiceRelease(s)
    /\ UNCHANGED <<mvars, tvars>>

\* The process is gone.
Ended == main \in {"done", "failed"} /\ UNCHANGED vars

Next ==
    \/ TimerExpires
    \/ \E t \in Thread : Enter(t) \/ Sequencer(t)
    \/ \E s \in Service : ServiceStep(s)
    \/ MainStep
    \/ Ended

Spec == Init /\ [][Next]_vars

-----------------------------------------------------------------------------
(* Properties.                                                             *)

\* seqCnt may overrun sequencePeriods by more than the calls in progress: a call
\* that loaded seqCnt long ago can put it back, and the others may read it then
\* and leave the timer armed.  It never exceeds the number of handler calls.
TypeOK ==
    /\ ServicesTypeOK
    /\ seqCnt \in 0 .. MaxLoops
    /\ armed \in BOOLEAN
    /\ pending \in BOOLEAN
    /\ h \in [Thread -> {"idle", "count", "release", "post", "abort"}]
    /\ hpos \in [Thread -> 1 .. N + 1]
    /\ reg \in [Thread -> 0 .. MaxLoops]
    /\ loops \in 0 .. MaxLoops
    /\ overlapped \in BOOLEAN

\* The handler call in progress, when calls do not overlap, has passed service s.
Passed(s) ==
    \A t \in Thread : h[t] # "count" /\ (h[t] = "release" => hpos[t] > s)

CyclesSeen(s) == IF Passed(s) THEN loops ELSE loops - 1

Regular(s) == IF s \in DOMAIN Every THEN CyclesSeen(s) \div Every[s] ELSE 0

\* The handler calls that have passed the shutdown's post of semaphore s, if they
\* come that far.
CallsEnded(s) ==
    IF \A t \in Thread : h[t] \notin {"count", "release"} /\ (h[t] = "post" => hpos[t] > s)
    THEN loops ELSE loops - 1

\* Every call from the sequencePeriods-th on shuts down: a signal may be pending
\* when the timer is disarmed.
Shutdowns(s) ==
    IF CallsEnded(s) < sequencePeriods THEN 0 ELSE CallsEnded(s) - sequencePeriods + 1

\* As long as no handler calls have overlapped no release is lost or duplicated,
\* whichever threads the handler interrupts: what a service has answered and
\* what its semaphore holds is one release per Every[s] handler calls, and one
\* more from every shutdown.
ReleasesAccounted ==
    ~overlapped => \A s \in Service :
        sem[s] + SCnt[s] = Regular(s) + Shutdowns(s)

\* The shutdown never comes early: however handler calls overlap, they may lose
\* counts and never gain any, so the timer is not disarmed and no service is told
\* to end before the handler has run sequencePeriods times.
NotEarly ==
    /\ (main = "join" /\ ~armed) => loops >= sequencePeriods
    /\ \A s \in Service : abort[s] => loops >= sequencePeriods

\* A service only ends once the timer is disarmed, so that a service that is
\* gone is never released by a new signal, even when handler calls overlap.
EndsAfterTimer == \A s \in Service : svc[s] = "done" => ~armed
=============================================================================
