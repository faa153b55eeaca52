---------------------------- MODULE SeqServices ----------------------------
(***************************************************************************)
(* What the generic sequencers of rtos_rte_cp/sequencer_generic (seqgen.c, *)
(* seqgen2.c, seqgen3.c and seqgenex0.c) have in common: service threads   *)
(* that loop on a semaphore until their abort flag is set, and the main    *)
(* thread that creates and joins them.  What starts a cycle, which         *)
(* services it releases and how the services are shut down is left to the  *)
(* modules that extend this one.                                           *)
(***************************************************************************)
EXTENDS Integers

CONSTANT N   \* number of services (7; 3 in seqgenex0.c)

ASSUME ServicesAssumption == N \in Nat \ {0}

Service == 1 .. N

VARIABLES
    sem,     \* the values of semS1 .. semSN
    abort,   \* abortS1 .. abortSN
    svc,     \* where each service thread is
    SCnt,    \* S1Cnt .. SNCnt: the releases each service has answered
    main,    \* where the main thread is
    k        \* the thread main creates or joins next

svars == <<sem, abort, svc, SCnt>>
mvars == <<main, k>>

\* The globals before main begins: a flag is FALSE and a semaphore is zero, the
\* value sem_init gives it too.
ServicesInit ==
    /\ sem = [s \in Service |-> 0]
    /\ abort = [s \in Service |-> FALSE]
    /\ svc = [s \in Service |-> "none"]
    /\ SCnt = [s \in Service |-> 0]
    /\ main = "setup"
    /\ k = 1

-----------------------------------------------------------------------------
(* Service_1 .. Service_7.                                                 *)

\* while(!abortSi)
ServiceCheck(s) ==
    /\ svc[s] = "check"
    /\ svc' = [svc EXCEPT ![s] = IF abort[s] THEN "done" ELSE "wait"]
    /\ UNCHANGED <<sem, abort, SCnt>>

\* Mutant: the service wants two units of its semaphore.
MutServiceRelease(s) ==
    /\ svc[s] = "wait"
    /\ sem[s] > 1
    /\ sem' = [sem EXCEPT ![s] = @ - 1]
    /\ SCnt' = [SCnt EXCEPT ![s] = @ + 1]
    /\ svc' = [svc EXCEPT ![s] = "check"]
    /\ UNCHANGED abort

\* sem_wait(&semSi); SiCnt++
ServiceRelease(s) ==
    /\ svc[s] = "wait"
    /\ sem[s] > 0
    /\ sem' = [sem EXCEPT ![s] = @ - 1]
    /\ SCnt' = [SCnt EXCEPT ![s] = @ + 1]
    /\ svc' = [svc EXCEPT ![s] = "check"]
    /\ UNCHANGED abort

-----------------------------------------------------------------------------
(* main.                                                                   *)

\* main up to the first pthread_create: sem_init for every semaphore, the policy
\* SCHED_FIFO, the attributes of the threads.
SetUp ==
    /\ main = "setup"
    /\ main' = "create"
    /\ UNCHANGED <<svars, k>>

\* A sem_init fails, or print_scheduler finds a policy other than SCHED_FIFO (the
\* process lacks the privilege): the process exits before it has any threads.
SetUpFails ==
    /\ main = "setup"
    /\ main' = "failed"
    /\ UNCHANGED <<svars, k>>

\* pthread_create of one service.  It succeeds: main tests rc < 0, which no error
\* of pthread_create is, and would go on to join a thread id that was never set.
CreateService ==
    /\ main = "create"
    /\ k \in Service
    /\ svc' = [svc EXCEPT ![k] = "check"]
    /\ k' = k + 1
    /\ UNCHANGED <<sem, abort, SCnt, main>>

\* pthread_join, one thread after the other.
Join ==
    /\ main = "join"
    /\ k \in Service => svc[k] = "done"
    /\ IF k = N THEN main' = "done" /\ UNCHANGED k ELSE k' = k + 1 /\ UNCHANGED main
    /\ UNCHANGED svars

-----------------------------------------------------------------------------
ServicesTypeOK ==
    /\ sem \in [Service -> Nat]
    /\ abort \in [Service -> BOOLEAN]
    /\ svc \in [Service -> {"none", "check", "wait", "done"}]
    /\ SCnt \in [Service -> Nat]
    /\ main \in {"setup", "failed", "create", "join", "done"}
    /\ k \in 0 .. N + 1

\* A service waits for a semaphore that holds nothing.
Blocked(s) == svc[s] = "wait" /\ sem[s] = 0
=============================================================================
