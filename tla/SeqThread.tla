----------------------------- MODULE SeqThread -----------------------------
(***************************************************************************)
(* The sequencer thread of seqgen.c, seqgen2.c and seqgenex0.c: every      *)
(* cycle it sleeps, counts, and releases each service whose divider        *)
(* divides the count; after sequencePeriods cycles it releases every       *)
(* service once more and then sets every abort flag.  None of the programs *)
(* ever sets abortTest.                                                    *)
(***************************************************************************)
EXTENDS SeqServices

CONSTANTS
    Every,             \* the divider of each service
    sequencePeriods    \* cycles to run (900, 2000, 2400)

ASSUME SequencerAssumption ==
    /\ Every \in [Service -> Nat \ {0}]
    /\ sequencePeriods \in Nat \ {0}

VARIABLES
    ex0,      \* the program is seqgenex0.c, which counts from 0, never exits and
              \* pins every thread to one core, the sequencer at the highest
              \* SCHED_FIFO priority; otherwise it is seqgen.c or seqgen2.c
    seq,      \* where the sequencer is
    pos,      \* the service it deals with next
    seqCnt,
    exited    \* the process has called exit(-1)

qvars == <<seq, pos, seqCnt, exited>>
vars == <<ex0, svars, mvars, qvars>>

Init ==
    /\ ex0 \in BOOLEAN
    /\ ServicesInit
    /\ seq = "none"
    /\ pos = 1
    /\ seqCnt = 0
    /\ exited = FALSE

-----------------------------------------------------------------------------
(* The loop.                                                               *)

\* The sleep ends; seqCnt++, which seqgenex0.c puts at the end of the cycle.
\* There an interrupted sleep is repeated, and one that fails (clock_nanosleep
\* returns a positive error number) is taken for a sleep that ended.
Wake ==
    /\ seq = "sleep"
    /\ seqCnt' = IF ex0 THEN seqCnt ELSE seqCnt + 1
    /\ seq' = "release"
    /\ pos' = 1
    /\ UNCHANGED <<svars, exited>>

\* The sleep fails or is interrupted: nanosleep returns -1, which is not EINTR,
\* and in seqgen2.c every result of clock_nanosleep but 0 makes the process exit.
SleepFails ==
    /\ seq = "sleep"
    /\ ~ex0
    /\ exited' = TRUE
    /\ UNCHANGED <<svars, seq, pos, seqCnt>>

\* Mutant: the services are released when the count is one off.
MutDue(s) == (seqCnt + 1) % Every[s] = 0

Due(s) == seqCnt % Every[s] = 0

\* if((seqCnt % Every) == 0) sem_post(&semSi), for one service after the other
Release ==
    /\ seq = "release"
    /\ pos \in Service
    /\ sem' = [sem EXCEPT ![pos] = IF Due(pos) THEN @ + 1 ELSE @]
    /\ pos' = pos + 1
    /\ UNCHANGED <<abort, svc, SCnt, seq, seqCnt, exited>>

\* while(!abortTest && (seqCnt < sequencePeriods))
LoopTest ==
    /\ seq = "release"
    /\ pos = N + 1
    /\ seqCnt' = IF ex0 THEN seqCnt + 1 ELSE seqCnt
    /\ seq' = IF seqCnt' < sequencePeriods THEN "sleep" ELSE "post"
    /\ pos' = 1
    /\ UNCHANGED <<svars, exited>>

-----------------------------------------------------------------------------
(* The shutdown: one sem_post per service, then one flag per service.      *)

\* Mutant: the last service is not posted.
MutShutdownPost ==
    /\ seq = "post"
    /\ sem' = [sem EXCEPT ![pos] = IF pos = N THEN @ ELSE @ + 1]
    /\ IF pos = N THEN seq' = "abort" /\ pos' = 1 ELSE pos' = pos + 1 /\ UNCHANGED seq
    /\ UNCHANGED <<abort, svc, SCnt, seqCnt, exited>>

ShutdownPost ==
    /\ seq = "post"
    /\ sem' = [sem EXCEPT ![pos] = @ + 1]
    /\ IF pos = N THEN seq' = "abort" /\ pos' = 1 ELSE pos' = pos + 1 /\ UNCHANGED seq
    /\ UNCHANGED <<abort, svc, SCnt, seqCnt, exited>>

\* Mutant: the last flag is not set.
MutShutdownAbort ==
    /\ seq = "abort"
    /\ abort' = [abort EXCEPT ![pos] = pos # N]
    /\ IF pos = N THEN seq' = "done" /\ pos' = 1 ELSE pos' = pos + 1 /\ UNCHANGED seq
    /\ UNCHANGED <<sem, svc, SCnt, seqCnt, exited>>

ShutdownAbort ==
    /\ seq = "abort"
    /\ abort' = [abort EXCEPT ![pos] = TRUE]
    /\ IF pos = N THEN seq' = "done" /\ pos' = 1 ELSE pos' = pos + 1 /\ UNCHANGED seq
    /\ UNCHANGED <<sem, svc, SCnt, seqCnt, exited>>

Sequencer ==
    /\ ~exited
    /\ Wake \/ SleepFails \/ Release \/ LoopTest \/ ShutdownPost \/ ShutdownAbort
    /\ UNCHANGED <<ex0, mvars>>

-----------------------------------------------------------------------------
(* The other threads.                                                      *)

\* In seqgenex0.c a service only runs while the sequencer is not runnable.
MayRun == ex0 => seq \in {"none", "sleep", "done"}

ServiceStep(s) ==
    /\ ~exited
    /\ MayRun
    /\ ServiceCheck(s) \/ ServiceRelease(s)
    /\ UNCHANGED <<ex0, mvars, qvars>>

SetUpStep == (SetUp \/ SetUpFails) /\ UNCHANGED qvars

\* The sequencer is the last thread to be created, and threads[0].
StartSequencer ==
    /\ main = "create"
    /\ k = N + 1
    /\ seq' = "sleep"
    /\ main' = "join"
    /\ k' = 0
    /\ UNCHANGED <<svars, pos, seqCnt, exited>>

MainStep ==
    /\ ~exited
    /\ \/ SetUpStep
       \/ CreateService /\ UNCHANGED qvars
       \/ StartSequencer
       \/ (k = 0 => seq = "done") /\ Join /\ UNCHANGED qvars
    /\ UNCHANGED ex0

\* The process is gone: joined and returned from main, or exited.
Ended == (main \in {"done", "failed"} \/ exited) /\ UNCHANGED vars

Next == Sequencer \/ (\E s \in Service : ServiceStep(s)) \/ MainStep \/ Ended

Spec == Init /\ [][Next]_vars

\* Every thread that can run eventually does; a sleep ends or fails.
FairSpec ==
    /\ Spec
    /\ WF_vars(Sequencer)
    /\ \A s \in Service : WF_vars(ServiceStep(s))
    /\ WF_vars(MainStep)

-----------------------------------------------------------------------------
(* Properties.                                                             *)

TypeOK ==
    /\ ex0 \in BOOLEAN
    /\ ServicesTypeOK
    /\ seq \in {"none", "sleep", "release", "post", "abort", "done"}
    /\ pos \in 1 .. N + 1
    /\ seq \in {"post", "abort"} => pos \in Service
    /\ seqCnt \in 0 .. sequencePeriods
    /\ exited \in BOOLEAN

\* The cycles in which service s has been considered so far.
CyclesSeen(s) ==
    IF seq # "release" THEN seqCnt
    ELSE IF ex0 THEN (IF pos > s THEN seqCnt + 1 ELSE seqCnt)
    ELSE (IF pos > s THEN seqCnt ELSE seqCnt - 1)

\* The releases that n cycles bring: every Every[s]-th cycle, and in
\* seqgenex0.c the first cycle already.
Releases(n, s) ==
    IF ~ex0 THEN n \div Every[s]
    ELSE IF n = 0 THEN 0 ELSE ((n - 1) \div Every[s]) + 1

\* The shutdown has posted semaphore s.
ShutdownPosted(s) == seq \in {"abort", "done"} \/ (seq = "post" /\ pos > s)

\* No release is lost or duplicated between the sequencer and the services:
\* what service s has answered and what its semaphore still holds add up to one
\* release per Every[s] cycles, and one more from the shutdown.
ReleasesAccounted ==
    \A s \in Service :
        sem[s] + SCnt[s] =
            Releases(CyclesSeen(s), s) + (IF ShutdownPosted(s) THEN 1 ELSE 0)

\* Every release is answered, however far the sequencer is ahead, except those
\* that a service leaves behind when it finds its abort flag set.
ReleaseIsAnswered ==
    \A s \in Service : sem[s] > 0 ~> (sem[s] = 0 \/ svc[s] = "done" \/ exited)

\* Once the sequencer has ended, no service waits for a semaphore that nobody
\* will post again, so every thread can be joined.
NoServiceStranded == seq = "done" => \A s \in Service : ~Blocked(s)

\* With every thread on one core the shutdown of seqgenex0.c strands no service,
\* although it posts the semaphores before it sets the flags.
NoneStrandedOnOneCore == ex0 => NoServiceStranded

\* seqgenex0.c comes to its end: every thread is joined and main prints TEST
\* COMPLETE, unless its set-up has failed.
Termination == ex0 => <>(main \in {"done", "failed"})
=============================================================================
