-------------------------- MODULE SeqThreadProofs --------------------------
(***************************************************************************)
(* Proofs about the sequencer thread of seqgen.c, seqgen2.c and            *)
(* seqgenex0.c, for every number of services, dividers and cycles.         *)
(***************************************************************************)
EXTENDS SeqThread, TLAPS

USE ServicesAssumption, SequencerAssumption

-----------------------------------------------------------------------------
(* Type correctness.                                                       *)

\* A cycle only starts below sequencePeriods, the sequencer is the last thread
\* that main creates, and main joins the threads in its array.
ControlInv ==
    /\ seq \in {"none", "sleep"} => seqCnt < sequencePeriods
    /\ (ex0 /\ seq = "release") => seqCnt < sequencePeriods
    /\ main \in {"setup", "create"} => seq = "none"
    /\ main = "join" => k \in 0 .. N

\* The program does not change.
LEMMA SameProgram == [Next]_vars => ex0' = ex0
BY DEF Next, Sequencer, ServiceStep, MainStep, Ended, vars

\* The program starts well-typed.
LEMMA InitType == Init => TypeOK /\ ControlInv
<1> SUFFICES ASSUME Init PROVE TypeOK /\ ControlInv
  OBVIOUS
<1>1. sem \in [Service -> Nat] /\ SCnt \in [Service -> Nat]
  BY DEF Init, ServicesInit
<1>2. abort \in [Service -> BOOLEAN]
  BY Zenon DEF Init, ServicesInit
<1>3. svc \in [Service -> {"none", "check", "wait", "done"}]
  BY DEF Init, ServicesInit
<1>4. pos \in 1 .. N + 1 /\ k \in 0 .. N + 1 /\ seqCnt \in 0 .. sequencePeriods
  BY DEF Init, ServicesInit
<1>5. ControlInv
  BY DEF Init, ServicesInit, ControlInv
<1> HIDE ServicesAssumption, SequencerAssumption
<1>6. ex0 \in BOOLEAN /\ seq = "none" /\ main = "setup" /\ exited = FALSE
  BY Zenon DEF Init, ServicesInit
<1>7. TypeOK
  BY <1>1, <1>2, <1>3, <1>4, <1>6 DEF TypeOK, ServicesTypeOK
<1> QED BY <1>5, <1>7

\* Every step of a thread keeps the types and ControlInv.
LEMMA NextType == TypeOK /\ ControlInv /\ [Next]_vars => TypeOK' /\ ControlInv'
<1> SUFFICES ASSUME TypeOK, ControlInv, [Next]_vars PROVE TypeOK' /\ ControlInv'
  OBVIOUS
<1>0. ex0' = ex0
  BY SameProgram
<1> USE <1>0
<1> USE DEF TypeOK, ServicesTypeOK
<1>1. CASE Sequencer
  <2>1. CASE Wake
    BY <1>1, <2>1 DEF Sequencer, Wake, svars, mvars, ControlInv
  <2>2. CASE SleepFails
    BY <1>1, <2>2 DEF Sequencer, SleepFails, svars, mvars, ControlInv
  <2>3. CASE Release
    <3>1. sem' \in [Service -> Nat] /\ pos' \in 1 .. N + 1
      BY <2>3, SMTT(20) DEF Release, Service
    <3>2. ControlInv'
      BY <1>1, <2>3 DEF Sequencer, Release, mvars, ControlInv
    <3> QED BY <1>1, <2>3, <3>1, <3>2 DEF Sequencer, Release, mvars
  <2>4. CASE LoopTest
    BY <1>1, <2>4 DEF Sequencer, LoopTest, svars, mvars, Service, ControlInv
  <2>5. CASE ShutdownPost \/ ShutdownAbort
    <3>1. ControlInv'
      BY <1>1, <2>5 DEF Sequencer, ShutdownPost, ShutdownAbort, mvars, ControlInv
    <3>2. pos' \in Service /\ seq' \in {"post", "abort", "done"}
      <4>1. pos \in 1 .. N /\ N \in Nat \ {0}
        BY <2>5, ServicesAssumption DEF ShutdownPost, ShutdownAbort, Service
      <4>2. CASE pos = N
        BY <2>5, <4>1, <4>2 DEF ShutdownPost, ShutdownAbort, Service
      <4>3. CASE pos # N
        <5>1. pos' = pos + 1 /\ seq' = seq
          BY <2>5, <4>3 DEF ShutdownPost, ShutdownAbort
        <5> QED BY <2>5, <4>1, <4>3, <5>1 DEF ShutdownPost, ShutdownAbort, Service
      <4> QED BY <4>2, <4>3
    <3>3. pos' \in 1 .. N + 1
      BY <3>2 DEF Service
    <3>4. sem' \in [Service -> Nat] /\ abort' \in [Service -> BOOLEAN]
      <4>1. CASE ShutdownPost
        BY <4>1 DEF ShutdownPost
      <4>2. CASE ShutdownAbort
        <5>1. sem' = sem /\ abort' = [abort EXCEPT ![pos] = TRUE]
          BY <4>2 DEF ShutdownAbort
        <5>2. abort' \in [Service -> BOOLEAN]
          BY <5>1, Zenon
        <5> QED BY <5>1, <5>2
      <4> QED BY <2>5, <4>1, <4>2
    <3>5. UNCHANGED <<svc, SCnt, main, k, exited, seqCnt>>
      BY <1>1, <2>5 DEF Sequencer, ShutdownPost, ShutdownAbort, mvars
    <3> QED BY <3>1, <3>2, <3>3, <3>4, <3>5
  <2> QED BY <1>1, <2>1, <2>2, <2>3, <2>4, <2>5 DEF Sequencer
<1>2. ASSUME NEW s \in Service, ServiceStep(s)
      PROVE  TypeOK' /\ ControlInv'
  <2>1. ControlInv'
    BY <1>2 DEF ServiceStep, mvars, qvars, ControlInv
  <2>2. CASE ServiceCheck(s)
    BY <1>2, <2>1, <2>2 DEF ServiceStep, ServiceCheck, mvars, qvars
  <2>3. CASE ServiceRelease(s)
    BY <1>2, <2>1, <2>3 DEF ServiceStep, ServiceRelease, mvars, qvars
  <2> QED BY <1>2, <2>2, <2>3 DEF ServiceStep
<1>3. CASE MainStep
  <2> USE DEF ControlInv
  <2>0. CASE SetUpStep
    BY <2>0 DEF SetUpStep, SetUp, SetUpFails, svars, qvars
  <2>1. CASE CreateService /\ UNCHANGED qvars
    BY <2>1 DEF CreateService, Service, qvars
  <2>2. CASE StartSequencer
    BY <2>2 DEF StartSequencer, svars
  <2>3. CASE Join /\ UNCHANGED qvars
    BY <2>3, SMTT(20) DEF Join, svars, Service, qvars
  <2> QED BY <1>3, <2>0, <2>1, <2>2, <2>3 DEF MainStep
<1>4. CASE Ended \/ UNCHANGED vars
  BY <1>4 DEF Ended, vars, svars, mvars, qvars, ControlInv
<1> QED BY <1>1, <1>2, <1>3, <1>4 DEF Next

\* ControlInv holds in every state.
LEMMA ControlInvariant == Spec => []ControlInv
<1>1. Init => TypeOK /\ ControlInv
  BY InitType
<1>2. TypeOK /\ ControlInv /\ [Next]_vars => TypeOK' /\ ControlInv'
  BY NextType
<1> QED BY <1>1, <1>2, PTL DEF Spec

\* The semaphores never go below zero, the count stays within sequencePeriods,
\* and every thread is where its program can be.
THEOREM TypeCorrect == Spec => []TypeOK
<1>1. Init => TypeOK /\ ControlInv
  BY InitType
<1>2. TypeOK /\ ControlInv /\ [Next]_vars => TypeOK' /\ ControlInv'
  BY NextType
<1> QED BY <1>1, <1>2, PTL DEF Spec

-----------------------------------------------------------------------------
(* Shutdown on one core.                                                   *)

\* The services stand still while the sequencer posts and sets the flags.  A
\* service that waits after the post of its semaphore has a unit to take, and
\* when it has taken it every flag is set.
ShutdownInv ==
    /\ \A s \in Service : (ShutdownPosted(s) /\ svc[s] = "wait") => sem[s] > 0
    /\ seq = "abort" => \A s \in Service : s < pos => abort[s]
    /\ seq = "done" => \A s \in Service : abort[s]

\* No shutdown is under way when the program starts.
LEMMA InitShutdownInv == Init => ShutdownInv
BY DEF Init, ServicesInit, ShutdownInv, ShutdownPosted

\* With ex0 every step keeps ShutdownInv.
LEMMA NextShutdownInv ==
    TypeOK /\ ControlInv /\ (ex0 => ShutdownInv) /\ [Next]_vars => (ex0 => ShutdownInv)'
<1> SUFFICES ASSUME TypeOK, ControlInv, ex0 => ShutdownInv, [Next]_vars, ex0'
             PROVE  ShutdownInv'
  OBVIOUS
<1>0. ex0 /\ ShutdownInv
  BY SameProgram
<1> USE <1>0
<1> USE DEF TypeOK, ServicesTypeOK, ShutdownInv, ShutdownPosted
<1>1. CASE Wake \/ SleepFails \/ Release \/ LoopTest
  <2>1. CASE Wake
    BY <2>1 DEF Wake
  <2>2. CASE SleepFails
    BY <2>2 DEF SleepFails, svars
  <2>3. CASE Release
    BY <2>3 DEF Release
  <2>4. CASE LoopTest
    BY <2>4 DEF LoopTest, Service
  <2> QED BY <1>1, <2>1, <2>2, <2>3, <2>4
<1>2. CASE ShutdownPost \/ ShutdownAbort
  <2>1. CASE ShutdownPost
    <3>1. \A s \in Service : s # pos => sem'[s] = sem[s]
      BY <2>1 DEF ShutdownPost
    <3>2. sem'[pos] > 0
      BY <2>1 DEF ShutdownPost
    <3>3. ASSUME NEW s \in Service, ShutdownPosted(s)', s # pos
          PROVE  ShutdownPosted(s)
      <4>1. seq = "post" /\ pos \in Service /\ s \in 1 .. N
        BY <2>1 DEF ShutdownPost, Service
      <4>2. CASE pos = N
        BY <3>3, <4>1, <4>2
      <4>3. CASE pos # N
        <5>1. seq' = "post" /\ pos' = pos + 1
          BY <2>1, <4>3 DEF ShutdownPost
        <5> QED BY <3>3, <4>1, <5>1 DEF Service
      <4> QED BY <4>2, <4>3
    <3>4. seq' = "abort" => pos' = 1
      BY <2>1 DEF ShutdownPost
    <3>5. seq' # "done" /\ svc' = svc
      BY <2>1 DEF ShutdownPost
    <3>6. ASSUME NEW s \in Service, ShutdownPosted(s)', svc'[s] = "wait"
          PROVE  sem'[s] > 0
      <4>1. CASE s = pos
        BY <4>1, <3>2
      <4>2. CASE s # pos
        BY <4>2, <3>1, <3>3, <3>5, <3>6
      <4> QED BY <4>1, <4>2
    <3>7. seq' = "abort" => \A s \in Service : s < pos' => abort'[s]
      BY <3>4 DEF Service
    <3> QED BY <3>5, <3>6, <3>7
  <2>2. CASE ShutdownAbort
    BY <2>2, SMTT(20) DEF ShutdownAbort, Service
  <2> QED BY <1>2, <2>1, <2>2
<1>3. ASSUME NEW s \in Service, ServiceStep(s)
      PROVE  ShutdownInv'
  <2>1. seq \in {"none", "sleep", "done"} /\ UNCHANGED <<seq, pos>>
    BY <1>3 DEF ServiceStep, MayRun, qvars
  <2>2. CASE ServiceCheck(s)
    BY <2>1, <2>2 DEF ServiceCheck
  <2>3. CASE ServiceRelease(s)
    BY <2>1, <2>3 DEF ServiceRelease
  <2> QED BY <1>3, <2>2, <2>3 DEF ServiceStep
<1>4. CASE MainStep
  <2>0. CASE SetUpStep
    BY <2>0 DEF SetUpStep, SetUp, SetUpFails, svars, qvars
  <2>1. CASE CreateService /\ UNCHANGED qvars
    BY <2>1 DEF CreateService, ControlInv, qvars
  <2>2. CASE StartSequencer
    BY <2>2 DEF StartSequencer
  <2>3. CASE Join /\ UNCHANGED qvars
    BY <2>3 DEF Join, svars, qvars
  <2> QED BY <1>4, <2>0, <2>1, <2>2, <2>3 DEF MainStep
<1>5. CASE UNCHANGED vars
  BY <1>5 DEF vars, svars, qvars
<1> QED BY <1>1, <1>2, <1>3, <1>4, <1>5 DEF Next, Sequencer, Ended

\* On one core, where the sequencer has the highest priority, the shutdown
\* strands no service, although it posts the semaphores before it sets the
\* flags, for any number of services and cycles.  (On several cores it does.)
THEOREM OneCoreShutdown == Spec => []NoneStrandedOnOneCore
<1>1. Init => (ex0 => ShutdownInv)
  BY InitShutdownInv
<1>2. TypeOK /\ ControlInv /\ (ex0 => ShutdownInv) /\ [Next]_vars => (ex0 => ShutdownInv)'
  BY NextShutdownInv
<1>3. TypeOK /\ (ex0 => ShutdownInv) => NoneStrandedOnOneCore
  BY DEF TypeOK, ServicesTypeOK, ShutdownInv, ShutdownPosted, NoneStrandedOnOneCore,
         NoServiceStranded, Blocked
<1> QED BY <1>1, <1>2, <1>3, TypeCorrect, ControlInvariant, PTL DEF Spec

-----------------------------------------------------------------------------
(* Releases.                                                               *)

\* Counting one further cycle adds a release exactly when the divider divides
\* the new count.
LEMMA OneMoreCycle ==
    ASSUME NEW n \in Nat, NEW d \in Nat \ {0}
    PROVE  (n + 1) \div d = (n \div d) + (IF (n + 1) % d = 0 THEN 1 ELSE 0)
OBVIOUS

\* One further cycle brings a release exactly when the count that the cycle
\* tests, n + 1 or in seqgenex0.c n, is a multiple of the divider.
LEMMA OneMoreRelease ==
    ASSUME NEW n \in Nat, NEW s \in Service
    PROVE  /\ Releases(n, s) \in Int
           /\ Releases(n + 1, s) = Releases(n, s)
                + (IF (IF ex0 THEN n ELSE n + 1) % Every[s] = 0 THEN 1 ELSE 0)
<1> DEFINE d == Every[s]
<1>1. d \in Nat \ {0}
  OBVIOUS
<1> HIDE DEF d
<1>2. CASE ~ex0
  <2>1. (n + 1) \div d = (n \div d) + (IF (n + 1) % d = 0 THEN 1 ELSE 0)
    BY <1>1, OneMoreCycle
  <2>2. n \div d \in Int
    BY <1>1
  <2> QED BY <1>2, <2>1, <2>2 DEF Releases, d
<1>3. CASE ex0 /\ n = 0
  <2>1. 0 \div d = 0 /\ 0 % d = 0
    BY <1>1
  <2> QED BY <1>3, <2>1 DEF Releases, d
<1>4. CASE ex0 /\ n # 0
  <2>1. n - 1 \in Nat /\ (n - 1) + 1 = n
    BY <1>4
  <2>2. n \div d = ((n - 1) \div d) + (IF n % d = 0 THEN 1 ELSE 0)
    BY <1>1, <2>1, OneMoreCycle
  <2>3. (n - 1) \div d \in Int
    BY <1>1, <2>1
  <2> QED BY <1>4, <2>2, <2>3 DEF Releases, d
<1> QED BY <1>2, <1>3, <1>4

\* A cycle that releases has been counted, except in seqgenex0.c.
CountInv == ReleasesAccounted /\ ((seq = "release" /\ ~ex0) => seqCnt > 0)

\* ReleasesAccounted for one service.
Balanced(s) ==
    sem[s] + SCnt[s] =
        Releases(CyclesSeen(s), s) + (IF ShutdownPosted(s) THEN 1 ELSE 0)

\* Nothing is owed before the first cycle.
LEMMA InitCountInv == Init => CountInv
<1> SUFFICES ASSUME Init PROVE CountInv
  OBVIOUS
<1>1. seq = "none" /\ seqCnt = 0
  BY DEF Init
<1>2. ASSUME NEW s \in Service PROVE Balanced(s)
  <2>1. sem[s] = 0 /\ SCnt[s] = 0 /\ Every[s] \in Nat \ {0}
    BY DEF Init, ServicesInit
  <2>2. CyclesSeen(s) = 0 /\ ~ShutdownPosted(s)
    BY <1>1 DEF CyclesSeen, ShutdownPosted
  <2>3. 0 \div Every[s] = 0
    BY <2>1
  <2>4. Releases(0, s) = 0
    BY <2>3 DEF Releases
  <2> QED BY <2>1, <2>2, <2>4 DEF Balanced
<1> QED BY <1>1, <1>2 DEF CountInv, ReleasesAccounted, Balanced

\* Every step keeps the sum of each service right.
LEMMA NextCountInv ==
    TypeOK /\ TypeOK' /\ ControlInv /\ CountInv /\ [Next]_vars => CountInv'
<1> SUFFICES ASSUME TypeOK, TypeOK', ControlInv, CountInv, [Next]_vars PROVE CountInv'
  OBVIOUS
<1>p. ex0' = ex0
  BY SameProgram
<1> USE <1>p
<1> USE DEF TypeOK, ServicesTypeOK
<1>0. \A s \in Service : Balanced(s)
  BY DEF CountInv, ReleasesAccounted, Balanced
<1>a. SUFFICES (\A s \in Service : Balanced(s)') /\ ((seq' = "release" /\ ~ex0) => seqCnt' > 0)
  BY DEF CountInv, ReleasesAccounted, Balanced
\* Nothing that the sum depends on has changed.
<1>b. ASSUME UNCHANGED <<sem, SCnt>>,
             \A s \in Service : CyclesSeen(s)' = CyclesSeen(s),
             \A s \in Service : ShutdownPosted(s)' = ShutdownPosted(s)
      PROVE  \A s \in Service : Balanced(s)'
  BY <1>0, <1>b DEF Balanced, Releases
<1>1. CASE Wake
  <2>1. UNCHANGED <<sem, SCnt>> /\ seq = "sleep" /\ seq' = "release" /\ pos' = 1
        /\ seqCnt' = IF ex0 THEN seqCnt ELSE seqCnt + 1
    BY <1>1 DEF Wake, svars
  <2>2. ASSUME NEW s \in Service PROVE CyclesSeen(s)' = CyclesSeen(s)
    BY <2>1 DEF CyclesSeen, Service
  <2>3. ASSUME NEW s \in Service PROVE ShutdownPosted(s)' = ShutdownPosted(s)
    BY <2>1 DEF ShutdownPosted
  <2> QED BY <1>b, <2>1, <2>2, <2>3
<1>2. CASE Release
  <2>1. /\ seq = "release" /\ seq' = "release" /\ pos \in Service /\ pos' = pos + 1
        /\ SCnt' = SCnt /\ seqCnt' = seqCnt /\ (~ex0 => seqCnt > 0)
    BY <1>2 DEF Release, CountInv
  <2>2. ASSUME NEW s \in Service, s # pos PROVE Balanced(s)'
    <3>1. sem'[s] = sem[s]
      BY <1>2, <2>2 DEF Release
    <3>2. CyclesSeen(s)' = CyclesSeen(s)
      BY <2>1, <2>2 DEF CyclesSeen, Service
    <3>3. ShutdownPosted(s)' = ShutdownPosted(s)
      BY <2>1 DEF ShutdownPosted
    <3> QED BY <1>0, <2>1, <3>1, <3>2, <3>3 DEF Balanced, Releases
  <2>3. ASSUME NEW s \in Service, s = pos PROVE Balanced(s)'
    <3> DEFINE n == CyclesSeen(s)
               inc == IF seqCnt % Every[s] = 0 THEN 1 ELSE 0
    <3>1. n = (IF ex0 THEN seqCnt ELSE seqCnt - 1) /\ CyclesSeen(s)' = n + 1
      BY <2>1, <2>3 DEF CyclesSeen, Service
    <3>2. n \in Nat /\ (IF ex0 THEN n ELSE n + 1) = seqCnt
      BY <2>1, <3>1
    <3>3. ~ShutdownPosted(s) /\ ~ShutdownPosted(s)'
      BY <2>1 DEF ShutdownPosted
    <3>4. sem[s] \in Nat /\ SCnt[s] \in Nat /\ SCnt'[s] = SCnt[s]
      BY <2>1
    <3>5. sem'[s] = sem[s] + inc
      BY <1>2, <2>3, <3>4 DEF Release, Due
    <3>6. Balanced(s)
      BY <1>0
    <3> HIDE DEF n, inc
    <3>7. Releases(n, s) \in Int /\ Releases(n + 1, s) = Releases(n, s) + inc
      BY <3>2, OneMoreRelease DEF inc
    <3>8. sem[s] + SCnt[s] = Releases(n, s) + 0
      BY <3>3, <3>6 DEF Balanced, n
    <3>9. inc \in Nat
      BY DEF inc
    <3>10. sem'[s] + SCnt'[s] = Releases(n + 1, s) + 0
      BY <3>4, <3>5, <3>7, <3>8, <3>9
    <3> QED BY <3>1, <3>3, <3>10 DEF Balanced, Releases
  <2> QED BY <2>1, <2>2, <2>3
<1>3. CASE LoopTest
  <2>1. /\ UNCHANGED <<sem, SCnt>> /\ seq = "release" /\ pos = N + 1
        /\ seqCnt' = (IF ex0 THEN seqCnt + 1 ELSE seqCnt)
        /\ seq' \in {"sleep", "post"} /\ pos' = 1
    BY <1>3 DEF LoopTest, svars
  <2>2. ASSUME NEW s \in Service PROVE CyclesSeen(s)' = CyclesSeen(s)
    BY <2>1 DEF CyclesSeen, Service
  <2>3. ASSUME NEW s \in Service PROVE ShutdownPosted(s)' = ShutdownPosted(s)
    BY <2>1 DEF ShutdownPosted, Service
  <2> QED BY <1>b, <2>1, <2>2, <2>3
<1>4. CASE ShutdownPost
  <2>1. /\ seq = "post" /\ pos \in Service /\ SCnt' = SCnt /\ seqCnt' = seqCnt
        /\ \/ pos = N /\ seq' = "abort" /\ pos' = 1
           \/ pos # N /\ seq' = "post" /\ pos' = pos + 1
    BY <1>4 DEF ShutdownPost
  <2>2. ASSUME NEW s \in Service PROVE CyclesSeen(s)' = CyclesSeen(s)
    BY <2>1 DEF CyclesSeen
  <2>3. ASSUME NEW s \in Service, s # pos PROVE Balanced(s)'
    <3>1. sem'[s] = sem[s]
      BY <1>4, <2>3 DEF ShutdownPost
    <3>2. ShutdownPosted(s)' = ShutdownPosted(s)
      BY <2>1, <2>3 DEF ShutdownPosted, Service
    <3> QED BY <1>0, <2>1, <2>2, <3>1, <3>2 DEF Balanced, Releases
  <2>4. ASSUME NEW s \in Service, s = pos PROVE Balanced(s)'
    <3>1. sem'[s] = sem[s] + 1
      BY <1>4, <2>4 DEF ShutdownPost
    <3>2. ~ShutdownPosted(s) /\ ShutdownPosted(s)'
      BY <2>1, <2>4 DEF ShutdownPosted, Service
    <3> DEFINE q == Releases(CyclesSeen(s), s)
    <3>3. q \in Int
      BY <2>1, OneMoreRelease DEF CyclesSeen
    <3>4. sem[s] + SCnt[s] = q + 0
      BY <1>0, <3>2 DEF Balanced, Releases
    <3>5. sem[s] \in Nat /\ SCnt[s] \in Nat
      OBVIOUS
    <3>6. q' = q
      BY <2>2 DEF Releases
    <3> HIDE DEF q
    <3>7. sem'[s] + SCnt'[s] = q + 1
      BY <2>1, <3>1, <3>3, <3>4, <3>5
    <3> QED BY <3>2, <3>6, <3>7 DEF Balanced, q
  <2> QED BY <2>1, <2>3, <2>4
<1>5. CASE ShutdownAbort
  <2>1. /\ UNCHANGED <<sem, SCnt, seqCnt>> /\ seq = "abort" /\ seq' \in {"abort", "done"}
    BY <1>5 DEF ShutdownAbort
  <2>2. ASSUME NEW s \in Service PROVE CyclesSeen(s)' = CyclesSeen(s)
    BY <2>1 DEF CyclesSeen
  <2>3. ASSUME NEW s \in Service PROVE ShutdownPosted(s)' = ShutdownPosted(s)
    BY <2>1 DEF ShutdownPosted
  <2> QED BY <1>b, <2>1, <2>2, <2>3
<1>6. ASSUME NEW t \in Service, ServiceStep(t)
      PROVE  (\A s \in Service : Balanced(s)') /\ ((seq' = "release" /\ ~ex0) => seqCnt' > 0)
  <2>1. UNCHANGED <<seq, pos, seqCnt>>
    BY <1>6 DEF ServiceStep, qvars
  <2>2. ASSUME NEW s \in Service
        PROVE  CyclesSeen(s)' = CyclesSeen(s) /\ ShutdownPosted(s)' = ShutdownPosted(s)
    BY <2>1 DEF CyclesSeen, ShutdownPosted
  <2>3. ASSUME NEW s \in Service PROVE sem'[s] + SCnt'[s] = sem[s] + SCnt[s]
    <3>1. CASE ServiceCheck(t)
      BY <3>1 DEF ServiceCheck
    <3>2. CASE ServiceRelease(t)
      BY <3>2 DEF ServiceRelease
    <3> QED BY <1>6, <3>1, <3>2 DEF ServiceStep
  <2>4. \A s \in Service : Balanced(s)'
    BY <1>0, <2>2, <2>3 DEF Balanced, Releases
  <2> QED BY <2>1, <2>4 DEF CountInv
<1>7. CASE MainStep
  <2>1. UNCHANGED <<sem, SCnt, pos, seqCnt>>
    BY <1>7 DEF MainStep, SetUpStep, SetUp, SetUpFails, CreateService, StartSequencer, Join,
       svars, qvars
  <2>2. seq' = seq \/ (seq = "none" /\ seq' = "sleep")
    BY <1>7 DEF MainStep, SetUpStep, SetUp, SetUpFails, CreateService, StartSequencer, Join,
       qvars, ControlInv
  <2>3. ASSUME NEW s \in Service
        PROVE  CyclesSeen(s)' = CyclesSeen(s) /\ ShutdownPosted(s)' = ShutdownPosted(s)
    BY <2>1, <2>2 DEF CyclesSeen, ShutdownPosted
  <2> QED BY <1>b, <2>1, <2>2, <2>3 DEF CountInv
<1>8. CASE SleepFails \/ Ended \/ UNCHANGED vars
  <2>1. UNCHANGED <<sem, SCnt, seq, pos, seqCnt>>
    BY <1>8 DEF SleepFails, Ended, vars, svars, qvars
  <2>2. ASSUME NEW s \in Service
        PROVE  CyclesSeen(s)' = CyclesSeen(s) /\ ShutdownPosted(s)' = ShutdownPosted(s)
    BY <2>1 DEF CyclesSeen, ShutdownPosted
  <2> QED BY <1>b, <2>1, <2>2 DEF CountInv
<1> QED BY <1>1, <1>2, <1>3, <1>4, <1>5, <1>6, <1>7, <1>8
       DEF Next, Sequencer

\* No release is lost or duplicated, for any number of services, any dividers and
\* any number of cycles, however the services lag behind the sequencer and
\* however the threads interleave: what a service answered and what its semaphore
\* holds is what the sequencer posted.
THEOREM ReleasesAddUp == Spec => []ReleasesAccounted
<1>1. Init => CountInv
  BY InitCountInv
<1>2. TypeOK /\ TypeOK' /\ ControlInv /\ CountInv /\ [Next]_vars => CountInv'
  BY NextCountInv
<1>3. CountInv => ReleasesAccounted
  BY DEF CountInv
<1> QED BY <1>1, <1>2, <1>3, TypeCorrect, ControlInvariant, PTL DEF Spec

-----------------------------------------------------------------------------
(* The end of the program, on any number of cores.                         *)

\* A service thread ends only for its flag, which is set only after the last cycle
\* and after every post; main joins the sequencer first, then the services.
EndInv ==
    /\ \A s \in Service : svc[s] = "done" => abort[s]
    /\ \A s \in Service : abort[s] => seq \in {"abort", "done"}
    /\ seq \in {"post", "abort", "done"} => seqCnt = sequencePeriods
    /\ main = "join" => /\ k > 0 => seq = "done"
                        /\ \A s \in Service : s < k => svc[s] = "done"
    /\ main = "done" => seq = "done" /\ \A s \in Service : svc[s] = "done"

\* main prints TEST COMPLETE only when every thread has ended, and no service ends
\* before the sequencer has run all its cycles and posted every semaphore.
EndsInOrder ==
    /\ main = "done" => seq = "done" /\ \A s \in Service : svc[s] = "done"
    /\ \A s \in Service :
           svc[s] = "done" => seqCnt = sequencePeriods /\ ShutdownPosted(s)

\* A service that the shutdown strands (which it can on several cores) has left no
\* work behind: it has answered all its releases and the shutdown's.
StrandedHaveAnswered ==
    \A s \in Service :
        seq = "done" /\ Blocked(s) => SCnt[s] = Releases(sequencePeriods, s) + 1

\* Every step keeps EndInv.
LEMMA NextEndInv ==
    ASSUME TypeOK, ControlInv, EndInv, [Next]_vars
    PROVE  EndInv'
<1>0. /\ N \in Nat \ {0} /\ k \in 0 .. N + 1 /\ seqCnt \in 0 .. sequencePeriods
      /\ sequencePeriods \in Nat
      /\ svc \in [Service -> {"none", "check", "wait", "done"}]
      /\ abort \in [Service -> BOOLEAN]
  BY ServicesAssumption, SequencerAssumption DEF TypeOK, ServicesTypeOK
<1>1. CASE Sequencer
  <2>0. UNCHANGED <<main, k, svc>>
    BY <1>1 DEF Sequencer, mvars, svars, Wake, SleepFails, Release, LoopTest, ShutdownPost,
                ShutdownAbort
  <2>1. CASE Wake \/ SleepFails \/ Release
    BY <2>0, <2>1 DEF Wake, SleepFails, Release, svars, EndInv
  <2>2. CASE LoopTest
    <3>1. /\ UNCHANGED abort /\ seq = "release" /\ seq' \in {"sleep", "post"}
          /\ seq' = "post" => ~(seqCnt' < sequencePeriods)
          /\ seqCnt' \in 0 .. sequencePeriods
      BY <1>0, <2>2 DEF LoopTest, svars, ControlInv
    <3>2. seq' = "post" => seqCnt' = sequencePeriods
      BY <1>0, <3>1
    <3> QED BY <2>0, <3>1, <3>2 DEF EndInv
  <2>3. CASE ShutdownPost
    <3>1. seq = "post" /\ seq' \in {"post", "abort"} /\ UNCHANGED <<abort, seqCnt>>
      BY <2>3 DEF ShutdownPost
    <3> QED BY <2>0, <3>1 DEF EndInv
  <2>4. CASE ShutdownAbort
    <3>1. /\ seq = "abort" /\ seq' \in {"abort", "done"} /\ UNCHANGED seqCnt
          /\ abort' = [abort EXCEPT ![pos] = TRUE]
      BY <2>4 DEF ShutdownAbort
    <3>2. \A s \in Service : abort[s] => abort'[s]
      BY <1>0, <3>1, Zenon
    <3> QED BY <2>0, <3>1, <3>2 DEF EndInv
  <2> QED BY <1>1, <2>1, <2>2, <2>3, <2>4 DEF Sequencer
<1>2. ASSUME NEW t \in Service, ServiceStep(t) PROVE EndInv'
  <2>1. /\ UNCHANGED <<main, k, seq, seqCnt, abort>>
        /\ svc[t] # "done"
        /\ \A s \in Service \ {t} : svc'[s] = svc[s]
        /\ svc'[t] = "done" => abort[t]
    BY <1>0, <1>2 DEF ServiceStep, ServiceCheck, ServiceRelease, mvars, qvars
  <2> QED BY <2>1 DEF EndInv
<1>3. CASE MainStep
  <2>1. CASE SetUpStep
    BY <2>1 DEF SetUpStep, SetUp, SetUpFails, svars, qvars, EndInv
  <2>2. CASE CreateService /\ UNCHANGED qvars
    <3>1. /\ main = "create" /\ main' = "create" /\ UNCHANGED <<abort, seq, seqCnt>>
          /\ svc' = [svc EXCEPT ![k] = "check"]
      BY <2>2 DEF CreateService, qvars
    <3>2. \A s \in Service : svc'[s] = "done" => svc[s] = "done"
      BY <1>0, <3>1
    <3> QED BY <3>1, <3>2 DEF EndInv
  <2>3. CASE StartSequencer
    <3>1. /\ seq = "none" /\ seq' = "sleep" /\ main' = "join" /\ k' = 0
          /\ UNCHANGED <<svc, abort>>
      BY <2>3 DEF StartSequencer, ControlInv, svars
    <3> QED BY <1>0, <3>1 DEF EndInv, Service
  <2>4. CASE (k = 0 => seq = "done") /\ Join /\ UNCHANGED qvars
    <3>1. /\ main = "join" /\ UNCHANGED <<svc, abort, seq, seqCnt>> /\ k \in 0 .. N
          /\ k = 0 => seq = "done"
          /\ k \in Service => svc[k] = "done"
      BY <2>4 DEF Join, svars, qvars, ControlInv
    <3>2. seq = "done" /\ \A s \in Service : s < k + 1 => svc[s] = "done"
      BY <1>0, <3>1 DEF EndInv, Service
    <3>3. CASE k = N
      <4>1. main' = "done" /\ \A s \in Service : s < k + 1
        BY <1>0, <2>4, <3>3 DEF Join, Service
      <4> QED BY <3>1, <3>2, <4>1 DEF EndInv
    <3>4. CASE k # N
      <4>1. main' = "join" /\ k' = k + 1
        BY <2>4, <3>1, <3>4 DEF Join
      <4> QED BY <3>1, <3>2, <4>1 DEF EndInv
    <3> QED BY <3>3, <3>4
  <2> QED BY <1>3, <2>1, <2>2, <2>3, <2>4 DEF MainStep
<1>4. CASE Ended \/ UNCHANGED vars
  BY <1>4 DEF Ended, vars, svars, mvars, qvars, EndInv
<1> QED BY <1>1, <1>2, <1>3, <1>4 DEF Next

\* EndInv holds in every state.
LEMMA EndInvariant == Spec => []EndInv
<1>1. Init => EndInv
  BY DEF Init, ServicesInit, EndInv
<1>2. TypeOK /\ ControlInv /\ EndInv /\ [Next]_vars => EndInv'
  BY NextEndInv
<1> QED BY <1>1, <1>2, TypeCorrect, ControlInvariant, PTL DEF Spec

\* The threads of the sequencer programs end in order, on any number of cores.
THEOREM ThreadsEndInOrder == Spec => []EndsInOrder
<1>1. EndInv => EndsInOrder
  BY DEF EndInv, EndsInOrder, ShutdownPosted
<1> QED BY <1>1, EndInvariant, PTL

\* The race of the shutdown costs no release: it can only strand a service that has
\* nothing left to do.
THEOREM StrandedServicesAreIdle == Spec => []StrandedHaveAnswered
<1>1. ASSUME TypeOK, EndInv, ReleasesAccounted, NEW s \in Service, seq = "done", Blocked(s)
      PROVE  SCnt[s] = Releases(sequencePeriods, s) + 1
  <2>1. sem[s] = 0 /\ SCnt[s] \in Nat
    BY <1>1 DEF Blocked, TypeOK, ServicesTypeOK
  <2>2. ShutdownPosted(s) /\ CyclesSeen(s) = sequencePeriods
    BY <1>1 DEF EndInv, ShutdownPosted, CyclesSeen
  <2> QED BY <1>1, <2>1, <2>2 DEF ReleasesAccounted
<1>2. TypeOK /\ EndInv /\ ReleasesAccounted => StrandedHaveAnswered
  BY <1>1 DEF StrandedHaveAnswered
<1> QED BY <1>2, TypeCorrect, EndInvariant, ReleasesAddUp, PTL
=============================================================================
