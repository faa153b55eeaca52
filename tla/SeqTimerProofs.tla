--------------------------- MODULE SeqTimerProofs ---------------------------
(***************************************************************************)
(* Proofs about the sequencer in the signal handler of seqgen3.c, for      *)
(* every number of services, dividers and cycles, and for handler calls    *)
(* that overlap on any of the threads.                                     *)
(***************************************************************************)
EXTENDS SeqTimer, TLAPS

USE ServicesAssumption, TimerAssumption

Places == {"idle", "count", "release", "post", "abort"}

-----------------------------------------------------------------------------
(* Type correctness.                                                       *)

\* A handler call that is to store its count has loaded it before loops counted
\* the call: overlapping calls lose counts and gain none.  Before the timer is
\* armed there is no signal and no handler call.
HandlerInv ==
    /\ pending => loops < MaxLoops
    /\ seqCnt <= loops
    /\ \A t \in Thread : reg[t] <= loops
    /\ \A t \in Thread : h[t] = "count" => reg[t] < loops
    /\ \A t \in Thread : h[t] \in {"post", "abort"} => hpos[t] \in Service
    /\ main \in {"setup", "failed", "create"} => ~armed /\ ~pending /\ Idle
    /\ main = "join" => k \in Service

\* The part of TypeOK about the timer and the handler.
HandlerTypes ==
    /\ seqCnt \in 0 .. MaxLoops
    /\ armed \in BOOLEAN
    /\ pending \in BOOLEAN
    /\ h \in [Thread -> Places]
    /\ hpos \in [Thread -> 1 .. N + 1]
    /\ reg \in [Thread -> 0 .. MaxLoops]
    /\ loops \in 0 .. MaxLoops
    /\ overlapped \in BOOLEAN

\* TypeOK has two parts.
LEMMA TypeParts == TypeOK <=> ServicesTypeOK /\ HandlerTypes
BY Zenon DEF TypeOK, HandlerTypes, Places

\* Threads are numbered from 0, and every service is one.
LEMMA ThreadFacts == Service \subseteq Thread /\ 0 \in Thread /\ N \in Nat /\ N > 0
BY DEF Thread, Service

\* The initial state is well-typed.
LEMMA InitType == Init => TypeOK /\ HandlerInv
<1> SUFFICES ASSUME Init PROVE TypeOK /\ HandlerInv
  OBVIOUS
<1>1. sem \in [Service -> Nat] /\ SCnt \in [Service -> Nat]
      /\ svc \in [Service -> {"none", "check", "wait", "done"}] /\ k \in 0 .. N + 1
  BY DEF Init, ServicesInit
<1>2. abort \in [Service -> BOOLEAN] /\ main = "setup"
  BY Zenon DEF Init, ServicesInit
<1>3. ServicesTypeOK
  BY <1>1, <1>2 DEF ServicesTypeOK
<1>4. /\ h \in [Thread -> Places] /\ hpos \in [Thread -> 1 .. N + 1]
      /\ reg \in [Thread -> 0 .. MaxLoops] /\ seqCnt \in 0 .. MaxLoops /\ loops \in 0 .. MaxLoops
  BY DEF Init, Places
<1>5. armed = FALSE /\ pending = FALSE /\ overlapped = FALSE
  BY DEF Init
<1>6. HandlerTypes
  BY <1>4, <1>5 DEF HandlerTypes
<1>7. HandlerInv
  BY <1>2 DEF Init, HandlerInv, Idle
<1> QED BY <1>3, <1>6, <1>7, TypeParts

\* A service's own steps, and those of main, keep the services well-typed.
LEMMA ServiceTypes ==
    ASSUME ServicesTypeOK, NEW s \in Service, ServiceCheck(s) \/ ServiceRelease(s), UNCHANGED mvars
    PROVE  ServicesTypeOK'
<1> USE DEF ServicesTypeOK
<1>1. CASE ServiceCheck(s)
  BY <1>1 DEF ServiceCheck, mvars
<1>2. CASE ServiceRelease(s)
  BY <1>2 DEF ServiceRelease, mvars
<1> QED BY <1>1, <1>2

\* Every step keeps TypeOK and HandlerInv.
LEMMA NextType == TypeOK /\ HandlerInv /\ [Next]_vars => TypeOK' /\ HandlerInv'
<1> SUFFICES ASSUME TypeOK, HandlerInv, [Next]_vars PROVE TypeOK' /\ HandlerInv'
  OBVIOUS
<1>0. ServicesTypeOK /\ HandlerTypes
  BY TypeParts
<1>t. Service \subseteq Thread /\ 0 \in Thread
  BY ThreadFacts
<1>p. SUFFICES ServicesTypeOK' /\ HandlerTypes' /\ HandlerInv'
  BY DEF TypeOK, HandlerTypes, Places
<1> USE <1>0, <1>t
<1>1. CASE TimerExpires
  <2>1. /\ armed /\ loops < MaxLoops /\ pending' = TRUE
        /\ UNCHANGED <<sem, abort, svc, SCnt, main, k, seqCnt, armed, h, hpos, reg, loops, overlapped>>
    BY <1>1 DEF TimerExpires, svars, mvars, hvars, history
  <2>2. ServicesTypeOK'
    BY <2>1 DEF ServicesTypeOK
  <2>3. HandlerTypes'
    BY <2>1 DEF HandlerTypes
  <2>4. HandlerInv'
    BY <2>1 DEF HandlerInv, Idle
  <2> QED BY <2>2, <2>3, <2>4
<1>2. ASSUME NEW t \in Thread, Enter(t) PROVE ServicesTypeOK' /\ HandlerTypes' /\ HandlerInv'
  <2>1. /\ pending /\ pending' = FALSE /\ h[t] = "idle"
        /\ h' = [h EXCEPT ![t] = "count"] /\ reg' = [reg EXCEPT ![t] = seqCnt]
        /\ loops' = loops + 1
        /\ UNCHANGED <<sem, abort, svc, SCnt, main, k, seqCnt, armed, hpos>>
    BY <1>2 DEF Enter, svars, mvars
  <2>2. overlapped' \in BOOLEAN
    BY <1>2 DEF Enter
  <2>3. loops' \in 0 .. MaxLoops
    BY <2>1 DEF HandlerInv, HandlerTypes
  <2>4. ServicesTypeOK'
    BY <2>1 DEF ServicesTypeOK
  <2>5. HandlerTypes'
    BY <2>1, <2>2, <2>3 DEF HandlerTypes, Places
  <2>6. HandlerInv'
    BY <2>1 DEF HandlerInv, HandlerTypes
  <2> QED BY <2>4, <2>5, <2>6
<1>3. ASSUME NEW t \in Thread, Count(t) PROVE ServicesTypeOK' /\ HandlerTypes' /\ HandlerInv'
  <2>1. /\ h[t] = "count" /\ seqCnt' = reg[t] + 1
        /\ reg' = [reg EXCEPT ![t] = reg[t] + 1] /\ h' = [h EXCEPT ![t] = "release"]
        /\ hpos' = [hpos EXCEPT ![t] = 1]
        /\ UNCHANGED <<sem, abort, svc, SCnt, main, k, armed, pending, loops, overlapped>>
    BY <1>3 DEF Count, svars, mvars, history
  <2>2. reg[t] + 1 \in 0 .. MaxLoops /\ reg[t] + 1 <= loops
    BY <2>1 DEF HandlerInv, HandlerTypes
  <2>3. ServicesTypeOK'
    BY <2>1 DEF ServicesTypeOK
  <2>4. HandlerTypes'
    BY <2>1, <2>2 DEF HandlerTypes, Places
  <2>5. HandlerInv'
    BY <2>1, <2>2 DEF HandlerInv, HandlerTypes, Idle
  <2> QED BY <2>3, <2>4, <2>5
<1>4. ASSUME NEW t \in Thread, Release(t) PROVE ServicesTypeOK' /\ HandlerTypes' /\ HandlerInv'
  <2>1. /\ h[t] = "release" /\ hpos[t] \in Service /\ hpos' = [hpos EXCEPT ![t] = @ + 1]
        /\ UNCHANGED <<abort, svc, SCnt, main, k, seqCnt, armed, pending, h, reg, loops, overlapped>>
    BY <1>4 DEF Release, mvars, history
  <2>2. sem' \in [Service -> Nat]
    <3>1. PICK cnt \in {reg[t], seqCnt} :
            sem' = [sem EXCEPT ![hpos[t]] = IF Due(hpos[t], cnt) THEN @ + 1 ELSE @]
      BY <1>4 DEF Release
    <3>2. PICK i \in Service : i = hpos[t]
      BY <2>1
    <3>3. sem \in [Service -> Nat] /\ sem' = [sem EXCEPT ![i] = IF Due(i, cnt) THEN @ + 1 ELSE @]
      BY <3>1, <3>2 DEF ServicesTypeOK
    <3> HIDE <1>0
    <3> QED BY <3>3
  <2>3. ServicesTypeOK'
    BY <2>1, <2>2 DEF ServicesTypeOK
  <2>4. HandlerTypes'
    BY <2>1 DEF HandlerTypes, Service
  <2>5. HandlerInv'
    BY <2>1 DEF HandlerInv, HandlerTypes, Idle
  <2> QED BY <2>3, <2>4, <2>5
<1>5. ASSUME NEW t \in Thread, HandlerTest(t) PROVE ServicesTypeOK' /\ HandlerTypes' /\ HandlerInv'
  <2>1. PICK cnt \in {reg[t], seqCnt} :
          /\ h' = [h EXCEPT ![t] = IF cnt >= sequencePeriods THEN "post" ELSE "idle"]
          /\ armed' = (armed /\ cnt < sequencePeriods)
    BY <1>5 DEF HandlerTest
  <2>2. /\ h[t] = "release" /\ hpos' = [hpos EXCEPT ![t] = 1] /\ reg' = [reg EXCEPT ![t] = 0]
        /\ UNCHANGED <<sem, abort, svc, SCnt, main, k, seqCnt, pending, loops, overlapped>>
    BY <1>5 DEF HandlerTest, svars, mvars, history
  <2>3. ServicesTypeOK'
    BY <2>2 DEF ServicesTypeOK
  <2>4. HandlerTypes'
    BY <2>1, <2>2 DEF HandlerTypes, Places
  <2>5. HandlerInv'
    BY <2>1, <2>2 DEF HandlerInv, HandlerTypes, Idle, Service
  <2> QED BY <2>3, <2>4, <2>5
<1>6. ASSUME NEW t \in Thread, ShutdownPost(t) \/ ShutdownAbort(t)
      PROVE  ServicesTypeOK' /\ HandlerTypes' /\ HandlerInv'
  <2>1. /\ h[t] \in {"post", "abort"}
        /\ hpos' = [hpos EXCEPT ![t] = IF hpos[t] = N THEN 1 ELSE @ + 1]
        /\ UNCHANGED <<svc, SCnt, main, k, seqCnt, armed, pending, reg, loops, overlapped>>
    BY <1>6 DEF ShutdownPost, ShutdownAbort, mvars, history
  <2>2. PICK p \in {"post", "abort", "idle"} : h' = [h EXCEPT ![t] = p]
    BY <1>6 DEF ShutdownPost, ShutdownAbort
  <2>3. hpos[t] \in Service /\ (IF hpos[t] = N THEN 1 ELSE hpos[t] + 1) \in Service
    BY <2>1 DEF HandlerInv, Service
  <2>4. sem' \in [Service -> Nat] /\ abort' \in [Service -> BOOLEAN]
    <3>1. CASE ShutdownPost(t)
      <4>0. PICK i \in Service : i = hpos[t]
        BY <2>3
      <4>1. sem' = [sem EXCEPT ![i] = @ + 1] /\ abort' = abort
        BY <3>1, <4>0 DEF ShutdownPost
      <4>2. sem \in [Service -> Nat] /\ abort \in [Service -> BOOLEAN]
        BY DEF ServicesTypeOK
      <4>3. sem' \in [Service -> Nat]
        BY <4>1, <4>2
      <4> QED BY <4>1, <4>2, <4>3
    <3>2. CASE ShutdownAbort(t)
      <4>1. sem' = sem /\ abort' = [abort EXCEPT ![hpos[t]] = TRUE] /\ abort \in [Service -> BOOLEAN]
        BY <3>2 DEF ShutdownAbort, ServicesTypeOK
      <4>2. abort' \in [Service -> BOOLEAN]
        BY <4>1, Zenon
      <4> QED BY <4>1, <4>2 DEF ServicesTypeOK
    <3> QED BY <1>6, <3>1, <3>2
  <2>5. ServicesTypeOK'
    BY <2>1, <2>4 DEF ServicesTypeOK
  <2>6. HandlerTypes'
    BY <2>1, <2>2, <2>3 DEF HandlerTypes, Places, Service
  <2>7. HandlerInv'
    BY <2>1, <2>2, <2>3 DEF HandlerInv, HandlerTypes, Idle
  <2> QED BY <2>5, <2>6, <2>7
<1>7. ASSUME NEW s \in Service, ServiceStep(s) PROVE ServicesTypeOK' /\ HandlerTypes' /\ HandlerInv'
  <2>1. UNCHANGED <<main, k, seqCnt, armed, pending, h, hpos, reg, loops, overlapped>>
    BY <1>7 DEF ServiceStep, mvars, tvars, hvars, history
  <2>2. ServicesTypeOK'
    BY <1>7, ServiceTypes DEF ServiceStep
  <2> QED BY <2>1, <2>2 DEF HandlerTypes, HandlerInv, Idle
<1>8. CASE MainStep
  <2>1. CASE ArmTimer
    <3>1. /\ main' = "join" /\ k' = 1 /\ armed' = TRUE
          /\ UNCHANGED <<sem, abort, svc, SCnt, seqCnt, pending, h, hpos, reg, loops, overlapped>>
      BY <2>1 DEF ArmTimer, svars, hvars, history
    <3>2. 1 \in Service /\ 1 \in 0 .. N + 1
      BY DEF Service
    <3>3. ServicesTypeOK'
      BY <3>1, <3>2 DEF ServicesTypeOK
    <3>4. HandlerTypes'
      BY <3>1 DEF HandlerTypes
    <3>5. HandlerInv'
      BY <3>1, <3>2 DEF HandlerInv
    <3> QED BY <3>3, <3>4, <3>5
  <2>2. CASE (SetUp \/ SetUpFails \/ CreateService \/ Join) /\ UNCHANGED tvars
    <3>1. UNCHANGED <<seqCnt, armed, pending, h, hpos, reg, loops, overlapped>>
      BY <2>2 DEF tvars, hvars, history
    <3>2. ServicesTypeOK'
      <4>1. CASE SetUp \/ SetUpFails
        BY <4>1 DEF SetUp, SetUpFails, svars, ServicesTypeOK
      <4>2. CASE CreateService
        BY <4>2 DEF CreateService, Service, ServicesTypeOK
      <4>3. CASE Join
        <5>1. k' \in 0 .. N + 1
          BY <4>3 DEF Join, Service, HandlerInv
        <5> QED BY <4>3, <5>1 DEF Join, svars, ServicesTypeOK
      <4> QED BY <2>2, <4>1, <4>2, <4>3
    <3>3. HandlerTypes'
      BY <3>1 DEF HandlerTypes
    <3>4. main' \in {"setup", "failed", "create"} => main \in {"setup", "failed", "create"}
      BY <2>2 DEF SetUp, SetUpFails, CreateService, Join
    <3>5. main' = "join" => k' \in Service
      BY <2>2 DEF SetUp, SetUpFails, CreateService, Join, Service, HandlerInv
    <3>6. HandlerInv'
      BY <3>1, <3>4, <3>5 DEF HandlerInv, Idle
    <3> QED BY <3>2, <3>3, <3>6
  <2> QED BY <1>8, <2>1, <2>2 DEF MainStep, SetUpStep
<1>9. CASE Ended \/ UNCHANGED vars
  <2>1. UNCHANGED <<sem, abort, svc, SCnt, main, k, seqCnt, armed, pending, h, hpos, reg, loops,
                    overlapped>>
    BY <1>9 DEF Ended, vars, svars, mvars, tvars, hvars, history
  <2> QED BY <2>1 DEF ServicesTypeOK, HandlerTypes, HandlerInv, Idle
<1> QED
  BY <1>1, <1>2, <1>3, <1>4, <1>5, <1>6, <1>7, <1>8, <1>9 DEF Next, Sequencer

\* HandlerInv holds in every state.
LEMMA HandlerInvariant == Spec => []HandlerInv
BY InitType, NextType, PTL DEF Spec

\* Every variable has its type: neither seqCnt nor a handler call's copy of it ever
\* exceeds the number of handler calls, however they overlap, and no semaphore
\* goes below zero.
THEOREM TypeCorrect == Spec => []TypeOK
BY InitType, NextType, PTL DEF Spec

-----------------------------------------------------------------------------
(* The end of the sequence.                                                *)

\* A handler call that shuts down has disarmed the timer, which main armed only
\* once, and its count was no more than the handler calls.
EndInv ==
    /\ (main = "join" /\ ~armed) => loops >= sequencePeriods
    /\ \A t \in Thread : h[t] \in {"post", "abort"} => ~armed /\ loops >= sequencePeriods
    /\ \A s \in Service :
        abort[s] => ~armed /\ loops >= sequencePeriods /\ main \notin {"setup", "create"}
    /\ \A s \in Service : svc[s] = "done" => abort[s]

\* The services have not been told to end when the program starts.
LEMMA InitEndInv == Init => EndInv
<1> SUFFICES ASSUME Init PROVE EndInv
  OBVIOUS
<1>1. \A s \in Service : ~abort[s] /\ svc[s] = "none"
  BY Zenon DEF Init, ServicesInit
<1>2. main = "setup" /\ \A t \in Thread : h[t] = "idle"
  BY DEF Init, ServicesInit
<1> QED BY <1>1, <1>2 DEF EndInv

\* Every step keeps EndInv.
LEMMA NextEndInv == TypeOK /\ HandlerInv /\ EndInv /\ [Next]_vars => EndInv'
<1> SUFFICES ASSUME TypeOK, HandlerInv, EndInv, [Next]_vars PROVE EndInv'
  OBVIOUS
<1>0. /\ h \in [Thread -> Places] /\ reg \in [Thread -> 0 .. MaxLoops] /\ seqCnt \in 0 .. MaxLoops
      /\ loops \in 0 .. MaxLoops /\ svc \in [Service -> {"none", "check", "wait", "done"}]
      /\ abort \in [Service -> BOOLEAN] /\ armed \in BOOLEAN
  BY DEF TypeOK, ServicesTypeOK, Places
<1>1. CASE TimerExpires
  BY <1>1 DEF TimerExpires, svars, mvars, hvars, history, EndInv
<1>2. ASSUME NEW t \in Thread, Enter(t) PROVE EndInv'
  <2>1. /\ h' = [h EXCEPT ![t] = "count"] /\ loops' = loops + 1
        /\ UNCHANGED <<abort, svc, main, armed>>
    BY <1>2 DEF Enter, svars, mvars
  <2>2. \A u \in Thread : h'[u] \in {"post", "abort"} => h[u] \in {"post", "abort"}
    BY <1>0, <2>1
  <2>3. loops >= sequencePeriods => loops' >= sequencePeriods
    BY <1>0, <2>1
  <2> QED BY <2>1, <2>2, <2>3 DEF EndInv
<1>3. ASSUME NEW t \in Thread, Count(t) \/ Release(t) PROVE EndInv'
  <2>1. UNCHANGED <<abort, svc, main, armed, loops>>
    BY <1>3 DEF Count, Release, svars, mvars, history
  <2>2. \A u \in Thread : h'[u] \in {"post", "abort"} => h[u] \in {"post", "abort"}
    BY <1>0, <1>3 DEF Count, Release
  <2> QED BY <2>1, <2>2 DEF EndInv
<1>4. ASSUME NEW t \in Thread, HandlerTest(t) PROVE EndInv'
  <2>1. PICK cnt \in {reg[t], seqCnt} :
          /\ h' = [h EXCEPT ![t] = IF cnt >= sequencePeriods THEN "post" ELSE "idle"]
          /\ armed' = (armed /\ cnt < sequencePeriods)
    BY <1>4 DEF HandlerTest
  <2>2. UNCHANGED <<abort, svc, main, loops>>
    BY <1>4 DEF HandlerTest, svars, mvars, history
  <2>3. cnt \in Nat /\ cnt <= loops
    BY <1>0 DEF HandlerInv
  <2>4. CASE cnt >= sequencePeriods
    <3>1. ~(cnt < sequencePeriods) /\ loops >= sequencePeriods
      BY <1>0, <2>3, <2>4
    <3>2. ~armed'
      BY <2>1, <3>1, Zenon
    <3> QED BY <2>2, <3>1, <3>2 DEF EndInv
  <2>5. CASE ~(cnt >= sequencePeriods)
    <3>1. armed' = armed
      BY <1>0, <2>1, <2>3, <2>5
    <3>2. \A u \in Thread : h'[u] \in {"post", "abort"} => h[u] \in {"post", "abort"}
      BY <1>0, <2>1, <2>5
    <3> QED BY <2>2, <3>1, <3>2 DEF EndInv
  <2> QED BY <2>4, <2>5
<1>5. ASSUME NEW t \in Thread, ShutdownPost(t) \/ ShutdownAbort(t) PROVE EndInv'
  <2>1. h[t] \in {"post", "abort"} /\ UNCHANGED <<svc, main, armed, loops>>
    BY <1>5 DEF ShutdownPost, ShutdownAbort, mvars, history
  <2>2. ~armed /\ loops >= sequencePeriods /\ main \notin {"setup", "create"}
    BY <2>1 DEF EndInv, HandlerInv, Idle
  <2>3. \A s \in Service : abort[s] => abort'[s]
    <3>1. CASE ShutdownPost(t)
      BY <3>1 DEF ShutdownPost
    <3>2. CASE ShutdownAbort(t)
      <4>0. PICK i \in Service : i = hpos[t]
        BY <2>1 DEF HandlerInv
      <4>1. abort' = [abort EXCEPT ![i] = TRUE]
        BY <3>2, <4>0 DEF ShutdownAbort
      <4> QED BY <1>0, <4>1, Zenon
    <3> QED BY <1>5, <3>1, <3>2
  <2> QED BY <2>1, <2>2, <2>3 DEF EndInv
<1>6. ASSUME NEW s \in Service, ServiceStep(s) PROVE EndInv'
  <2>1. UNCHANGED <<abort, main, armed, h, loops>>
    BY <1>6 DEF ServiceStep, ServiceCheck, ServiceRelease, mvars, tvars, hvars, history
  <2>2. \A u \in Service : svc'[u] = "done" => svc[u] = "done" \/ abort[u]
    BY <1>0, <1>6 DEF ServiceStep, ServiceCheck, ServiceRelease
  <2> QED BY <2>1, <2>2 DEF EndInv
<1>7. CASE ArmTimer
  <2>1. /\ main = "create" /\ main' = "join" /\ armed' = TRUE
        /\ UNCHANGED <<abort, svc, h, loops>>
    BY <1>7 DEF ArmTimer, svars, hvars, history
  <2>2. \A t \in Thread : h[t] = "idle"
    BY <2>1 DEF HandlerInv, Idle
  <2> QED BY <2>1, <2>2 DEF EndInv
<1>8. CASE (SetUp \/ SetUpFails \/ CreateService \/ Join) /\ UNCHANGED tvars
  <2>1. UNCHANGED <<abort, armed, h, loops>>
    BY <1>8 DEF SetUp, SetUpFails, CreateService, Join, svars, tvars, hvars, history
  <2>2. main' = "join" => main = "join"
    BY <1>8 DEF SetUp, SetUpFails, CreateService, Join
  <2>3. main' \in {"setup", "create"} => main \in {"setup", "create"}
    BY <1>8 DEF SetUp, SetUpFails, CreateService, Join
  <2>4. \A s \in Service : svc'[s] = "done" => svc[s] = "done"
    BY <1>0, <1>8 DEF SetUp, SetUpFails, CreateService, Join, svars
  <2> QED BY <2>1, <2>2, <2>3, <2>4 DEF EndInv
<1>9. CASE Ended \/ UNCHANGED vars
  BY <1>9 DEF Ended, vars, svars, mvars, tvars, hvars, history, EndInv
<1> QED
  BY <1>1, <1>2, <1>3, <1>4, <1>5, <1>6, <1>7, <1>8, <1>9
     DEF Next, Sequencer, MainStep, SetUpStep

\* EndInv holds in every state.
LEMMA EndInvariant == Spec => []EndInv
BY InitEndInv, NextEndInv, TypeCorrect, HandlerInvariant, PTL DEF Spec

\* However handler calls overlap on the threads, and whichever value of seqCnt
\* their tests use, the timer is not disarmed and no service is told to end
\* before the handler has run sequencePeriods times.
THEOREM ShutdownIsNotEarly == Spec => []NotEarly
<1>1. EndInv => NotEarly
  BY DEF EndInv, NotEarly
<1> QED BY <1>1, EndInvariant, PTL

\* A service that has ended is never released by a new signal: the timer was
\* disarmed before any flag was set and is never armed again.
THEOREM ServicesEndAfterTimer == Spec => []EndsAfterTimer
<1>1. EndInv => EndsAfterTimer
  BY DEF EndInv, EndsAfterTimer
<1> QED BY <1>1, EndInvariant, PTL

-----------------------------------------------------------------------------
(* Releases, as long as handler calls do not overlap.                      *)

\* Until two handler calls have overlapped there is at most one at a time, and
\* seqCnt is the number of calls that have stored their count.
SerialInv ==
    ~overlapped =>
        /\ \A t, u \in Thread : (h[t] # "idle" /\ h[u] # "idle") => t = u
        /\ Idle => loops = seqCnt
        /\ \A t \in Thread : h[t] = "count" => reg[t] = seqCnt /\ loops = seqCnt + 1
        /\ \A t \in Thread : h[t] = "release" => reg[t] = seqCnt /\ loops = seqCnt /\ loops > 0
        /\ \A t \in Thread : h[t] \in {"post", "abort"} => loops = seqCnt

\* Every step keeps SerialInv.
LEMMA NextSerialInv == TypeOK /\ SerialInv /\ [Next]_vars => SerialInv'
<1> SUFFICES ASSUME TypeOK, SerialInv, [Next]_vars, ~overlapped' PROVE SerialInv'
  BY DEF SerialInv
<1>0. /\ h \in [Thread -> Places] /\ reg \in [Thread -> 0 .. MaxLoops] /\ seqCnt \in 0 .. MaxLoops
      /\ loops \in 0 .. MaxLoops
  BY DEF TypeOK, Places
<1>1. ASSUME NEW t \in Thread, Enter(t) PROVE SerialInv'
  <2>1. /\ h' = [h EXCEPT ![t] = "count"] /\ loops' = loops + 1
        /\ reg' = [reg EXCEPT ![t] = seqCnt] /\ seqCnt' = seqCnt
    BY <1>1 DEF Enter
  <2>2. ~overlapped /\ Idle
    BY <1>1 DEF Enter
  <2>3. h'[t] = "count" /\ reg'[t] = seqCnt /\ \A u \in Thread : u # t => h'[u] = "idle"
    BY <1>0, <2>1, <2>2 DEF Idle
  <2>4. loops = seqCnt
    BY <2>2 DEF SerialInv
  <2> QED BY <2>1, <2>3, <2>4 DEF SerialInv, Idle
\* A step of the only handler call in progress.
<1>2. ASSUME NEW t \in Thread, h[t] # "idle", ~overlapped,
             NEW p \in Places, h' = [h EXCEPT ![t] = p]
      PROVE  h'[t] = p /\ (\A u \in Thread : u # t => h'[u] = "idle")
  BY <1>0, <1>2 DEF SerialInv
<1>3. ASSUME NEW t \in Thread, Count(t) PROVE SerialInv'
  <2>1. /\ h[t] = "count" /\ h' = [h EXCEPT ![t] = "release"] /\ seqCnt' = reg[t] + 1
        /\ reg' = [reg EXCEPT ![t] = reg[t] + 1] /\ loops' = loops /\ ~overlapped
    BY <1>3 DEF Count, history
  <2>2. h'[t] = "release" /\ \A u \in Thread : u # t => h'[u] = "idle"
    BY <1>2, <2>1 DEF Places
  <2>3. reg'[t] = seqCnt' /\ loops' = seqCnt' /\ loops' > 0
    BY <1>0, <2>1 DEF SerialInv
  <2> QED BY <2>2, <2>3 DEF SerialInv, Idle
<1>4. ASSUME NEW t \in Thread, HandlerTest(t) PROVE SerialInv'
  <2>1. PICK p \in {"post", "idle"} : h' = [h EXCEPT ![t] = p]
    BY <1>4 DEF HandlerTest
  <2>2. h[t] = "release" /\ UNCHANGED <<seqCnt, loops>> /\ ~overlapped
    BY <1>4 DEF HandlerTest, history
  <2>3. h'[t] = p /\ \A u \in Thread : u # t => h'[u] = "idle"
    BY <1>2, <2>1, <2>2 DEF Places
  <2>4. loops' = seqCnt'
    BY <2>2 DEF SerialInv
  <2> QED BY <2>3, <2>4 DEF SerialInv, Idle
<1>5. ASSUME NEW t \in Thread, ShutdownPost(t) \/ ShutdownAbort(t) PROVE SerialInv'
  <2>1. PICK p \in {"post", "abort", "idle"} : h' = [h EXCEPT ![t] = p]
    BY <1>5 DEF ShutdownPost, ShutdownAbort
  <2>2. h[t] \in {"post", "abort"} /\ UNCHANGED <<seqCnt, loops>> /\ ~overlapped
    BY <1>5 DEF ShutdownPost, ShutdownAbort, history
  <2>3. h'[t] = p /\ \A u \in Thread : u # t => h'[u] = "idle"
    BY <1>2, <2>1, <2>2 DEF Places
  <2>4. loops' = seqCnt'
    BY <2>2 DEF SerialInv
  <2> QED BY <2>3, <2>4 DEF SerialInv, Idle
<1>6. ASSUME UNCHANGED <<h, reg, seqCnt, loops, overlapped>> PROVE SerialInv'
  BY <1>6 DEF SerialInv, Idle
<1>7. ASSUME NEW t \in Thread, Release(t) PROVE SerialInv'
  BY <1>6, <1>7 DEF Release, history
<1>8. ASSUME NEW s \in Service, ServiceStep(s) PROVE SerialInv'
  BY <1>6, <1>8 DEF ServiceStep, tvars, hvars, history
<1>9. CASE TimerExpires \/ MainStep \/ Ended \/ UNCHANGED vars
  BY <1>6, <1>9 DEF TimerExpires, MainStep, SetUpStep, ArmTimer, Ended, vars, tvars, hvars, history
<1> QED
  BY <1>1, <1>3, <1>4, <1>5, <1>7, <1>8, <1>9 DEF Next, Sequencer

\* SerialInv holds in every state.
LEMMA SerialInvariant == Spec => []SerialInv
<1>1. Init => SerialInv
  BY DEF Init, SerialInv
<1> QED BY <1>1, NextSerialInv, TypeCorrect, PTL DEF Spec

\* Counting one further handler call adds a release exactly when the divider
\* divides the new count.
LEMMA OneMoreCall ==
    ASSUME NEW n \in Nat, NEW d \in Nat \ {0}
    PROVE  /\ n \div d \in Nat
           /\ (n + 1) \div d = (n \div d) + (IF (n + 1) % d = 0 THEN 1 ELSE 0)
OBVIOUS

\* The releases of service s that n handler calls make.
ReleasesOf(n, s) == IF s \in DOMAIN Every THEN n \div Every[s] ELSE 0

\* The sum that ReleasesAccounted requires of service s.
Balanced(s) == sem[s] + SCnt[s] = Regular(s) + Shutdowns(s)

\* One further call releases service s exactly when it is due.
LEMMA OneMoreRelease ==
    ASSUME NEW n \in Nat, NEW s \in Service
    PROVE  /\ ReleasesOf(n, s) \in Nat
           /\ ReleasesOf(n + 1, s) = ReleasesOf(n, s) + (IF Due(s, n + 1) THEN 1 ELSE 0)
<1>1. CASE s \in DOMAIN Every
  <2> DEFINE d == Every[s]
  <2>1. d \in Nat \ {0}
    BY <1>1
  <2>2. ReleasesOf(n, s) = n \div d /\ ReleasesOf(n + 1, s) = (n + 1) \div d
    BY <1>1 DEF ReleasesOf
  <2>3. Due(s, n + 1) <=> (n + 1) % d = 0
    BY <1>1 DEF Due
  <2> HIDE DEF d
  <2>4. /\ n \div d \in Nat
        /\ (n + 1) \div d = (n \div d) + (IF (n + 1) % d = 0 THEN 1 ELSE 0)
    BY <2>1, OneMoreCall
  <2> QED BY <2>2, <2>3, <2>4
<1>2. CASE s \notin DOMAIN Every
  BY <1>2 DEF ReleasesOf, Due
<1> QED BY <1>1, <1>2

\* Nothing is owed when the program starts.
LEMMA InitReleases == Init => ReleasesAccounted
<1> SUFFICES ASSUME Init, NEW s \in Service PROVE Balanced(s)
  BY DEF ReleasesAccounted, Balanced
<1>1. sem[s] = 0 /\ SCnt[s] = 0 /\ loops = 0 /\ \A t \in Thread : h[t] = "idle"
  BY DEF Init, ServicesInit
<1>2. CyclesSeen(s) = 0 /\ CallsEnded(s) = 0
  BY <1>1 DEF CyclesSeen, Passed, CallsEnded
<1>3. Shutdowns(s) = 0
  BY <1>2 DEF Shutdowns
<1>4. Regular(s) = 0
  <2>1. CASE s \in DOMAIN Every
    <3>1. Every[s] \in Nat \ {0}
      BY <2>1
    <3>2. 0 \div Every[s] = 0
      BY <3>1
    <3> QED BY <1>2, <2>1, <3>2 DEF Regular
  <2>2. CASE s \notin DOMAIN Every
    BY <2>2 DEF Regular
  <2> QED BY <2>1, <2>2
<1> QED BY <1>1, <1>3, <1>4 DEF Balanced

\* What CyclesSeen and CallsEnded are when at most thread t is in the handler.
LEMMA OneCall ==
    ASSUME NEW t \in Thread, \A u \in Thread : u # t => h[u] = "idle", NEW s \in Service
    PROVE  /\ CyclesSeen(s) = IF h[t] # "count" /\ (h[t] = "release" => hpos[t] > s)
                              THEN loops ELSE loops - 1
           /\ CallsEnded(s) = IF h[t] \notin {"count", "release"} /\ (h[t] = "post" => hpos[t] > s)
                              THEN loops ELSE loops - 1
BY DEF CyclesSeen, Passed, CallsEnded

\* Every step keeps the sum right for service s, or begins an overlap.
LEMMA NextReleases ==
    TypeOK /\ HandlerInv /\ EndInv /\ SerialInv /\ ReleasesAccounted /\ [Next]_vars
        => ReleasesAccounted'
<1> SUFFICES ASSUME TypeOK, HandlerInv, EndInv, SerialInv, ReleasesAccounted, [Next]_vars,
                    ~overlapped', NEW s \in Service
             PROVE  Balanced(s)'
  BY DEF ReleasesAccounted, Balanced
<1>0. /\ h \in [Thread -> Places] /\ reg \in [Thread -> 0 .. MaxLoops] /\ seqCnt \in 0 .. MaxLoops
      /\ loops \in 0 .. MaxLoops /\ hpos \in [Thread -> 1 .. N + 1]
      /\ sem \in [Service -> Nat] /\ SCnt \in [Service -> Nat] /\ s \in 1 .. N
  BY DEF TypeOK, ServicesTypeOK, Places, Service
<1>a. ~overlapped => Balanced(s)
  BY DEF ReleasesAccounted, Balanced
\* OneCall of the next state.
<1>b. ASSUME NEW t \in Thread, \A u \in Thread : u # t => h'[u] = "idle"
      PROVE  /\ CyclesSeen(s)' = IF h'[t] # "count" /\ (h'[t] = "release" => hpos'[t] > s)
                                 THEN loops' ELSE loops' - 1
             /\ CallsEnded(s)' = IF /\ h'[t] \notin {"count", "release"}
                                    /\ h'[t] = "post" => hpos'[t] > s
                                 THEN loops' ELSE loops' - 1
  BY <1>b DEF CyclesSeen, Passed, CallsEnded
\* Nothing that the sum depends on has changed.
<1>c. ASSUME ~overlapped, sem'[s] + SCnt'[s] = sem[s] + SCnt[s],
             CyclesSeen(s)' = CyclesSeen(s), Shutdowns(s)' = Shutdowns(s)
      PROVE  Balanced(s)'
  <2>1. Regular(s)' = Regular(s)
    BY <1>c DEF Regular
  <2> QED BY <1>a, <1>c, <2>1 DEF Balanced
<1>1. ASSUME NEW t \in Thread, Enter(t) PROVE Balanced(s)'
  <2>1. /\ h' = [h EXCEPT ![t] = "count"] /\ loops' = loops + 1 /\ UNCHANGED <<sem, SCnt, hpos>>
        /\ ~overlapped /\ \A u \in Thread : h[u] = "idle"
    BY <1>1 DEF Enter, svars, Idle
  <2>2. h'[t] = "count" /\ \A u \in Thread : u # t => h'[u] = "idle"
    BY <1>0, <2>1
  <2>3. CyclesSeen(s) = loops /\ CallsEnded(s) = loops
    BY <2>1, OneCall
  <2>4. CyclesSeen(s)' = loops' - 1 /\ CallsEnded(s)' = loops' - 1
    BY <1>b, <2>2
  <2>5. CyclesSeen(s)' = CyclesSeen(s) /\ CallsEnded(s)' = CallsEnded(s)
    BY <1>0, <2>1, <2>3, <2>4
  <2>6. Shutdowns(s)' = Shutdowns(s)
    BY <2>5 DEF Shutdowns
  <2> QED BY <1>c, <2>1, <2>5, <2>6
\* Only the thread whose call is in progress is in the handler.
<1>2. ASSUME NEW t \in Thread, h[t] # "idle", ~overlapped
      PROVE  \A u \in Thread : u # t => h[u] = "idle"
  BY <1>2 DEF SerialInv
<1>3. ASSUME NEW t \in Thread, Count(t) PROVE Balanced(s)'
  <2>1. /\ h[t] = "count" /\ h' = [h EXCEPT ![t] = "release"] /\ hpos' = [hpos EXCEPT ![t] = 1]
        /\ UNCHANGED <<sem, SCnt, loops>> /\ ~overlapped
    BY <1>3 DEF Count, svars, history
  <2>2. \A u \in Thread : u # t => h[u] = "idle"
    BY <1>2, <2>1
  <2>3. h'[t] = "release" /\ hpos'[t] = 1 /\ \A u \in Thread : u # t => h'[u] = "idle"
    BY <1>0, <2>1, <2>2
  <2>4. CyclesSeen(s) = loops - 1 /\ CallsEnded(s) = loops - 1
    BY <2>1, <2>2, OneCall
  <2>5. CyclesSeen(s)' = loops' - 1 /\ CallsEnded(s)' = loops' - 1
    BY <1>0, <1>b, <2>3
  <2>6. CyclesSeen(s)' = CyclesSeen(s) /\ CallsEnded(s)' = CallsEnded(s)
    BY <2>1, <2>4, <2>5
  <2>7. Shutdowns(s)' = Shutdowns(s)
    BY <2>6 DEF Shutdowns
  <2> QED BY <1>c, <2>1, <2>6, <2>7
<1>4. ASSUME NEW t \in Thread, Release(t) PROVE Balanced(s)'
  <2>1. /\ h[t] = "release" /\ hpos[t] \in Service /\ hpos' = [hpos EXCEPT ![t] = @ + 1]
        /\ UNCHANGED <<SCnt, h, loops>> /\ ~overlapped
    BY <1>4 DEF Release, history
  <2>2. \A u \in Thread : u # t => h[u] = "idle"
    BY <1>2, <2>1
  <2>3. reg[t] = seqCnt /\ loops = seqCnt /\ loops > 0
    BY <2>1 DEF SerialInv
  <2>4. PICK i \in Service : i = hpos[t]
    BY <2>1
  <2>5. sem' = [sem EXCEPT ![i] = IF Due(i, loops) THEN @ + 1 ELSE @]
    BY <1>4, <2>3, <2>4 DEF Release
  <2>6. hpos'[t] = i + 1 /\ i \in 1 .. N
    BY <1>0, <2>1, <2>4 DEF Service
  <2>7. CallsEnded(s) = loops - 1 /\ CallsEnded(s)' = loops - 1
    BY <1>b, <2>1, <2>2, OneCall
  <2>8. Shutdowns(s)' = Shutdowns(s)
    BY <2>7 DEF Shutdowns
  <2>9. CASE i # s
    <3>1. sem'[s] = sem[s]
      BY <1>0, <2>5, <2>9
    <3>2. CyclesSeen(s) = IF i > s THEN loops ELSE loops - 1
      BY <2>1, <2>2, <2>4, OneCall
    <3>3. CyclesSeen(s)' = IF i + 1 > s THEN loops ELSE loops - 1
      BY <1>b, <2>1, <2>2, <2>6
    <3>4. CyclesSeen(s)' = CyclesSeen(s)
      BY <1>0, <2>6, <2>9, <3>2, <3>3
    <3> QED BY <1>c, <2>1, <2>8, <3>1, <3>4
  <2>10. CASE i = s
    <3> DEFINE n == loops - 1
               inc == IF Due(s, n + 1) THEN 1 ELSE 0
    <3>0. ~(hpos[t] > s)
      BY <1>0, <2>4, <2>10
    <3>1. CyclesSeen(s) = n
      BY <2>1, <2>2, <3>0, OneCall
    <3>2. CyclesSeen(s)' = n + 1
      BY <1>0, <1>b, <2>1, <2>2, <2>6, <2>10
    <3>3. n \in Nat /\ n + 1 = loops
      BY <1>0, <2>3
    <3>4. sem'[s] = sem[s] + inc
      BY <1>0, <2>5, <2>10, <3>3
    <3>5. Regular(s) = ReleasesOf(n, s) /\ Regular(s)' = ReleasesOf(n + 1, s)
      BY <3>1, <3>2 DEF Regular, ReleasesOf
    <3>6. ReleasesOf(n, s) \in Nat /\ ReleasesOf(n + 1, s) = ReleasesOf(n, s) + inc
      BY <3>3, OneMoreRelease
    <3>7. Shutdowns(s) \in Nat
      BY <1>0, <2>7 DEF Shutdowns
    <3>8. sem[s] + SCnt[s] = ReleasesOf(n, s) + Shutdowns(s) /\ sem[s] \in Nat /\ SCnt[s] \in Nat
      BY <1>0, <1>a, <2>1, <3>5 DEF Balanced
    <3>9. inc \in Nat
      OBVIOUS
    <3> HIDE DEF n, inc
    <3>10. sem'[s] + SCnt'[s] = (ReleasesOf(n, s) + inc) + Shutdowns(s)
      BY <2>1, <3>4, <3>6, <3>7, <3>8, <3>9
    <3> QED BY <2>8, <3>5, <3>6, <3>10 DEF Balanced
  <2> QED BY <2>9, <2>10
<1>5. ASSUME NEW t \in Thread, HandlerTest(t) PROVE Balanced(s)'
  <2>1. /\ h[t] = "release" /\ hpos[t] = N + 1 /\ hpos' = [hpos EXCEPT ![t] = 1]
        /\ UNCHANGED <<sem, SCnt, loops>> /\ ~overlapped
    BY <1>5 DEF HandlerTest, svars, history
  <2>2. \A u \in Thread : u # t => h[u] = "idle"
    BY <1>2, <2>1
  <2>3. reg[t] = seqCnt /\ loops = seqCnt
    BY <2>1 DEF SerialInv
  <2>4. h' = [h EXCEPT ![t] = IF loops >= sequencePeriods THEN "post" ELSE "idle"]
    BY <1>5, <2>3 DEF HandlerTest
  <2>5. /\ h'[t] = (IF loops >= sequencePeriods THEN "post" ELSE "idle") /\ hpos'[t] = 1
        /\ \A u \in Thread : u # t => h'[u] = "idle"
    BY <1>0, <2>1, <2>2, <2>4
  <2>6. CyclesSeen(s) = loops /\ CyclesSeen(s)' = loops
    BY <1>0, <1>b, <2>1, <2>2, <2>5, OneCall
  <2>7. CallsEnded(s) = loops - 1
    BY <2>1, <2>2, OneCall
  <2>8. CallsEnded(s)' = IF loops >= sequencePeriods THEN loops - 1 ELSE loops
    BY <1>0, <1>b, <2>1, <2>5
  <2>9. Shutdowns(s)' = Shutdowns(s)
    BY <1>0, <2>7, <2>8 DEF Shutdowns
  <2> QED BY <1>c, <2>1, <2>6, <2>9
<1>6. ASSUME NEW t \in Thread, ShutdownPost(t) PROVE Balanced(s)'
  <2>1. /\ h[t] = "post" /\ hpos[t] \in Service
        /\ h' = [h EXCEPT ![t] = IF hpos[t] = N THEN "abort" ELSE "post"]
        /\ hpos' = [hpos EXCEPT ![t] = IF hpos[t] = N THEN 1 ELSE @ + 1]
        /\ UNCHANGED <<SCnt, loops>> /\ ~overlapped
    BY <1>6 DEF ShutdownPost, history, HandlerInv
  <2>2. \A u \in Thread : u # t => h[u] = "idle"
    BY <1>2, <2>1
  <2>3. PICK i \in Service : i = hpos[t]
    BY <2>1
  <2>4. sem' = [sem EXCEPT ![i] = @ + 1] /\ i \in 1 .. N
    BY <1>6, <2>3 DEF ShutdownPost, Service
  <2>5. /\ h'[t] = (IF i = N THEN "abort" ELSE "post") /\ hpos'[t] = (IF i = N THEN 1 ELSE i + 1)
        /\ \A u \in Thread : u # t => h'[u] = "idle"
    BY <1>0, <2>1, <2>2, <2>3
  <2>6. CyclesSeen(s) = loops /\ CyclesSeen(s)' = loops
    BY <1>b, <2>1, <2>2, <2>5, OneCall
  <2>7. CallsEnded(s) = IF i > s THEN loops ELSE loops - 1
    BY <2>1, <2>2, <2>3, OneCall
  <2>8. CallsEnded(s)' = IF i = N \/ i + 1 > s THEN loops ELSE loops - 1
    BY <1>b, <2>1, <2>5
  <2>9. CASE i # s
    <3>1. sem'[s] = sem[s]
      BY <1>0, <2>4, <2>9
    <3>2. CallsEnded(s)' = CallsEnded(s)
      BY <1>0, <2>4, <2>7, <2>8, <2>9
    <3>3. Shutdowns(s)' = Shutdowns(s)
      BY <3>2 DEF Shutdowns
    <3> QED BY <1>c, <2>1, <2>6, <3>1, <3>3
  <2>10. CASE i = s
    <3>1. sem'[s] = sem[s] + 1 /\ sem[s] \in Nat /\ SCnt[s] \in Nat
      BY <1>0, <2>4, <2>10
    <3>2. CallsEnded(s) = loops - 1 /\ CallsEnded(s)' = loops
      BY <1>0, <2>4, <2>7, <2>8, <2>10
    <3>3. loops >= sequencePeriods
      BY <2>1 DEF EndInv
    <3>4. Shutdowns(s) \in Int /\ Shutdowns(s)' = Shutdowns(s) + 1
      BY <1>0, <2>1, <3>2, <3>3 DEF Shutdowns
    <3>5. Regular(s)' = Regular(s) /\ Regular(s) \in Int
      <4>1. Regular(s) = ReleasesOf(loops, s) /\ Regular(s)' = ReleasesOf(loops, s)
        BY <2>6 DEF Regular, ReleasesOf
      <4>2. PICK n \in Nat : n = loops
        BY <1>0
      <4>3. ReleasesOf(n, s) \in Nat
        BY OneMoreRelease
      <4> QED BY <4>1, <4>2, <4>3
    <3>6. Balanced(s)
      BY <1>a, <2>1
    <3> QED BY <2>1, <3>1, <3>4, <3>5, <3>6 DEF Balanced
  <2> QED BY <2>9, <2>10
<1>7. ASSUME NEW t \in Thread, ShutdownAbort(t) PROVE Balanced(s)'
  <2>1. h[t] = "abort" /\ UNCHANGED <<sem, SCnt, loops>> /\ ~overlapped
    BY <1>7 DEF ShutdownAbort, history
  <2>2. PICK p \in {"abort", "idle"} : h' = [h EXCEPT ![t] = p]
    BY <1>7 DEF ShutdownAbort
  <2>3. \A u \in Thread : u # t => h[u] = "idle"
    BY <1>2, <2>1
  <2>4. h'[t] = p /\ \A u \in Thread : u # t => h'[u] = "idle"
    BY <1>0, <2>2, <2>3
  <2>5. /\ CyclesSeen(s) = loops /\ CyclesSeen(s)' = loops
        /\ CallsEnded(s) = loops /\ CallsEnded(s)' = loops
    BY <1>b, <2>1, <2>3, <2>4, OneCall
  <2>6. Shutdowns(s)' = Shutdowns(s)
    BY <2>5 DEF Shutdowns
  <2> QED BY <1>c, <2>1, <2>5, <2>6
\* A step outside the handler.
<1>8. ASSUME UNCHANGED <<h, hpos, loops, overlapped>>, sem'[s] + SCnt'[s] = sem[s] + SCnt[s]
      PROVE  Balanced(s)'
  <2>1. CyclesSeen(s)' = CyclesSeen(s)
    BY <1>8 DEF CyclesSeen, Passed
  <2>2. Shutdowns(s)' = Shutdowns(s)
    BY <1>8 DEF Shutdowns, CallsEnded
  <2> QED BY <1>8, <1>c, <2>1, <2>2
<1>9. ASSUME NEW u \in Service, ServiceStep(u) PROVE Balanced(s)'
  <2>1. UNCHANGED <<h, hpos, loops, overlapped>>
    BY <1>9 DEF ServiceStep, tvars, hvars, history
  <2>2. sem'[s] + SCnt'[s] = sem[s] + SCnt[s]
    <3>1. CASE ServiceCheck(u)
      BY <3>1 DEF ServiceCheck
    <3>2. CASE ServiceRelease(u)
      BY <1>0, <3>2 DEF ServiceRelease
    <3> QED BY <1>9, <3>1, <3>2 DEF ServiceStep
  <2> QED BY <1>8, <2>1, <2>2
<1>10. CASE TimerExpires \/ MainStep \/ Ended \/ UNCHANGED vars
  <2>1. UNCHANGED <<h, hpos, loops, overlapped, sem, SCnt>>
    BY <1>10 DEF TimerExpires, MainStep, SetUpStep, SetUp, SetUpFails, CreateService, ArmTimer,
       Join, Ended, vars, svars, tvars, hvars, history
  <2> QED BY <1>8, <2>1
<1> QED
  BY <1>1, <1>3, <1>4, <1>5, <1>6, <1>7, <1>9, <1>10 DEF Next, Sequencer

\* As long as no handler calls have overlapped no release is lost or duplicated,
\* for any number of services and any dividers, whichever threads the handler
\* interrupts and however far the services lag behind.
THEOREM ReleasesAddUp == Spec => []ReleasesAccounted
BY InitReleases, NextReleases, TypeCorrect, HandlerInvariant, EndInvariant, SerialInvariant, PTL
   DEF Spec
=============================================================================
