-------------------------- MODULE ExecutorsProofs --------------------------
(***************************************************************************)
(* Proofs about Executors for any executors, pools, threads, ids and       *)
(* number of posts, and about the C# executors of CsProgram.               *)
(***************************************************************************)
EXTENDS Executors, CsProgram, SequenceTheorems, TLAPS

\* The calls and handlers that the actions put together have their types.
LEMMA CallTypes ==
    /\ NoCall \in Call
    /\ \A e \in Services, s \in BOOLEAN : [of |-> e, sync |-> s] \in Call
    /\ \A c \in Callers, s \in BOOLEAN : [of |-> c, sync |-> s] \in Handler
    /\ Main \in Callers
    /\ Execs \subseteq Services /\ Pools \subseteq Services
    /\ Workers \subseteq Callers /\ Clients \subseteq Callers
  BY DEF NoCall, Call, Handler, Callers, Services

\* Every variable keeps its type in a call and in its return.
LEMMA CallerTypeStep ==
    ASSUME TypeOK, NEW c \in Callers, Calling(c) \/ Returning(c)
    PROVE  TypeOK'
<1> USE CallTypes
<1>1. ASSUME NEW e \in Services, NEW sync \in BOOLEAN, Post(c, e, sync)
      PROVE  /\ queue' \in [Services -> Seq(Handler)]
             /\ call' \in [Callers -> Call]
  <2>1. queue[e] \in Seq(Handler)
    BY DEF TypeOK
  <2>2. Append(queue[e], [of |-> c, sync |-> sync]) \in Seq(Handler)
    BY <2>1
  <2>3. queue' \in [Services -> Seq(Handler)]
    BY <1>1, <2>2 DEF Post, TypeOK
  <2>4. call' \in [Callers -> Call]
    BY <1>1 DEF Post, TypeOK
  <2> QED
    BY <2>3, <2>4
<1>c. ASSUME CallPostTask(c) PROVE TypeOK'
  <2>1. posts' \in 0 .. MaxPosts
    BY <1>c, ExecutorsAssumption DEF CallPostTask, MayCall, TypeOK
  <2> QED
    BY <1>c, <2>1 DEF CallPostTask, TypeOK, svars
<1>2. ASSUME NEW i \in Ids, NEW sync \in BOOLEAN, post_task(c, i, sync) PROVE TypeOK'
  <2> DEFINE e == id_to_exec_[i]
  <2>1. CASE Locks(e)
    <3>1. e \in Services /\ Post(c, e, sync)
      BY <1>2, <2>1 DEF post_task, Locks, TypeOK
    <3>2. mtx_' \in Callers \cup {None}
      BY <1>2, <2>1 DEF post_task, TypeOK
    <3>3. pc' \in [Callers -> {"out", "lock", "drop", "join", "wait", "visit", "done"}]
      BY <1>2, <2>1 DEF post_task, TypeOK
    <3> QED
      BY <1>1, <1>2, <2>1, <3>1, <3>2, <3>3 DEF post_task, TypeOK
  <2>2. CASE ~Locks(e)
    BY <1>2, <2>2 DEF post_task, TypeOK
  <2> QED
    BY <2>1, <2>2
<1>3. ASSUME NEW e \in Pools, NEW sync \in BOOLEAN, AddToPool(c, e, sync) PROVE TypeOK'
  <2>1. Post(c, e, sync) /\ posts' \in 0 .. MaxPosts
    BY <1>3, ExecutorsAssumption DEF AddToPool, MayCall, TypeOK
  <2>2. pc' \in [Callers -> {"out", "lock", "drop", "join", "wait", "visit", "done"}]
    BY <1>3 DEF AddToPool, TypeOK
  <2> QED
    BY <1>1, <1>3, <2>1, <2>2 DEF AddToPool, TypeOK
<1>4. ASSUME Leave(c)
      PROVE  /\ pc' \in [Callers -> {"out", "lock", "drop", "join", "wait", "visit", "done"}]
             /\ mtx_' \in Callers \cup {None}
  BY <1>4 DEF Leave, TypeOK
<1>5. ASSUME Drop(c) PROVE TypeOK'
  <2>1. CASE owned[call[c].of]
    BY <1>4, <1>5, <2>1 DEF Drop, TypeOK, svars
  <2>2. CASE ~owned[call[c].of]
    <3>0. dtor' = [dtor EXCEPT ![call[c].of] = c]
      BY <1>5, <2>2 DEF Drop
    <3>1. dtor' \in [Services -> Callers \cup Services \cup {None}]
      BY <3>0 DEF TypeOK
    <3>2. pc' \in [Callers -> {"out", "lock", "drop", "join", "wait", "visit", "done"}]
      BY <1>5, <2>2, ZenonT(20) DEF Drop, TypeOK
    <3> QED
      BY <1>5, <2>2, <3>1, <3>2 DEF Drop, TypeOK, svars
  <2> QED
    BY <2>1, <2>2
<1>6. ASSUME JoinedInCall(c) PROVE TypeOK'
  <2>1. dtor' \in [Services -> Callers \cup Services \cup {None}]
    BY <1>6 DEF JoinedInCall, TypeOK
  <2>2. gone' \in [Services -> BOOLEAN]
    BY <1>6 DEF JoinedInCall, TypeOK
  <2> QED
    BY <1>4, <1>6, <2>1, <2>2 DEF JoinedInCall, TypeOK
<1>7. ASSUME Get(c) PROVE TypeOK'
  <2>1. call' \in [Callers -> Call]
    BY <1>7 DEF Get, TypeOK
  <2> QED
    BY <1>7, <2>1 DEF Get, TypeOK, svars
<1> QED
  BY <1>c, <1>2, <1>3, <1>5, <1>6, <1>7 DEF Calling, Posting, Returning

\* Every variable keeps its type in the other steps: registration, terminate_all,
\* owners and workers.
LEMMA OtherTypeStep ==
    ASSUME TypeOK,
           \/ \E i \in Ids, e \in Execs : add(i, e)
           \/ terminate_all
           \/ \E e \in Services : Release(e) \/ JoinedByOwner(e)
           \/ \E w \in Workers : Running(w)
           \/ UNCHANGED vars
    PROVE  TypeOK'
<1> USE CallTypes
<1>1. ASSUME NEW i \in Ids, NEW e \in Execs, add(i, e) PROVE TypeOK'
  BY <1>1 DEF add, TypeOK, svars
<1>2. CASE CallTerminateAll \/ BeginTerminate
  BY <1>2 DEF CallTerminateAll, BeginTerminate, TypeOK, svars
<1>3. ASSUME NEW i \in Ids, Visit(i) PROVE TypeOK'
  <2>1. CASE Locks(id_to_exec_[i])
    <3>1. id_to_exec_[i] \in Services
      BY <2>1 DEF Locks, TypeOK
    <3>2. stopped' \in [Services -> BOOLEAN]
      BY <1>3, <2>1 DEF Visit, TypeOK
    <3>3. call' \in [Callers -> Call]
      BY <1>3, <2>1, <3>1, ZenonT(20) DEF Visit, TypeOK
    <3> QED
      BY <1>3, <2>1, <3>2, <3>3 DEF Visit, TypeOK
  <2>2. CASE ~Locks(id_to_exec_[i])
    BY <1>3, <2>2 DEF Visit, TypeOK
  <2> QED
    BY <2>1, <2>2
<1>4. CASE EndTerminate
  BY <1>4 DEF EndTerminate, TypeOK, svars
<1>5. ASSUME NEW e \in Services, Release(e) PROVE TypeOK'
  <2>1. owned' \in [Services -> BOOLEAN]
    BY <1>5 DEF Release, TypeOK
  <2>2. dtor' \in [Services -> Callers \cup Services \cup {None}]
    BY <1>5 DEF Release, TypeOK
  <2>3. stopped' \in [Services -> BOOLEAN]
    BY <1>5 DEF Release, TypeOK
  <2> QED
    BY <1>5, <2>1, <2>2, <2>3 DEF Release, TypeOK
<1>6. ASSUME NEW e \in Services, JoinedByOwner(e) PROVE TypeOK'
  <2>1. gone' \in [Services -> BOOLEAN]
    BY <1>6 DEF JoinedByOwner, TypeOK
  <2>2. dtor' \in [Services -> Callers \cup Services \cup {None}]
    BY <1>6 DEF JoinedByOwner, TypeOK
  <2> QED
    BY <1>6, <2>1, <2>2 DEF JoinedByOwner, TypeOK
<1>7. ASSUME NEW w \in Workers, Take(w) PROVE TypeOK'
  <2>1. Home[w] \in Services
    BY ExecutorsAssumption
  <2>2. queue[Home[w]] \in Seq(Handler) /\ queue[Home[w]] # <<>>
    BY <1>7, <2>1 DEF Take, TypeOK
  <2>3. Head(queue[Home[w]]) \in Handler /\ Tail(queue[Home[w]]) \in Seq(Handler)
    BY <2>2
  <2>4. queue' \in [Services -> Seq(Handler)]
    BY <1>7, <2>1, <2>3 DEF Take, TypeOK
  <2>5. cur' \in [Workers -> Handler \cup {NoCall}]
    BY <1>7, <2>3 DEF Take, TypeOK
  <2> QED
    BY <1>7, <2>4, <2>5 DEF Take, TypeOK
<1>8. ASSUME NEW w \in Workers, Finish(w) PROVE TypeOK'
  <2>0. cur[w].sync => cur[w].of \in Callers
    BY DEF TypeOK, Handler, NoCall
  <2>1. ready' \subseteq Callers
    BY <1>8, <2>0 DEF Finish, TypeOK
  <2>2. cur' \in [Workers -> Handler \cup {NoCall}]
    BY <1>8 DEF Finish, TypeOK
  <2> QED
    BY <1>8, <2>1, <2>2 DEF Finish, TypeOK
<1>9. ASSUME NEW w \in Workers, Exit(w) PROVE TypeOK'
  BY <1>9 DEF Exit, TypeOK
<1>10. CASE UNCHANGED vars
  BY <1>10 DEF vars, svars, TypeOK
<1> QED
  BY <1>1, <1>2, <1>3, <1>4, <1>5, <1>6, <1>7, <1>8, <1>9, <1>10
  DEF terminate_all, Running

\* The type invariant of the executors: registry, services, threads and calls
\* always have their types.
THEOREM TypeCorrect == Spec => []TypeOK
<1>1. Init => TypeOK
  <2> SUFFICES ASSUME Init PROVE TypeOK
    OBVIOUS
  <2>1. queue \in [Services -> Seq(Handler)]
    BY DEF Init
  <2>2. cur \in [Workers -> Handler \cup {NoCall}] /\ call \in [Callers -> Call]
    BY CallTypes DEF Init
  <2>3. posts \in 0 .. MaxPosts
    BY ExecutorsAssumption DEF Init
  <2> QED
    BY <2>1, <2>2, <2>3 DEF Init, TypeOK
<1>2. TypeOK /\ [Next]_vars => TypeOK'
  BY CallerTypeStep, OtherTypeStep DEF Next
<1> QED
  BY <1>1, <1>2, PTL DEF Spec

-----------------------------------------------------------------------------
(***************************************************************************)
(* The life of an executor.  What NoUseAfterDestruction needs to be        *)
(* inductive: a reference that is locked inside the registry keeps its     *)
(* executor alive, the mutex makes it the only one there, and a destructor *)
(* begins only when the owner has let go.                                  *)
(***************************************************************************)

\* A caller inside the registry holds its mutex.
RegistryIsLocked ==
    \A c \in Callers : pc[c] \in {"drop", "join", "visit"} => mtx_ = c

\* A locked reference is to a living executor; a caller that joins is in its
\* destructor.
CallsInv ==
    \A c \in Callers :
        /\ pc[c] = "drop" => call[c].of \in Execs /\ Locks(call[c].of)
        /\ pc[c] = "join" => call[c].of \in Execs /\ dtor[call[c].of] = c

\* From the beginning of its destructor on an executor has no owner; when it is
\* gone its threads have ended.
LifeInv ==
    \A e \in Services :
        /\ dtor[e] # None => ~owned[e] /\ ~gone[e]
        /\ gone[e] => ~owned[e] /\ Joined(e)

\* A thread ends only when its service has been stopped, and a pool without an
\* owner has been stopped.
StoppedInv ==
    /\ \A w \in Workers : wpc[w] = "exited" => stopped[Home[w]]
    /\ \A e \in Pools : ~owned[e] => stopped[e]

\* The mutex is held throughout every call in the registry.
LEMMA LockStep ==
    ASSUME TypeOK, RegistryIsLocked, [Next]_vars
    PROVE  RegistryIsLocked'
<1> USE CallTypes
<1>1. ASSUME NEW c \in Callers, NEW i \in Ids, NEW sync \in BOOLEAN, post_task(c, i, sync)
      PROVE  RegistryIsLocked'
  BY <1>1, ExecutorsAssumption DEF post_task, RegistryIsLocked, TypeOK
<1>c. ASSUME NEW c \in Callers, CallPostTask(c) PROVE RegistryIsLocked'
  BY <1>c DEF CallPostTask, RegistryIsLocked, TypeOK
<1>2. ASSUME NEW c \in Callers, NEW e \in Pools, NEW sync \in BOOLEAN, AddToPool(c, e, sync)
      PROVE  RegistryIsLocked'
  BY <1>2 DEF AddToPool, RegistryIsLocked, TypeOK
<1>3. ASSUME NEW c \in Callers, Leave(c), pc[c] \in {"drop", "join"}
      PROVE  RegistryIsLocked'
  BY <1>3, ExecutorsAssumption DEF Leave, RegistryIsLocked, TypeOK
<1>4. ASSUME NEW c \in Callers, Drop(c) PROVE RegistryIsLocked'
  <2>1. CASE owned[call[c].of]
    BY <1>3, <1>4, <2>1 DEF Drop
  <2>2. CASE ~owned[call[c].of]
    <3>1. pc' = [pc EXCEPT ![c] = "join"] /\ mtx_' = mtx_ /\ pc[c] = "drop"
      BY <1>4, <2>2 DEF Drop
    <3> QED
      BY <3>1 DEF RegistryIsLocked, TypeOK
  <2> QED
    BY <2>1, <2>2
<1>5. ASSUME NEW c \in Callers, JoinedInCall(c) PROVE RegistryIsLocked'
  BY <1>3, <1>5 DEF JoinedInCall
<1>6. ASSUME NEW c \in Callers, Get(c) PROVE RegistryIsLocked'
  BY <1>6 DEF Get, RegistryIsLocked, TypeOK
<1>t. CASE CallTerminateAll
  BY <1>t DEF CallTerminateAll, RegistryIsLocked, TypeOK
<1>7. CASE BeginTerminate
  BY <1>7, ExecutorsAssumption DEF BeginTerminate, RegistryIsLocked, TypeOK
<1>8. ASSUME NEW i \in Ids, Visit(i) PROVE RegistryIsLocked'
  BY <1>8 DEF Visit, RegistryIsLocked, TypeOK
<1>9. CASE EndTerminate
  BY <1>9, ExecutorsAssumption DEF EndTerminate, RegistryIsLocked, TypeOK
<1>10. ASSUME NEW i \in Ids, NEW e \in Execs, add(i, e) PROVE RegistryIsLocked'
  BY <1>10 DEF add, RegistryIsLocked
<1>11. ASSUME NEW e \in Services, Release(e) \/ JoinedByOwner(e) PROVE RegistryIsLocked'
  BY <1>11 DEF Release, JoinedByOwner, RegistryIsLocked
<1>12. ASSUME NEW w \in Workers, Running(w) PROVE RegistryIsLocked'
  BY <1>12 DEF Running, Take, Finish, Exit, RegistryIsLocked
<1>13. CASE UNCHANGED vars
  BY <1>13 DEF vars, RegistryIsLocked
<1> QED
  BY <1>1, <1>c, <1>2, <1>4, <1>5, <1>6, <1>t, <1>7, <1>8, <1>9, <1>10, <1>11, <1>12, <1>13
  DEF Next, Calling, Posting, Returning, terminate_all

\* The services in use are alive, and the destructors are run by those who join.
LEMMA CallsStep ==
    ASSUME TypeOK, RegistryIsLocked, CallsInv, LifeInv, [Next]_vars
    PROVE  CallsInv' /\ LifeInv'
<1> USE CallTypes
<1> DEFINE Alive(e) == dtor[e] = None /\ ~gone[e]
<1>0. \A e \in Services : Locks(e) <=> Alive(e)
  BY ExecutorsAssumption DEF Locks
<1>1. ASSUME NEW c \in Callers, NEW i \in Ids, NEW sync \in BOOLEAN, post_task(c, i, sync)
      PROVE  CallsInv' /\ LifeInv'
  <2>1. UNCHANGED <<dtor, gone, owned, wpc>>
    BY <1>1 DEF post_task
  <2>2. LifeInv'
    BY <2>1 DEF LifeInv, Joined
  <2>3. CallsInv'
    <3>1. CASE Locks(id_to_exec_[i])
      <4>1. id_to_exec_[i] \in Execs
        BY <3>1 DEF Locks, TypeOK
      <4>2. /\ pc' = [pc EXCEPT ![c] = "drop"]
            /\ call' = [call EXCEPT ![c] = [of |-> id_to_exec_[i], sync |-> sync]]
        BY <1>1, <3>1 DEF post_task, Post
      <4> QED
        BY <2>1, <3>1, <4>1, <4>2 DEF CallsInv, Locks, TypeOK
    <3>2. CASE ~Locks(id_to_exec_[i])
      BY <1>1, <2>1, <3>2 DEF post_task, CallsInv, Locks, TypeOK
    <3> QED
      BY <3>1, <3>2
  <2> QED
    BY <2>2, <2>3
<1>c. ASSUME NEW c \in Callers, CallPostTask(c) PROVE CallsInv' /\ LifeInv'
  BY <1>c DEF CallPostTask, CallsInv, LifeInv, Locks, Joined, TypeOK, svars
<1>2. ASSUME NEW c \in Callers, NEW e \in Pools, NEW sync \in BOOLEAN, AddToPool(c, e, sync)
      PROVE  CallsInv' /\ LifeInv'
  <2>1. UNCHANGED <<dtor, gone, owned, wpc>>
    BY <1>2 DEF AddToPool
  <2>2. /\ pc' = [pc EXCEPT ![c] = IF sync THEN "wait" ELSE "out"]
        /\ call' = [call EXCEPT ![c] = [of |-> e, sync |-> sync]]
    BY <1>2 DEF AddToPool, Post
  <2> QED
    BY <2>1, <2>2 DEF CallsInv, LifeInv, Locks, Joined, TypeOK
<1>3. ASSUME NEW c \in Callers, Leave(c)
      PROVE  /\ pc'[c] \notin {"drop", "join"}
             /\ \A d \in Callers \ {c} : pc'[d] = pc[d]
  BY <1>3 DEF Leave, TypeOK
<1>4. ASSUME NEW c \in Callers, Drop(c) PROVE CallsInv' /\ LifeInv'
  <2> DEFINE e == call[c].of
  <2>1. e \in Execs /\ Alive(e) /\ UNCHANGED <<gone, owned, wpc, call>>
    BY <1>0, <1>4 DEF Drop, CallsInv, svars
  <2>2. CASE owned[e]
    <3>1. Leave(c) /\ UNCHANGED dtor
      BY <1>4, <2>2 DEF Drop
    <3> QED
      BY <1>3, <2>1, <3>1 DEF CallsInv, LifeInv, Locks, Joined
  <2>3. CASE ~owned[e]
    <3>1. dtor' = [dtor EXCEPT ![e] = c] /\ pc' = [pc EXCEPT ![c] = "join"]
      BY <1>4, <2>3 DEF Drop
    <3>2. \A d \in Callers \ {c} : pc[d] \notin {"drop", "join"}
      BY <1>4 DEF Drop, RegistryIsLocked
    <3>3. LifeInv'
      BY <2>1, <2>3, <3>1 DEF LifeInv, Joined, TypeOK
    <3>4. CallsInv'
      BY <2>1, <3>1, <3>2 DEF CallsInv, TypeOK
    <3> QED
      BY <3>3, <3>4
  <2> QED
    BY <2>2, <2>3
<1>5. ASSUME NEW c \in Callers, JoinedInCall(c) PROVE CallsInv' /\ LifeInv'
  <2> DEFINE e == call[c].of
  <2>1. /\ e \in Execs /\ dtor[e] = c /\ Joined(e)
        /\ gone' = [gone EXCEPT ![e] = TRUE]
        /\ dtor' = [dtor EXCEPT ![e] = None]
        /\ UNCHANGED <<owned, wpc, call>>
    BY <1>5 DEF JoinedInCall, CallsInv
  <2>2. \A d \in Callers : pc'[d] \notin {"drop", "join"}
    BY <1>3, <1>5 DEF JoinedInCall, RegistryIsLocked
  <2>3. ~owned[e]
    BY <2>1, ExecutorsAssumption DEF LifeInv
  <2>4. LifeInv'
    BY <2>1, <2>3 DEF LifeInv, Joined, TypeOK
  <2> QED
    BY <2>2, <2>4 DEF CallsInv
<1>6. ASSUME NEW c \in Callers, Get(c) PROVE CallsInv' /\ LifeInv'
  BY <1>6 DEF Get, CallsInv, LifeInv, Locks, Joined, TypeOK, svars
<1>7. CASE CallTerminateAll \/ BeginTerminate
  BY <1>7 DEF CallTerminateAll, BeginTerminate, CallsInv, LifeInv, Locks, Joined, TypeOK, svars
<1>8. ASSUME NEW i \in Ids, Visit(i) PROVE CallsInv' /\ LifeInv'
  <2>1. UNCHANGED <<dtor, gone, owned, wpc>>
    BY <1>8 DEF Visit
  <2>2. LifeInv'
    BY <2>1 DEF LifeInv, Joined
  <2>3. CASE Locks(id_to_exec_[i])
    <3>1. id_to_exec_[i] \in Execs
      BY <2>3 DEF Locks, TypeOK
    <3>2. /\ pc' = [pc EXCEPT ![Main] = "drop"]
          /\ call' = [call EXCEPT ![Main] = [of |-> id_to_exec_[i], sync |-> FALSE]]
      BY <1>8, <2>3 DEF Visit
    <3> QED
      BY <2>1, <2>2, <2>3, <3>1, <3>2 DEF CallsInv, Locks, TypeOK
  <2>4. CASE ~Locks(id_to_exec_[i])
    BY <1>8, <2>1, <2>2, <2>4 DEF Visit, CallsInv, Locks
  <2> QED
    BY <2>3, <2>4
<1>9. CASE EndTerminate
  BY <1>9 DEF EndTerminate, CallsInv, LifeInv, Locks, Joined, TypeOK, svars
<1>10. ASSUME NEW i \in Ids, NEW e \in Execs, add(i, e) PROVE CallsInv' /\ LifeInv'
  BY <1>10 DEF add, CallsInv, LifeInv, Locks, Joined, svars
<1>11. ASSUME NEW e \in Services, Release(e) PROVE CallsInv' /\ LifeInv'
  <2>1. Alive(e)
    BY <1>11 DEF Release, LifeInv
  <2>2. /\ owned[e] /\ owned' = [owned EXCEPT ![e] = FALSE]
        /\ dtor' = [dtor EXCEPT ![e] = IF InUse(e) THEN None ELSE e]
        /\ UNCHANGED <<gone, wpc, pc, call>>
    BY <1>11 DEF Release
  <2>3. LifeInv'
    BY <2>1, <2>2 DEF LifeInv, Joined, TypeOK
  <2>4. \A d \in Services : d # e => (Locks(d)' <=> Locks(d)) /\ dtor'[d] = dtor[d]
    BY <2>2 DEF Locks, TypeOK
  <2>5. InUse(e) => Locks(e)'
    BY <2>1, <2>2, ExecutorsAssumption DEF Locks, TypeOK
  <2>6. ASSUME NEW c \in Callers, pc[c] = "drop"
        PROVE  call[c].of \in Execs /\ Locks(call[c].of)'
    BY <2>2, <2>4, <2>5, <2>6 DEF CallsInv, InUse
  <2>7. ASSUME NEW c \in Callers, pc[c] = "join"
        PROVE  call[c].of \in Execs /\ dtor'[call[c].of] = c
    BY <2>1, <2>4, <2>7, ExecutorsAssumption DEF CallsInv
  <2> QED
    BY <2>2, <2>3, <2>6, <2>7 DEF CallsInv
<1>12. ASSUME NEW e \in Services, JoinedByOwner(e) PROVE CallsInv' /\ LifeInv'
  <2>1. /\ dtor[e] = e /\ Joined(e)
        /\ gone' = [gone EXCEPT ![e] = TRUE]
        /\ dtor' = [dtor EXCEPT ![e] = None]
        /\ UNCHANGED <<owned, wpc, pc, call>>
    BY <1>12 DEF JoinedByOwner
  <2>2. ~owned[e]
    BY <2>1, ExecutorsAssumption DEF LifeInv
  <2>3. LifeInv'
    BY <2>1, <2>2 DEF LifeInv, Joined, TypeOK
  <2>4. \A d \in Services : d # e => (Locks(d)' <=> Locks(d)) /\ dtor'[d] = dtor[d]
    BY <2>1 DEF Locks, TypeOK
  <2>5. \A c \in Callers : pc[c] \in {"drop", "join"} => call[c].of # e
    BY <1>0, <2>1, ExecutorsAssumption DEF CallsInv
  <2> QED
    BY <2>1, <2>3, <2>4, <2>5 DEF CallsInv
<1>13. ASSUME NEW w \in Workers, Running(w) PROVE CallsInv' /\ LifeInv'
  <2>1. UNCHANGED <<dtor, gone, owned, pc, call>>
    BY <1>13 DEF Running, Take, Finish, Exit
  <2>2. \A v \in Workers : wpc[v] = "exited" => wpc'[v] = "exited"
    BY <1>13 DEF Running, Take, Finish, Exit, TypeOK
  <2> QED
    BY <2>1, <2>2 DEF CallsInv, LifeInv, Locks, Joined
<1>14. CASE UNCHANGED vars
  BY <1>14 DEF vars, svars, CallsInv, LifeInv, Locks, Joined
<1> QED
  BY <1>1, <1>c, <1>2, <1>4, <1>5, <1>6, <1>7, <1>8, <1>9, <1>10, <1>11, <1>12, <1>13, <1>14
  DEF Next, Calling, Posting, Returning, terminate_all

\* Nothing is started again once it has been stopped.
LEMMA StoppedStep ==
    ASSUME TypeOK, StoppedInv, [Next]_vars
    PROVE  StoppedInv'
<1> USE CallTypes
<1>0. stopped \in [Services -> BOOLEAN] /\ \A w \in Workers : Home[w] \in Services
  BY ExecutorsAssumption DEF TypeOK
<1>1. ASSUME NEW e \in Services, Release(e) PROVE StoppedInv'
  <2>1. stopped' = [stopped EXCEPT ![e] = stopped[e] \/ e \in Pools]
    BY <1>1 DEF Release
  <2>2. \A d \in Services : stopped[d] => stopped'[d]
    BY <1>0, <2>1, Zenon
  <2>3. ASSUME e \in Pools PROVE stopped'[e]
    <3>1. stopped'[e] = (stopped[e] \/ e \in Pools)
      BY <1>0, <2>1, Zenon
    <3> QED
      BY <2>3, <3>1, Zenon
  <2>4. \A d \in Services : d # e => owned'[d] = owned[d]
    BY <1>1 DEF Release, TypeOK
  <2>5. wpc' = wpc
    BY <1>1 DEF Release
  <2> QED
    BY <1>0, <2>2, <2>3, <2>4, <2>5 DEF StoppedInv
<1>2. ASSUME NEW i \in Ids, Visit(i) PROVE StoppedInv'
  <2>1. \/ stopped' = [stopped EXCEPT ![id_to_exec_[i]] = TRUE]
        \/ stopped' = stopped
    BY <1>2 DEF Visit
  <2>2. \A d \in Services : stopped[d] => stopped'[d]
    BY <1>0, <2>1, Zenon
  <2>3. UNCHANGED <<owned, wpc>>
    BY <1>2 DEF Visit
  <2> QED
    BY <1>0, <2>2, <2>3 DEF StoppedInv
<1>3. ASSUME NEW w \in Workers, Running(w) PROVE StoppedInv'
  BY <1>0, <1>3 DEF Running, Take, Finish, Exit, StoppedInv, TypeOK
<1>4. ASSUME UNCHANGED <<stopped, owned, wpc>> PROVE StoppedInv'
  BY <1>4 DEF StoppedInv
<1> QED
  BY <1>1, <1>2, <1>3, <1>4
  DEF Next, Calling, Posting, Returning, terminate_all, add, CallPostTask, post_task, AddToPool,
      Drop, JoinedInCall, Get, CallTerminateAll, BeginTerminate, EndTerminate, JoinedByOwner, vars, svars

\* All the invariants together hold in every reachable state of the executors.
LEMMA Life == Spec => [](TypeOK /\ RegistryIsLocked /\ CallsInv /\ LifeInv /\ StoppedInv)
<1>1. Init => RegistryIsLocked /\ CallsInv /\ LifeInv /\ StoppedInv
  BY CallTypes DEF Init, RegistryIsLocked, CallsInv, LifeInv, StoppedInv
<1> QED
  BY <1>1, TypeCorrect, LockStep, CallsStep, StoppedStep, PTL DEF Spec

\* Nobody touches an executor or a pool that has been destroyed, although calls in
\* the registry, owners and terminate_all race: what ~asio_executor and
\* ~AsioThreadPool join for, and what the weak pointers are for.
THEOREM NoUseAfterDestructionHolds == Spec => []NoUseAfterDestruction
<1>1. CallsInv /\ LifeInv => NoUseAfterDestruction
  BY CallTypes DEF CallsInv, LifeInv, NoUseAfterDestruction, Joined, InUse, Locks
<1> QED
  BY <1>1, Life, PTL

\* ~asio_executor returns only when terminate_all has stopped the executor, and
\* ~AsioThreadPool when it has stopped the pool itself.
THEOREM OnlyTerminatedAreDestroyed == Spec => []DestroyedOnlyTerminated
<1>1. TypeOK /\ LifeInv /\ StoppedInv => DestroyedOnlyTerminated
  BY ExecutorsAssumption
  DEF LifeInv, StoppedInv, DestroyedOnlyTerminated, Joined, TypeOK, Services
<1> QED
  BY <1>1, Life, PTL

-----------------------------------------------------------------------------
(***************************************************************************)
(* The futures of executors::post and getId.  A caller that waits has      *)
(* exactly one packaged_task: in the queue of the service it asked, in a   *)
(* thread of that service, or run.                                         *)
(***************************************************************************)

\* c is between the post of a packaged_task and its get.
InSyncCall(c) == pc[c] \in {"drop", "join", "wait"} /\ call[c].sync

\* A queue without a second copy of a packaged_task.
Single(s) == \A k, l \in 1 .. Len(s) : s[k].sync /\ s[k] = s[l] => k = l

\* Only posters other than Main wait.
SyncInv ==
    /\ ~call[Main].sync
    /\ \A c \in Callers : pc[c] = "wait" => call[c].sync

\* A packaged_task, queued, running or run, belongs to the call its poster is in.
OwnTaskInv ==
    \A c \in Callers :
        /\ c \in ready => InSyncCall(c)
        /\ \A e \in Services : Queued(c, e) => InSyncCall(c) /\ call[c].of = e /\ c \notin ready
        /\ \A w \in Workers :
               Runs(c, w) => InSyncCall(c) /\ call[c].of = Home[w] /\ c \notin ready

\* There is one of it.
OneTaskInv ==
    /\ \A e \in Services : Single(queue[e])
    /\ \A c \in Callers, w \in Workers :
           Runs(c, w) => /\ \A e \in Services : ~Queued(c, e)
                         /\ \A v \in Workers : Runs(c, v) => v = w

\* It is not lost.
KeptTaskInv ==
    \A c \in Callers : InSyncCall(c) =>
        \/ c \in ready
        \/ Queued(c, call[c].of)
        \/ \E w \in Workers : Home[w] = call[c].of /\ Runs(c, w)

FutureInv == SyncInv /\ OwnTaskInv /\ OneTaskInv /\ KeptTaskInv

\* A packaged_task is known by its poster.
LEMMA Tasks ==
    /\ \A c \in Callers : Task(c) \in Handler /\ Task(c).sync
    /\ \A c, d \in Callers : Task(c) = Task(d) => c = d
    /\ \A h \in Handler \cup {NoCall} : h.sync => h.of \in Callers /\ h = Task(h.of)
    /\ ~NoCall.sync
    /\ \A c, d \in Callers : Task(c) # [of |-> d, sync |-> FALSE]
    /\ \A c \in Callers, b \in BOOLEAN : b => [of |-> c, sync |-> b] = Task(c)
<1>1. \A h \in Handler \cup {NoCall} : h.sync => h.of \in Callers /\ h = Task(h.of)
  BY DEF Handler, NoCall, Task
<1>2. \A c, d \in Callers : Task(c) = Task(d) => c = d
  <2>1. \A c \in Callers : Task(c).of = c
    BY DEF Task
  <2>. QED  BY <2>1
<1>3. \A c, d \in Callers : Task(c) # [of |-> d, sync |-> FALSE]
  <2>1. \A c, d \in Callers : Task(c).sync = TRUE /\ [of |-> d, sync |-> FALSE].sync = FALSE
    BY DEF Task
  <2>. QED  BY <2>1
<1>4. \A c \in Callers : Task(c) \in Handler /\ Task(c).sync
  BY DEF Task, Handler
<1>5. ~NoCall.sync
  BY DEF NoCall
<1>6. \A c \in Callers, b \in BOOLEAN : b => [of |-> c, sync |-> b] = Task(c)
  BY DEF Task
<1>. QED  BY <1>1, <1>2, <1>3, <1>4, <1>5, <1>6

\* Posting a handler that is not in the queue.
LEMMA HandlerPosted ==
    ASSUME NEW s \in Seq(Handler), NEW h \in Handler
    PROVE  /\ \A x : In(x, Append(s, h)) <=> In(x, s) \/ x = h
           /\ Single(s) /\ (h.sync => ~In(h, s)) => Single(Append(s, h))
<1> DEFINE t == Append(s, h)
           n == Len(s)
<1>1. /\ n \in Nat /\ Len(t) = n + 1 /\ t[n + 1] = h
      /\ \A k \in 1 .. n : t[k] = s[k]
  OBVIOUS
<1>2. \A k \in 1 .. Len(t) : k \in 1 .. n \/ k = n + 1
  BY <1>1
<1>3. n + 1 \in 1 .. Len(t) /\ \A k \in 1 .. n : k \in 1 .. Len(t)
  BY <1>1
<1>4. \A x : In(x, t) <=> In(x, s) \/ x = h
  BY <1>1, <1>2, <1>3 DEF In
<1>5. ASSUME Single(s), h.sync => ~In(h, s) PROVE Single(t)
  BY <1>1, <1>2, <1>5 DEF Single, In
<1>. QED  BY <1>4, <1>5

\* Taking the head of a queue.
LEMMA HandlerTaken ==
    ASSUME NEW s \in Seq(Handler), s # <<>>
    PROVE  /\ Head(s) \in Handler /\ Tail(s) \in Seq(Handler)
           /\ \A x : In(x, s) <=> In(x, Tail(s)) \/ x = Head(s)
           /\ Single(s) => Single(Tail(s)) /\ (Head(s).sync => ~In(Head(s), Tail(s)))
<1> DEFINE t == Tail(s)
           n == Len(t)
<1>1. /\ n \in Nat /\ Len(s) = n + 1 /\ Head(s) = s[1]
      /\ Head(s) \in Handler /\ t \in Seq(Handler)
      /\ \A k \in 1 .. n : t[k] = s[k + 1]
  OBVIOUS
<1> HIDE DEF t, n
<1>2. \A k \in 1 .. Len(s) : k = 1 \/ (k - 1 \in 1 .. n /\ (k - 1) + 1 = k)
  BY <1>1
<1>3. 1 \in 1 .. Len(s) /\ \A k \in 1 .. n : k + 1 \in 1 .. Len(s) /\ k + 1 # 1
  BY <1>1
<1>4. \A k, l \in 1 .. n : k + 1 = l + 1 => k = l
  OBVIOUS
<1>5. ASSUME NEW x PROVE In(x, s) <=> In(x, t) \/ x = Head(s)
  <2>1. ASSUME NEW k \in 1 .. Len(s), s[k] = x, k # 1 PROVE In(x, t)
    <3>1. k - 1 \in 1 .. n /\ t[k - 1] = s[k]
      BY <1>1, <1>2, <2>1
    <3>. QED  BY <2>1, <3>1 DEF In, n
  <2>2. ASSUME In(x, t) PROVE In(x, s)
    BY <1>1, <1>3, <2>2 DEF In, n
  <2>3. x = Head(s) => In(x, s)
    BY <1>1, <1>3 DEF In
  <2>. QED  BY <1>1, <2>1, <2>2, <2>3 DEF In
<1>6. ASSUME Single(s) PROVE Single(t)
  BY <1>1, <1>3, <1>4, <1>6 DEF Single, n
<1>7. ASSUME Single(s), Head(s).sync PROVE ~In(Head(s), t)
  BY <1>1, <1>3, <1>7 DEF Single, In, n
<1>. QED  BY <1>1, <1>5, <1>6, <1>7 DEF t

\* A step that moves no handler, and begins and ends no call that waits for one.
LEMMA QuietStep ==
    ASSUME FutureInv, SyncInv', queue' = queue, ready' = ready,
           \A c \in Callers, w \in Workers : Runs(c, w)' <=> Runs(c, w),
           \A c \in Callers : InSyncCall(c)' <=> InSyncCall(c),
           \A c \in Callers : InSyncCall(c) => call'[c].of = call[c].of
    PROVE  FutureInv'
<1>1. \A c \in Callers, e \in Services : Queued(c, e)' <=> Queued(c, e)
  BY DEF Queued
<1>2. OwnTaskInv'
  BY <1>1 DEF FutureInv, OwnTaskInv
<1>3. OneTaskInv'
  BY <1>1 DEF FutureInv, OneTaskInv
<1>4. KeptTaskInv'
  BY DEF FutureInv, KeptTaskInv, Queued
<1>. QED  BY <1>2, <1>3, <1>4 DEF FutureInv

\* io_service::post: a packaged_task joins the queue of a caller that has none.
LEMMA PostFuture ==
    ASSUME TypeOK, FutureInv,
           NEW c \in Callers, NEW e \in Services, NEW sync \in BOOLEAN,
           Post(c, e, sync), pc[c] \in {"out", "lock"}, c # Main,
           UNCHANGED <<wpc, cur, ready>>,
           \A d \in Callers \ {c} : pc'[d] = pc[d],
           pc'[c] \in {"drop", IF sync THEN "wait" ELSE "out"}
    PROVE  FutureInv'
<1> DEFINE h == [of |-> c, sync |-> sync]
<1>0. /\ queue \in [Services -> Seq(Handler)] /\ queue[e] \in Seq(Handler)
      /\ h \in Handler /\ h.sync = sync /\ (sync => h = Task(c))
  BY CallTypes, Tasks DEF TypeOK
<1>1. /\ queue' = [queue EXCEPT ![e] = Append(queue[e], h)]
      /\ call' = [call EXCEPT ![c] = [of |-> e, sync |-> sync]]
  BY DEF Post
<1>2. /\ call'[c].of = e /\ call'[c].sync = sync
      /\ \A d \in Callers \ {c} : call'[d] = call[d]
      /\ queue'[e] = Append(queue[e], h)
      /\ \A f \in Services \ {e} : queue'[f] = queue[f]
  BY <1>0, <1>1 DEF TypeOK
<1>3. /\ \A d \in Callers \ {c} : InSyncCall(d)' <=> InSyncCall(d)
      /\ InSyncCall(c)' <=> sync
      /\ ~InSyncCall(c)
  BY <1>2 DEF InSyncCall
<1>4. /\ c \notin ready
      /\ \A f \in Services : ~Queued(c, f)
      /\ \A w \in Workers : ~Runs(c, w)
  BY <1>3 DEF FutureInv, OwnTaskInv
<1>5. \A d \in Callers, w \in Workers : Runs(d, w)' <=> Runs(d, w)
  BY DEF Runs
<1>6. /\ sync => ~In(h, queue[e])
      /\ \A d \in Callers \ {c} : Task(d) # h
      /\ sync <=> Task(c) = h
  <2>1. sync => ~In(h, queue[e])
    BY <1>0, <1>4 DEF Queued
  <2>2. sync => \A d \in Callers \ {c} : Task(d) # h
    BY <1>0, Tasks
  <2>3. ~sync => \A d \in Callers : Task(d) # h
    BY <1>0, Tasks
  <2>. QED  BY <1>0, <2>1, <2>2, <2>3
<1> HIDE DEF h
<1>7. /\ \A x : In(x, queue'[e]) <=> In(x, queue[e]) \/ x = h
      /\ Single(queue[e]) => Single(queue'[e])
  BY <1>0, <1>2, <1>6, HandlerPosted
<1>8. /\ \A d \in Callers \ {c}, f \in Services : Queued(d, f)' <=> Queued(d, f)
      /\ \A f \in Services \ {e} : ~Queued(c, f)'
      /\ Queued(c, e)' <=> sync
  BY <1>2, <1>4, <1>6, <1>7 DEF Queued
<1>9. SyncInv'
  BY <1>2, ExecutorsAssumption DEF FutureInv, SyncInv, Callers
<1>10. OwnTaskInv'
  BY <1>2, <1>3, <1>4, <1>5, <1>8 DEF FutureInv, OwnTaskInv
<1>11. OneTaskInv'
  <2>1. \A f \in Services : Single(queue'[f])
    BY <1>2, <1>7 DEF FutureInv, OneTaskInv
  <2>. QED  BY <1>4, <1>5, <1>8, <2>1 DEF FutureInv, OneTaskInv
<1>12. KeptTaskInv'
  <2>1. ASSUME NEW d \in Callers \ {c}, InSyncCall(d)'
        PROVE  \/ d \in ready'
               \/ Queued(d, call[d].of)'
               \/ \E w \in Workers : Home[w] = call'[d].of /\ Runs(d, w)'
    <3>1. call'[d].of = call[d].of /\ InSyncCall(d)
      BY <1>2, <1>3, <2>1
    <3>2. Queued(d, call[d].of) => Queued(d, call[d].of)'
      <4>1. In(Task(d), queue[call[d].of]) => In(Task(d), queue'[call[d].of])
        BY <1>0, <1>1, <1>2, <1>7
      <4>. QED  BY <3>1, <4>1 DEF Queued
    <3>. QED  BY <1>5, <3>1, <3>2 DEF FutureInv, KeptTaskInv
  <2>2. InSyncCall(c)' => Queued(c, call[c].of)'
    BY <1>2, <1>3, <1>8 DEF Queued
  <2>. QED  BY <2>1, <2>2 DEF KeptTaskInv
<1>. QED  BY <1>9, <1>10, <1>11, <1>12 DEF FutureInv

\* f->get() returns: the task of this call has run, and there is no other.
LEMMA GetFuture ==
    ASSUME TypeOK, FutureInv, NEW c \in Callers, Get(c)
    PROVE  FutureInv'
<1>1. /\ UNCHANGED <<queue, wpc, cur>> /\ ready' = ready \ {c} /\ c \in ready
      /\ pc' = [pc EXCEPT ![c] = "out"] /\ call' = [call EXCEPT ![c] = NoCall]
  BY DEF Get, svars
<1>2. /\ ~call'[c].sync /\ \A d \in Callers \ {c} : call'[d] = call[d] /\ pc'[d] = pc[d]
      /\ pc'[c] = "out"
  BY <1>1, Tasks DEF TypeOK
<1>3. /\ \A d \in Callers \ {c} : InSyncCall(d)' <=> InSyncCall(d)
      /\ ~InSyncCall(c)'
  BY <1>2 DEF InSyncCall
<1>4. /\ \A f \in Services : ~Queued(c, f)
      /\ \A w \in Workers : ~Runs(c, w)
  BY <1>1 DEF FutureInv, OwnTaskInv
<1>5. /\ \A d \in Callers, w \in Workers : Runs(d, w)' <=> Runs(d, w)
      /\ \A d \in Callers, f \in Services : Queued(d, f)' <=> Queued(d, f)
  BY <1>1 DEF Runs, Queued
<1>6. SyncInv'
  BY <1>2, ExecutorsAssumption DEF FutureInv, SyncInv, Callers
<1>7. OwnTaskInv'
  BY <1>1, <1>2, <1>3, <1>4, <1>5 DEF FutureInv, OwnTaskInv
<1>8. OneTaskInv'
  BY <1>1, <1>5 DEF FutureInv, OneTaskInv
<1>9. KeptTaskInv'
  BY <1>1, <1>2, <1>3, <1>5 DEF FutureInv, KeptTaskInv, Queued
<1>. QED  BY <1>6, <1>7, <1>8, <1>9 DEF FutureInv

\* A thread takes a handler: a packaged_task is no longer queued, and runs.
LEMMA TakeFuture ==
    ASSUME TypeOK, FutureInv, NEW w \in Workers, Take(w)
    PROVE  FutureInv'
<1>0. PICK e \in Services : e = Home[w]
  BY ExecutorsAssumption
<1>1. /\ queue[e] \in Seq(Handler) /\ queue[e] # <<>>
      /\ queue' = [queue EXCEPT ![e] = Tail(queue[e])]
      /\ cur' = [cur EXCEPT ![w] = Head(queue[e])]
      /\ wpc' = [wpc EXCEPT ![w] = "task"] /\ wpc[w] = "idle"
      /\ UNCHANGED <<pc, call, ready>>
  BY <1>0 DEF Take, TypeOK
<1> DEFINE h == Head(queue[e])
<1>2. /\ queue'[e] = Tail(queue[e]) /\ \A f \in Services \ {e} : queue'[f] = queue[f]
      /\ cur'[w] = h /\ wpc'[w] = "task"
      /\ \A v \in Workers \ {w} : cur'[v] = cur[v] /\ wpc'[v] = wpc[v]
  BY <1>1 DEF TypeOK
<1>3. /\ h \in Handler
      /\ \A x : In(x, queue[e]) <=> In(x, queue'[e]) \/ x = h
      /\ Single(queue[e]) => Single(queue'[e]) /\ (h.sync => ~In(h, queue'[e]))
  <2>1. /\ Head(queue[e]) \in Handler
        /\ \A x : In(x, queue[e]) <=> In(x, Tail(queue[e])) \/ x = Head(queue[e])
        /\ Single(queue[e]) =>
               /\ Single(Tail(queue[e]))
               /\ Head(queue[e]).sync => ~In(Head(queue[e]), Tail(queue[e]))
    BY <1>1, HandlerTaken
  <2>. QED  BY <1>2, <2>1
<1> HIDE DEF h
<1>4. \A c \in Callers : InSyncCall(c)' <=> InSyncCall(c)
  BY <1>1 DEF InSyncCall
<1>5. \A c \in Callers :
        /\ ~Runs(c, w) /\ (Runs(c, w)' <=> Task(c) = h)
        /\ \A v \in Workers \ {w} : Runs(c, v)' <=> Runs(c, v)
  BY <1>1, <1>2 DEF Runs
<1>6. \A c \in Callers : Task(c) = h => Queued(c, e) /\ ~Queued(c, e)'
  BY <1>3, Tasks DEF Queued, FutureInv, OneTaskInv
<1>7. \A c \in Callers :
        /\ Task(c) # h => (Queued(c, e)' <=> Queued(c, e))
        /\ \A f \in Services \ {e} : Queued(c, f)' <=> Queued(c, f)
  BY <1>2, <1>3 DEF Queued
<1>8. SyncInv'
  BY <1>1 DEF FutureInv, SyncInv
<1>9. OwnTaskInv'
  BY <1>0, <1>1, <1>4, <1>5, <1>6, <1>7 DEF FutureInv, OwnTaskInv
<1>10. OneTaskInv'
  <2>1. \A f \in Services : Single(queue'[f])
    BY <1>2, <1>3 DEF FutureInv, OneTaskInv
  <2>2. ASSUME NEW c \in Callers, NEW v \in Workers, Runs(c, v)'
        PROVE  /\ \A f \in Services : ~Queued(c, f)'
               /\ \A u \in Workers : Runs(c, u)' => u = v
    <3>1. CASE Task(c) = h
      <4>1. \A f \in Services \ {e} : ~Queued(c, f)
        BY <1>6, <3>1 DEF FutureInv, OwnTaskInv
      <4>2. \A u \in Workers : ~Runs(c, u)
        BY <1>6, <3>1 DEF FutureInv, OneTaskInv
      <4>. QED  BY <1>5, <1>6, <1>7, <2>2, <3>1, <4>1, <4>2
    <3>2. CASE Task(c) # h
      BY <1>5, <1>7, <2>2, <3>2 DEF FutureInv, OneTaskInv
    <3>. QED  BY <3>1, <3>2
  <2>. QED  BY <2>1, <2>2 DEF OneTaskInv
<1>11. KeptTaskInv'
  <2>1. ASSUME NEW c \in Callers, InSyncCall(c), Queued(c, call[c].of)
        PROVE  Queued(c, call[c].of)' \/ (Home[w] = call[c].of /\ Runs(c, w)')
    <3>1. CASE call[c].of = e
      BY <1>0, <1>1, <1>5, <1>7, <2>1, <3>1 DEF Queued
    <3>2. CASE call[c].of # e
      <4>1. queue'[call[c].of] = queue[call[c].of]
        BY <1>1, <3>2 DEF TypeOK
      <4>. QED  BY <1>1, <2>1, <4>1 DEF Queued
    <3>. QED  BY <3>1, <3>2
  <2>2. \A c \in Callers, v \in Workers : Runs(c, v) => Runs(c, v)'
    BY <1>5
  <2>. QED  BY <1>1, <1>4, <2>1, <2>2 DEF FutureInv, KeptTaskInv
<1>. QED  BY <1>8, <1>9, <1>10, <1>11 DEF FutureInv

\* A handler returns: a packaged_task has run, and its poster can get the result.
LEMMA FinishFuture ==
    ASSUME TypeOK, FutureInv, NEW w \in Workers, Finish(w)
    PROVE  FutureInv'
<1>1. /\ UNCHANGED <<queue, pc, call>> /\ wpc[w] = "task"
      /\ wpc' = [wpc EXCEPT ![w] = "idle"] /\ cur' = [cur EXCEPT ![w] = NoCall]
      /\ ready' = IF cur[w].sync THEN ready \cup {cur[w].of} ELSE ready
      /\ cur[w] \in Handler \cup {NoCall}
  BY DEF Finish, TypeOK
<1>2. wpc'[w] = "idle" /\ \A v \in Workers \ {w} : cur'[v] = cur[v] /\ wpc'[v] = wpc[v]
  BY <1>1 DEF TypeOK
<1>3. \A c \in Callers :
        /\ ~Runs(c, w)'
        /\ \A v \in Workers \ {w} : Runs(c, v)' <=> Runs(c, v)
  BY <1>2 DEF Runs
<1>4. \A c \in Callers : (InSyncCall(c)' <=> InSyncCall(c)) /\ call'[c] = call[c]
  BY <1>1 DEF InSyncCall
<1>5. \A c \in Callers, e \in Services : Queued(c, e)' <=> Queued(c, e)
  BY <1>1 DEF Queued
<1>6. \A c \in Callers : c \in ready' <=> c \in ready \/ Runs(c, w)
  <2>1. \A c \in Callers : cur[w] = Task(c) => cur[w].sync /\ cur[w].of = c
    BY DEF Task
  <2>2. cur[w].sync => cur[w].of \in Callers /\ cur[w] = Task(cur[w].of)
    BY <1>1, Tasks
  <2>3. CASE cur[w].sync
    BY <1>1, <2>1, <2>2, <2>3 DEF Runs
  <2>4. CASE ~cur[w].sync
    BY <1>1, <2>1, <2>4 DEF Runs
  <2>. QED  BY <2>3, <2>4
<1>7. SyncInv'
  BY <1>1 DEF FutureInv, SyncInv
<1>8. OwnTaskInv'
  <2>1. \A c \in Callers : Runs(c, w) => InSyncCall(c) /\ \A e \in Services : ~Queued(c, e)
    BY DEF FutureInv, OwnTaskInv, OneTaskInv
  <2>2. \A c \in Callers, v \in Workers \ {w} : Runs(c, v) => ~Runs(c, w)
    BY DEF FutureInv, OneTaskInv
  <2>. QED  BY <1>3, <1>4, <1>5, <1>6, <2>1, <2>2 DEF FutureInv, OwnTaskInv
<1>9. OneTaskInv'
  BY <1>1, <1>3, <1>5 DEF FutureInv, OneTaskInv
<1>10. KeptTaskInv'
  BY <1>1, <1>3, <1>4, <1>6 DEF FutureInv, KeptTaskInv, Queued
<1>. QED  BY <1>7, <1>8, <1>9, <1>10 DEF FutureInv

\* Leaving the registry: a poster of a packaged_task goes on to wait for it.
LEMMA LeaveFuture ==
    ASSUME TypeOK, FutureInv, NEW c \in Callers, pc[c] \in {"drop", "join"}, Leave(c),
           UNCHANGED <<queue, wpc, cur, call, ready>>
    PROVE  FutureInv'
<1>1. /\ \A d \in Callers \ {c} : pc'[d] = pc[d]
      /\ c = Main => pc'[c] = "visit"
      /\ c # Main => pc'[c] = IF call[c].sync THEN "wait" ELSE "out"
  BY DEF Leave, TypeOK
<1>2. SyncInv'
  BY <1>1 DEF FutureInv, SyncInv
<1>3. \A d \in Callers : InSyncCall(d)' <=> InSyncCall(d)
  BY <1>1 DEF InSyncCall, FutureInv, SyncInv
<1>4. \A d \in Callers, w \in Workers : Runs(d, w)' <=> Runs(d, w)
  BY DEF Runs
<1>. QED  BY <1>2, <1>3, <1>4, QuietStep

\* Every step keeps the futures.
LEMMA FutureStep ==
    ASSUME TypeOK, FutureInv, [Next]_vars
    PROVE  FutureInv'
<1>o. ASSUME NEW c \in Callers, NEW q \in {"out", "lock"}, pc[c] \in {"out", "lock"},
             pc' = [pc EXCEPT ![c] = q], UNCHANGED <<queue, call, wpc, cur, ready>>
      PROVE  FutureInv'
  <2>1. pc'[c] = q /\ \A d \in Callers \ {c} : pc'[d] = pc[d]
    BY <1>o DEF TypeOK
  <2>2. SyncInv' /\ \A d \in Callers : InSyncCall(d)' <=> InSyncCall(d)
    BY <1>o, <2>1 DEF FutureInv, SyncInv, InSyncCall
  <2>. QED  BY <1>o, <2>2, QuietStep DEF Runs
<1>1. ASSUME NEW c \in Callers, NEW i \in Ids, NEW sync \in BOOLEAN, post_task(c, i, sync)
      PROVE  FutureInv'
  <2>0. pc[c] = "lock" /\ c # Main /\ UNCHANGED <<wpc, cur, ready>>
    BY <1>1 DEF post_task
  <2>1. CASE Locks(id_to_exec_[i])
    <3>1. PICK e \in Services : e = id_to_exec_[i]
      BY <2>1 DEF Locks, TypeOK, Services
    <3>2. Post(c, e, sync) /\ pc' = [pc EXCEPT ![c] = "drop"]
      BY <1>1, <2>1, <3>1 DEF post_task
    <3>3. pc'[c] = "drop" /\ \A d \in Callers \ {c} : pc'[d] = pc[d]
      BY <3>2 DEF TypeOK
    <3>. QED  BY <2>0, <3>2, <3>3, PostFuture
  <2>2. CASE ~Locks(id_to_exec_[i])
    <3>1. UNCHANGED <<queue, call>> /\ pc' = [pc EXCEPT ![c] = "out"]
      BY <1>1, <2>2 DEF post_task
    <3>. QED  BY <1>o, <2>0, <3>1
  <2>. QED  BY <2>1, <2>2
<1>c. ASSUME NEW c \in Callers, CallPostTask(c) PROVE FutureInv'
  BY <1>c, <1>o DEF CallPostTask, MayCall, svars
<1>2. ASSUME NEW c \in Callers, NEW e \in Pools, NEW sync \in BOOLEAN, AddToPool(c, e, sync)
      PROVE  FutureInv'
  <2>1. /\ pc[c] = "out" /\ c # Main /\ UNCHANGED <<wpc, cur, ready>> /\ e \in Services
        /\ Post(c, e, sync) /\ pc' = [pc EXCEPT ![c] = IF sync THEN "wait" ELSE "out"]
    BY <1>2 DEF AddToPool, MayCall, Services
  <2>2. /\ pc'[c] = IF sync THEN "wait" ELSE "out"
        /\ \A d \in Callers \ {c} : pc'[d] = pc[d]
    BY <2>1 DEF TypeOK
  <2>. QED  BY <2>1, <2>2, PostFuture
<1>3. ASSUME NEW c \in Callers, Drop(c) PROVE FutureInv'
  <2>1. pc[c] = "drop" /\ UNCHANGED <<queue, wpc, cur, call, ready>>
    BY <1>3 DEF Drop, svars
  <2>2. CASE owned[call[c].of]
    BY <1>3, <2>1, <2>2, LeaveFuture DEF Drop
  <2>3. CASE ~owned[call[c].of]
    <3>1. pc' = [pc EXCEPT ![c] = "join"]
      BY <1>3, <2>3 DEF Drop
    <3>2. pc'[c] = "join" /\ \A d \in Callers \ {c} : pc'[d] = pc[d]
      BY <3>1 DEF TypeOK
    <3>3. /\ \A d \in Callers : InSyncCall(d)' <=> InSyncCall(d)
          /\ SyncInv'
      BY <2>1, <3>2 DEF InSyncCall, FutureInv, SyncInv
    <3>. QED  BY <2>1, <3>3, QuietStep DEF Runs
  <2>. QED  BY <2>2, <2>3
<1>4. ASSUME NEW c \in Callers, JoinedInCall(c) PROVE FutureInv'
  BY <1>4, LeaveFuture DEF JoinedInCall
<1>5. ASSUME NEW c \in Callers, Get(c) PROVE FutureInv'
  BY <1>5, GetFuture
<1>6. CASE terminate_all
  <2>1. /\ UNCHANGED <<queue, wpc, cur, ready>>
        /\ \A c \in Callers \ {Main} : pc'[c] = pc[c] /\ call'[c] = call[c]
        /\ pc'[Main] # "wait" \/ pc'[Main] = pc[Main]
        /\ ~call'[Main].sync
    <3>1. ~call[Main].sync
      BY DEF FutureInv, SyncInv
    <3>2. CASE CallTerminateAll \/ BeginTerminate
      BY <3>1, <3>2 DEF CallTerminateAll, BeginTerminate, svars, TypeOK
    <3>3. ASSUME NEW i \in Ids, Visit(i)
          PROVE  /\ UNCHANGED <<queue, wpc, cur, ready>>
                 /\ \A c \in Callers \ {Main} : pc'[c] = pc[c] /\ call'[c] = call[c]
                 /\ pc'[Main] # "wait" \/ pc'[Main] = pc[Main]
                 /\ ~call'[Main].sync
      <4>1. CASE Locks(id_to_exec_[i])
        BY <3>3, <4>1 DEF Visit, TypeOK, Callers
      <4>2. CASE ~Locks(id_to_exec_[i])
        BY <3>1, <3>3, <4>2 DEF Visit
      <4>. QED  BY <4>1, <4>2
    <3>4. CASE EndTerminate
      BY <3>1, <3>4 DEF EndTerminate, svars, TypeOK
    <3>. QED  BY <1>6, <3>2, <3>3, <3>4 DEF terminate_all
  <2>2. \A c \in Callers : InSyncCall(c)' <=> InSyncCall(c)
    BY <2>1 DEF InSyncCall, FutureInv, SyncInv
  <2>3. \A c \in Callers : InSyncCall(c) => call'[c].of = call[c].of
    BY <2>1 DEF InSyncCall, FutureInv, SyncInv
  <2>4. SyncInv'
    BY <2>1 DEF FutureInv, SyncInv
  <2>. QED  BY <2>1, <2>2, <2>3, <2>4, QuietStep DEF Runs
<1>7. ASSUME NEW w \in Workers, Exit(w) PROVE FutureInv'
  <2>1. /\ UNCHANGED <<queue, cur, pc, call, ready>> /\ wpc[w] = "idle"
        /\ wpc'[w] = "exited" /\ \A v \in Workers \ {w} : wpc'[v] = wpc[v]
    BY <1>7 DEF Exit, TypeOK
  <2>2. \A c \in Callers, v \in Workers : Runs(c, v)' <=> Runs(c, v)
    BY <2>1 DEF Runs
  <2>. QED  BY <2>1, <2>2, QuietStep DEF FutureInv, SyncInv, InSyncCall
<1>8. CASE \/ \E i \in Ids, e \in Execs : add(i, e)
           \/ \E e \in Services : Release(e) \/ JoinedByOwner(e)
           \/ UNCHANGED vars
  <2>1. UNCHANGED <<queue, wpc, cur, pc, call, ready>>
    BY <1>8 DEF add, Release, JoinedByOwner, vars, svars
  <2>. QED  BY <2>1, QuietStep DEF FutureInv, SyncInv, InSyncCall, Runs
<1>. QED
  BY <1>1, <1>c, <1>2, <1>3, <1>4, <1>5, <1>6, <1>7, <1>8, TakeFuture, FinishFuture
  DEF Next, Calling, Posting, Returning, Running

\* No future is lost, run twice or taken for another call's: whoever waits in
\* executors::post or getId has exactly one packaged_task, in the queue of the
\* service it asked, in a thread of that service, or run.
THEOREM FuturesAreKept == Spec => []FutureInv
<1>1. Init => FutureInv
  <2> SUFFICES ASSUME Init PROVE FutureInv
    OBVIOUS
  <2>1. /\ ready = {} /\ Main \in Callers
        /\ \A c \in Callers : pc[c] = "out" /\ ~call[c].sync
        /\ \A e \in Services : Len(queue[e]) = 0
        /\ \A w \in Workers : wpc[w] = "idle"
    BY Tasks DEF Init, Callers
  <2>2. SyncInv /\ OwnTaskInv /\ OneTaskInv
    BY <2>1 DEF SyncInv, OwnTaskInv, OneTaskInv, Queued, In, Single, Runs
  <2>3. KeptTaskInv
    BY <2>1 DEF KeptTaskInv, InSyncCall
  <2>. QED  BY <2>2, <2>3 DEF FutureInv
<1>2. TypeOK /\ FutureInv /\ [Next]_vars => FutureInv'
  BY FutureStep
<1>. QED  BY <1>1, <1>2, TypeCorrect, PTL DEF Spec

\* A future can stay broken in one way only: when all threads of an executor have
\* ended and the task of a waiting caller has not run, the task is still in the
\* queue and somebody has stopped the io_service.
AbandonedOnlyStopped ==
    \A c \in Callers :
        pc[c] = "wait" /\ call[c].of \in Execs /\ Joined(call[c].of) /\ c \notin ready
            => Queued(c, call[c].of) /\ stopped[call[c].of]

\* The io_service is stopped only on purpose, so a caller that has no thread left to
\* run its task was overtaken by terminate_all.
THEOREM OnlyStoppedAbandons == Spec => []AbandonedOnlyStopped
<1>1. ASSUME FutureInv, StoppedInv, NEW c \in Callers,
             pc[c] = "wait", call[c].of \in Execs, Joined(call[c].of), c \notin ready
      PROVE  Queued(c, call[c].of) /\ stopped[call[c].of]
  <2>1. InSyncCall(c)
    BY <1>1 DEF FutureInv, SyncInv, InSyncCall
  <2>2. \A w \in Workers : Home[w] = call[c].of => ~Runs(c, w)
    BY <1>1 DEF Joined, Runs
  <2>3. Queued(c, call[c].of)
    BY <1>1, <2>1, <2>2 DEF FutureInv, KeptTaskInv
  <2>4. PICK w \in Workers : Home[w] = call[c].of
    BY <1>1, ExecutorsAssumption
  <2>5. stopped[call[c].of]
    BY <1>1, <2>4 DEF Joined, StoppedInv
  <2>. QED  BY <2>3, <2>5
<1>2. FutureInv /\ StoppedInv => AbandonedOnlyStopped
  BY <1>1 DEF AbandonedOnlyStopped
<1>. QED  BY <1>2, FuturesAreKept, Life, PTL

-----------------------------------------------------------------------------
(***************************************************************************)
(* terminate_all.  The mutex is held from the first entry to clear(), so   *)
(* no executor can slip into the registry behind the iterator.             *)
(***************************************************************************)

\* The entries that the loop has passed are of executors that are stopped, or that
\* cannot be locked any more.
VisitedInv ==
    /\ pc[Main] \in {"out", "lock"} => todo = Ids
    /\ pc[Main] \in {"visit", "drop", "join"} =>
           \A i \in Ids \ todo : Locks(id_to_exec_[i]) => stopped[id_to_exec_[i]]

\* id_to_exec_.clear() forgets no executor that still runs.
ForgetsOnlyStopped ==
    [][EndTerminate => \A i \in Ids : Locks(id_to_exec_[i]) => stopped[id_to_exec_[i]]]_vars

\* An executor that cannot be locked never can again, and none is restarted.
LEMMA LocksStep ==
    ASSUME TypeOK, LifeInv, [Next]_vars, NEW e \in Services
    PROVE  /\ Locks(e)' => Locks(e)
           /\ stopped[e] => stopped'[e]
<1> SUFFICES /\ dtor'[e] = None /\ ~gone'[e] => dtor[e] = None /\ ~gone[e]
             /\ stopped[e] => stopped'[e]
  BY ExecutorsAssumption DEF Locks
<1>0. dtor \in [Services -> Callers \cup Services \cup {None}] /\ gone \in [Services -> BOOLEAN]
  BY DEF TypeOK
<1>1. ASSUME NEW c \in Callers, Drop(c) \/ JoinedInCall(c)
      PROVE  /\ dtor'[e] = None /\ ~gone'[e] => dtor[e] = None /\ ~gone[e]
             /\ stopped[e] => stopped'[e]
  <2>1. UNCHANGED stopped
    BY <1>1 DEF Drop, JoinedInCall, svars
  <2>2. CASE Drop(c)
    BY <1>0, <2>1, <2>2, ExecutorsAssumption DEF Drop, svars, Callers, Services
  <2>3. CASE JoinedInCall(c)
    BY <1>0, <2>1, <2>3 DEF JoinedInCall
  <2>. QED  BY <1>1, <2>2, <2>3
<1>2. ASSUME NEW f \in Services, Release(f)
      PROVE  /\ dtor'[e] = None /\ ~gone'[e] => dtor[e] = None /\ ~gone[e]
             /\ stopped[e] => stopped'[e]
  <2>1. UNCHANGED gone /\ owned[f] /\ stopped' = [stopped EXCEPT ![f] = stopped[f] \/ f \in Pools]
    BY <1>2 DEF Release
  <2>2. dtor[f] = None /\ \A g \in Services \ {f} : dtor'[g] = dtor[g]
    BY <1>2, <2>1 DEF Release, LifeInv, TypeOK
  <2>3. stopped[e] => stopped'[e]
    <3>1. stopped \in [Services -> BOOLEAN]
      BY DEF TypeOK
    <3>. QED  BY <2>1, <3>1, Zenon
  <2>. QED  BY <2>1, <2>2, <2>3
<1>3. ASSUME NEW f \in Services, JoinedByOwner(f)
      PROVE  /\ dtor'[e] = None /\ ~gone'[e] => dtor[e] = None /\ ~gone[e]
             /\ stopped[e] => stopped'[e]
  BY <1>0, <1>3 DEF JoinedByOwner
<1>4. ASSUME NEW i \in Ids, Visit(i)
      PROVE  /\ dtor'[e] = None /\ ~gone'[e] => dtor[e] = None /\ ~gone[e]
             /\ stopped[e] => stopped'[e]
  <2>1. UNCHANGED <<dtor, gone>>
    BY <1>4 DEF Visit
  <2>2. stopped[e] => stopped'[e]
    BY <1>4 DEF Visit, TypeOK
  <2>. QED  BY <2>1, <2>2
<1>5. CASE UNCHANGED <<dtor, gone, stopped>>
  BY <1>5
<1>. QED
  BY <1>1, <1>2, <1>3, <1>4, <1>5
  DEF Next, Calling, Posting, Returning, terminate_all, Running, CallPostTask, post_task,
      AddToPool, Get, add, CallTerminateAll, BeginTerminate, EndTerminate, Take, Finish, Exit, vars, svars

\* Every step keeps VisitedInv.
LEMMA VisitedStep ==
    ASSUME TypeOK, RegistryIsLocked, LifeInv, SyncInv, VisitedInv, [Next]_vars
    PROVE  VisitedInv'
<1>0. /\ id_to_exec_ \in [Ids -> Execs \cup {None}] /\ todo \subseteq Ids /\ Main \in Callers
      /\ \A i \in Ids : Locks(id_to_exec_[i]) => id_to_exec_[i] \in Services
  BY DEF TypeOK, Callers, Locks, Services
<1>1. ASSUME UNCHANGED <<id_to_exec_, todo>>,
             \/ pc'[Main] = pc[Main]
             \/ pc'[Main] \in {"visit", "drop", "join"} /\ pc[Main] \in {"visit", "drop", "join"}
      PROVE  VisitedInv'
  <2>1. ASSUME NEW i \in Ids, Locks(id_to_exec_[i])'
        PROVE  /\ Locks(id_to_exec_[i])
               /\ stopped[id_to_exec_[i]] => stopped[id_to_exec_[i]]'
    <3>1. PICK e \in Services : e = id_to_exec_[i]
      BY <1>0, <1>1, <2>1 DEF Locks, Services
    <3>2. Locks(e)'
      BY <1>1, <2>1, <3>1 DEF Locks
    <3>. QED  BY <1>1, <3>1, <3>2, LocksStep
  <2>. QED  BY <1>1, <2>1 DEF VisitedInv
<1>2. ASSUME NEW i \in Ids, NEW e \in Execs, add(i, e) PROVE VisitedInv'
  <2>1. pc' = pc /\ todo' = todo /\ mtx_ = None
    BY <1>2 DEF add
  <2>2. pc[Main] \notin {"visit", "drop", "join"}
    BY <1>0, <2>1, ExecutorsAssumption DEF RegistryIsLocked
  <2>. QED  BY <2>1, <2>2 DEF VisitedInv
<1>3. CASE CallTerminateAll \/ BeginTerminate
  <2>1. pc[Main] \in {"out", "lock"} /\ pc'[Main] \in {"lock", "visit"} /\ todo' = todo
    BY <1>0, <1>3 DEF CallTerminateAll, BeginTerminate, TypeOK
  <2>. QED  BY <2>1 DEF VisitedInv
<1>4. ASSUME NEW j \in Ids, Visit(j) PROVE VisitedInv'
  <2>1. /\ pc[Main] = "visit" /\ todo' = todo \ {j}
        /\ UNCHANGED <<id_to_exec_, dtor, gone>>
        /\ pc'[Main] \in {"visit", "drop"}
    BY <1>0, <1>4 DEF Visit, TypeOK
  <2>2. ASSUME NEW i \in Ids, i \notin todo', Locks(id_to_exec_[i])
        PROVE  stopped'[id_to_exec_[i]]
    <3>1. PICK e \in Services : e = id_to_exec_[i]
      BY <1>0, <2>2
    <3>2. CASE i = j
      BY <1>4, <2>2, <3>1, <3>2 DEF Visit, TypeOK
    <3>3. CASE i # j
      BY <2>1, <2>2, <3>1, <3>3, LocksStep DEF VisitedInv
    <3>. QED  BY <3>2, <3>3
  <2>. QED  BY <2>1, <2>2 DEF VisitedInv, Locks
<1>5. CASE EndTerminate
  <2>1. pc'[Main] = "done"
    BY <1>0, <1>5 DEF EndTerminate, TypeOK
  <2>. QED  BY <2>1 DEF VisitedInv
<1>6. ASSUME NEW c \in Callers, Calling(c) \/ Returning(c) PROVE VisitedInv'
  <2>1. UNCHANGED <<id_to_exec_, todo>>
    BY <1>6 DEF Calling, Posting, Returning, CallPostTask, post_task, AddToPool, Drop,
                JoinedInCall, Get
  <2>2. CASE c # Main
    <3>1. pc'[Main] = pc[Main]
      BY <1>0, <1>6, <2>2
      DEF Calling, Posting, Returning, CallPostTask, post_task, AddToPool, Drop, JoinedInCall,
          Get, Leave, TypeOK
    <3>. QED  BY <1>1, <2>1, <3>1
  <2>3. CASE c = Main
    <3>1. ~Calling(c)
      BY <2>3 DEF Calling, Posting, CallPostTask, post_task, AddToPool, MayCall
    <3>2. CASE Get(c)
      BY <1>0, <2>3, <3>2 DEF Get, SyncInv
    <3>3. CASE Drop(c) \/ JoinedInCall(c)
      <4>1. pc[Main] \in {"drop", "join"} /\ pc'[Main] \in {"visit", "join"}
        BY <1>0, <2>3, <3>3 DEF Drop, JoinedInCall, Leave, TypeOK
      <4>. QED  BY <1>1, <2>1, <4>1
    <3>. QED  BY <1>6, <3>1, <3>2, <3>3 DEF Returning
  <2>. QED  BY <2>2, <2>3
<1>7. CASE \/ \E e \in Services : Release(e) \/ JoinedByOwner(e)
           \/ \E w \in Workers : Running(w)
           \/ UNCHANGED vars
  <2>1. UNCHANGED <<id_to_exec_, todo, pc>>
    BY <1>7 DEF Release, JoinedByOwner, Running, Take, Finish, Exit, vars
  <2>. QED  BY <1>1, <2>1
<1>. QED
  BY <1>2, <1>3, <1>4, <1>5, <1>6, <1>7 DEF Next, terminate_all

\* When terminate_all clears the registry it has stopped every executor in it that
\* is still alive, whoever adds, posts and lets go meanwhile.
THEOREM TerminateAllMissesNone == Spec => ForgetsOnlyStopped
<1>1. Init => VisitedInv
  BY DEF Init, VisitedInv, Callers
<1>2. TypeOK /\ RegistryIsLocked /\ LifeInv /\ FutureInv /\ VisitedInv /\ [Next]_vars => VisitedInv'
  BY VisitedStep DEF FutureInv
<1>3. VisitedInv =>
        [EndTerminate => \A i \in Ids : Locks(id_to_exec_[i]) => stopped[id_to_exec_[i]]]_vars
  BY DEF VisitedInv, EndTerminate
<1>. QED  BY <1>1, <1>2, <1>3, Life, FuturesAreKept, PTL DEF Spec, ForgetsOnlyStopped

-----------------------------------------------------------------------------
(***************************************************************************)
(* Deadlocks.  The excuse of the liveness properties is a true one: the    *)
(* threads of a deadlock stay where they are, whatever the others do.      *)
(***************************************************************************)

\* A worker makes calls only from a handler, and whoever waits for a future has
\* asked a service for it.
PlaceInv ==
    /\ \A w \in Workers : pc[w] # "out" => wpc[w] = "task"
    /\ \A c \in Callers : pc[c] = "wait" => call[c].of \in Services

\* Every step keeps PlaceInv.
LEMMA PlaceStep ==
    ASSUME TypeOK, CallsInv, PlaceInv, [Next]_vars
    PROVE  PlaceInv'
<1> USE CallTypes
<1>0. /\ Main \notin Workers
      /\ pc \in [Callers -> {"out", "lock", "drop", "join", "wait", "visit", "done"}]
      /\ wpc \in [Workers -> {"idle", "task", "exited"}]
      /\ call \in [Callers -> Call]
  BY ExecutorsAssumption DEF TypeOK
<1>1. ASSUME NEW c \in Callers, c \in Workers => wpc[c] = "task", UNCHANGED wpc,
             NEW q, pc' = [pc EXCEPT ![c] = q], UNCHANGED call,
             q = "wait" => call[c].of \in Services
      PROVE  PlaceInv'
  BY <1>0, <1>1 DEF PlaceInv
<1>2. ASSUME NEW c \in Callers, c \in Workers => wpc[c] = "task", UNCHANGED wpc,
             NEW q, pc' = [pc EXCEPT ![c] = q],
             NEW e \in Services, NEW s \in BOOLEAN, Post(c, e, s)
      PROVE  PlaceInv'
  BY <1>0, <1>2 DEF PlaceInv, Post
<1>3. ASSUME NEW c \in Callers, Calling(c) PROVE PlaceInv'
  <2>1. CASE CallPostTask(c)
    BY <1>1, <2>1 DEF CallPostTask, MayCall, svars
  <2>2. ASSUME NEW i \in Ids, NEW sync \in BOOLEAN, post_task(c, i, sync) PROVE PlaceInv'
    <3>0. (c \in Workers => wpc[c] = "task") /\ UNCHANGED wpc
      BY <2>2 DEF post_task, PlaceInv
    <3>1. CASE Locks(id_to_exec_[i])
      <4>1. id_to_exec_[i] \in Services
        BY <3>1 DEF Locks, TypeOK
      <4>2. pc' = [pc EXCEPT ![c] = "drop"] /\ Post(c, id_to_exec_[i], sync)
        BY <2>2, <3>1 DEF post_task
      <4>. QED  BY <1>2, <3>0, <4>1, <4>2
    <3>2. CASE ~Locks(id_to_exec_[i])
      BY <1>1, <2>2, <3>0, <3>2 DEF post_task
    <3>. QED  BY <3>1, <3>2
  <2>3. ASSUME NEW e \in Pools, NEW sync \in BOOLEAN, AddToPool(c, e, sync) PROVE PlaceInv'
    BY <1>2, <2>3 DEF AddToPool, MayCall
  <2>. QED  BY <1>3, <2>1, <2>2, <2>3 DEF Calling, Posting
<1>4. ASSUME NEW c \in Callers, Leave(c), pc[c] \in {"drop", "join"}, UNCHANGED <<wpc, call>>
      PROVE  PlaceInv'
  <2>1. (c \in Workers => wpc[c] = "task") /\ call[c].of \in Services
    BY <1>4 DEF PlaceInv, CallsInv
  <2>. QED  BY <1>1, <1>4, <2>1 DEF Leave
<1>5. ASSUME NEW c \in Callers, Returning(c) PROVE PlaceInv'
  <2>1. CASE Drop(c)
    <3>1. (c \in Workers => wpc[c] = "task") /\ UNCHANGED <<wpc, call>>
      BY <2>1 DEF Drop, PlaceInv, svars
    <3>2. CASE owned[call[c].of]
      BY <1>4, <2>1, <3>1, <3>2 DEF Drop
    <3>3. CASE ~owned[call[c].of]
      BY <1>1, <2>1, <3>1, <3>3 DEF Drop
    <3>. QED  BY <3>2, <3>3
  <2>2. CASE JoinedInCall(c)
    BY <1>4, <2>2 DEF JoinedInCall
  <2>3. CASE Get(c)
    BY <1>0, <2>3 DEF Get, PlaceInv, svars
  <2>. QED  BY <1>5, <2>1, <2>2, <2>3 DEF Returning
<1>6. CASE terminate_all
  <2>1. ASSUME NEW i \in Ids, Visit(i) PROVE PlaceInv'
    <3>1. CASE Locks(id_to_exec_[i])
      BY <1>0, <2>1, <3>1 DEF Visit, PlaceInv
    <3>2. CASE ~Locks(id_to_exec_[i])
      BY <2>1, <3>2 DEF Visit, PlaceInv
    <3>. QED  BY <3>1, <3>2
  <2>2. CASE CallTerminateAll \/ BeginTerminate \/ EndTerminate
    BY <1>0, <1>1, <2>2 DEF CallTerminateAll, BeginTerminate, EndTerminate, svars
  <2>. QED  BY <1>6, <2>1, <2>2 DEF terminate_all
<1>7. ASSUME NEW w \in Workers, Running(w) PROVE PlaceInv'
  <2>1. CASE Take(w)
    BY <1>0, <2>1 DEF Take, PlaceInv
  <2>2. CASE Finish(w)
    BY <1>0, <2>2 DEF Finish, PlaceInv
  <2>3. CASE Exit(w)
    BY <1>0, <2>3 DEF Exit, PlaceInv
  <2>. QED  BY <1>7, <2>1, <2>2, <2>3 DEF Running
<1>8. CASE \/ \E i \in Ids, e \in Execs : add(i, e)
           \/ \E e \in Services : Release(e) \/ JoinedByOwner(e)
           \/ UNCHANGED vars
  <2>1. UNCHANGED <<wpc, pc, call>>
    BY <1>8 DEF add, Release, JoinedByOwner, vars, svars
  <2>. QED  BY <2>1 DEF PlaceInv
<1>. QED
  BY <1>3, <1>5, <1>6, <1>7, <1>8 DEF Next

DeadlockInv ==
    /\ TypeOK /\ RegistryIsLocked /\ CallsInv /\ LifeInv /\ StoppedInv
    /\ FutureInv /\ PlaceInv

\* Those who wait in a deadlock cannot take the step they wait for.
LEMMA DeadlockBlocks ==
    ASSUME DeadlockInv, NEW S \in SUBSET Waiting, Deadlock(S), NEW c \in S
    PROVE  /\ pc[c] = "lock" => mtx_ # None
           /\ ~JoinedInCall(c)
           /\ ~Get(c)
<1>0. c \in Callers /\ S \subseteq Callers /\ TypeOK
  BY DEF Waiting, DeadlockInv
<1>1. pc[c] = "lock" => mtx_ # None
  BY <1>0, ExecutorsAssumption DEF Deadlock
<1>2. ASSUME JoinedInCall(c) PROVE FALSE
  <2>1. pc[c] = "join" /\ Joined(call[c].of) /\ call[c].of \in Execs
    BY <1>0, <1>2 DEF JoinedInCall, DeadlockInv, CallsInv
  <2>2. CASE ~stopped[call[c].of]
    <3>1. PICK w \in Workers : Home[w] = call[c].of
      BY <2>1, ExecutorsAssumption
    <3>. QED  BY <2>1, <2>2, <3>1 DEF Joined, DeadlockInv, StoppedInv
  <2>3. ASSUME NEW w \in S \cap Workers, Home[w] = call[c].of PROVE FALSE
    <3>1. wpc[w] = "task"
      BY <1>0, <2>3 DEF Waiting, DeadlockInv, PlaceInv
    <3>. QED  BY <2>1, <2>3, <3>1 DEF Joined
  <2>. QED  BY <2>1, <2>2, <2>3 DEF Deadlock
<1>3. ASSUME Get(c) PROVE FALSE
  <2>1. pc[c] = "wait" /\ c \in ready
    BY <1>3 DEF Get
  <2>2. call[c].of \in Services
    BY <1>0, <2>1 DEF DeadlockInv, PlaceInv
  <2>3. ~Queued(c, call[c].of) /\ \A w \in Workers : ~Runs(c, w)
    BY <1>0, <2>1, <2>2 DEF DeadlockInv, FutureInv, OwnTaskInv
  <2>. QED  BY <2>1, <2>3 DEF Deadlock
<1>. QED  BY <1>1, <1>2, <1>3

\* A handler that is queued stays queued until a thread of its service takes it.
LEMMA QueuedStep ==
    ASSUME TypeOK, [Next]_vars, NEW c \in Callers, NEW e \in Services, Queued(c, e),
           \A w \in Workers : Home[w] = e => ~Take(w)
    PROVE  Queued(c, e)'
<1>0. queue \in [Services -> Seq(Handler)] /\ Task(c) \in Handler
  BY Tasks DEF TypeOK
<1>1. ASSUME NEW d \in Callers, NEW f \in Services, NEW s \in BOOLEAN, Post(d, f, s)
      PROVE  Queued(c, e)'
  <2>0. [of |-> d, sync |-> s] \in Handler
    BY CallTypes
  <2>1. CASE f = e
    <3>1. queue'[e] = Append(queue[e], [of |-> d, sync |-> s])
      BY <1>0, <1>1, <2>1 DEF Post
    <3>2. In(Task(c), queue'[e])
      BY <1>0, <2>0, <3>1, HandlerPosted DEF Queued
    <3>. QED  BY <3>2 DEF Queued
  <2>2. CASE f # e
    <3>1. queue'[e] = queue[e]
      BY <1>0, <1>1, <2>2 DEF Post
    <3>. QED  BY <3>1 DEF Queued
  <2>. QED  BY <2>1, <2>2
<1>2. ASSUME NEW w \in Workers, Take(w) PROVE Queued(c, e)'
  <2>1. Home[w] # e
    BY <1>2
  <2>2. queue'[e] = queue[e]
    BY <1>0, <1>2, <2>1, ExecutorsAssumption DEF Take
  <2>. QED  BY <2>2 DEF Queued
<1>3. ASSUME NEW d \in Callers, NEW i \in Ids, NEW s \in BOOLEAN, post_task(d, i, s)
      PROVE  Queued(c, e)'
  <2>1. CASE Locks(id_to_exec_[i])
    <3>1. id_to_exec_[i] \in Services
      BY <2>1, CallTypes DEF Locks, TypeOK
    <3>. QED  BY <1>1, <1>3, <2>1, <3>1 DEF post_task
  <2>2. CASE ~Locks(id_to_exec_[i])
    BY <1>3, <2>2 DEF post_task, Queued
  <2>. QED  BY <2>1, <2>2
<1>4. ASSUME NEW d \in Callers, NEW f \in Pools, NEW s \in BOOLEAN, AddToPool(d, f, s)
      PROVE  Queued(c, e)'
  BY <1>1, <1>4, CallTypes DEF AddToPool
<1>5. CASE UNCHANGED queue
  BY <1>5 DEF Queued
<1>. QED
  BY <1>2, <1>3, <1>4, <1>5
  DEF Next, Calling, Posting, Returning, terminate_all, Running, CallPostTask, Drop,
      JoinedInCall, Get, add, CallTerminateAll, BeginTerminate, Visit, EndTerminate, Release,
      JoinedByOwner, Finish, Exit, vars, svars

\* A step of a thread outside the deadlock leaves those in it where they are.
LEMMA DeadlockPlaces ==
    ASSUME DeadlockInv, [Next]_vars, NEW S \in SUBSET Waiting, Deadlock(S), NEW c \in S
    PROVE  /\ pc'[c] = pc[c] /\ call'[c] = call[c]
           /\ pc[c] = "lock" => mtx_' = mtx_
           /\ pc[c] = "join" /\ ~stopped[call[c].of] => ~stopped'[call[c].of]
           /\ c \in Workers => wpc[c] = "task" /\ wpc'[c] = "task" /\ cur'[c] = cur[c]
<1> DEFINE Goal == /\ pc'[c] = pc[c] /\ call'[c] = call[c]
                   /\ pc[c] = "lock" => mtx_' = mtx_
                   /\ pc[c] = "join" /\ ~stopped[call[c].of] => ~stopped'[call[c].of]
                   /\ c \in Workers => wpc[c] = "task" /\ wpc'[c] = "task" /\ cur'[c] = cur[c]
<1>0. /\ TypeOK /\ c \in Callers /\ S \subseteq Callers /\ Main \in Callers
      /\ pc[c] \in {"lock", "join", "wait"}
      /\ \A d \in S : pc[d] \in {"lock", "join", "wait"}
      /\ pc[c] = "lock" => mtx_ \in S
      /\ c \in Workers => wpc[c] = "task"
      /\ pc[c] = "join" => mtx_ = c /\ call[c].of \in Execs
  BY CallTypes DEF Waiting, DeadlockInv, PlaceInv, RegistryIsLocked, CallsInv, Deadlock
<1>1. /\ pc \in [Callers -> {"out", "lock", "drop", "join", "wait", "visit", "done"}]
      /\ call \in [Callers -> Call] /\ stopped \in [Services -> BOOLEAN]
      /\ wpc \in [Workers -> {"idle", "task", "exited"}]
      /\ cur \in [Workers -> Handler \cup {NoCall}]
  BY <1>0 DEF TypeOK
<1>2. \A d \in S : (pc[d] = "lock" => mtx_ # None) /\ ~JoinedInCall(d) /\ ~Get(d)
  BY DeadlockBlocks
<1>3. ASSUME NEW d \in Callers, Calling(d) PROVE Goal
  <2>1. UNCHANGED <<stopped, wpc, cur>>
    BY <1>3 DEF Calling, Posting, CallPostTask, post_task, AddToPool, svars
  <2>2. d # c
    BY <1>0, <1>2, <1>3 DEF Calling, Posting, CallPostTask, post_task, AddToPool, MayCall
  <2>3. pc'[c] = pc[c] /\ call'[c] = call[c]
    BY <1>0, <1>1, <1>3, <2>2 DEF Calling, Posting, CallPostTask, post_task, AddToPool, Post
  <2>4. pc[c] = "lock" => mtx_' = mtx_
    BY <1>2, <1>3 DEF Calling, Posting, CallPostTask, post_task, AddToPool
  <2>. QED  BY <1>0, <2>1, <2>3, <2>4
<1>4. ASSUME NEW d \in Callers, Returning(d) PROVE Goal
  <2>1. UNCHANGED <<stopped, wpc, cur>>
    BY <1>4 DEF Returning, Drop, JoinedInCall, Get, svars
  <2>2. d \notin S
    BY <1>0, <1>2, <1>4 DEF Returning, Drop
  <2>3. pc'[c] = pc[c] /\ call'[c] = call[c]
    BY <1>0, <1>1, <1>4, <2>2 DEF Returning, Drop, JoinedInCall, Get, Leave
  <2>4. pc[d] \in {"drop", "join"} => mtx_ = d
    BY DEF DeadlockInv, RegistryIsLocked
  <2>5. pc[c] = "lock" => mtx_' = mtx_
    BY <1>0, <1>4, <2>2, <2>4 DEF Returning, Drop, JoinedInCall, Get
  <2>. QED  BY <1>0, <2>1, <2>3, <2>5
<1>5. CASE terminate_all
  <2>1. UNCHANGED <<wpc, cur>>
    BY <1>5 DEF terminate_all, CallTerminateAll, BeginTerminate, Visit, EndTerminate, svars
  <2>2. c = Main => pc[c] \in {"lock", "join"} /\ ~BeginTerminate
    BY <1>0, <1>2 DEF DeadlockInv, FutureInv, SyncInv, BeginTerminate
  <2>3. c # Main
    BY <1>0, <1>5, <2>2 DEF terminate_all, CallTerminateAll, Visit, EndTerminate
  <2>4. pc'[c] = pc[c] /\ call'[c] = call[c]
    BY <1>0, <1>1, <1>5, <2>3
    DEF terminate_all, CallTerminateAll, BeginTerminate, Visit, EndTerminate
  <2>5. pc[Main] = "visit" => mtx_ = Main
    BY <1>0 DEF DeadlockInv, RegistryIsLocked
  <2>6. pc[c] = "lock" => mtx_' = mtx_
    BY <1>0, <1>2, <1>5, <2>5
    DEF terminate_all, CallTerminateAll, BeginTerminate, Visit, EndTerminate
  <2>7. pc[c] = "join" => UNCHANGED stopped
    BY <1>0, <1>5, <2>3, <2>5
    DEF terminate_all, CallTerminateAll, BeginTerminate, Visit, EndTerminate, svars
  <2>. QED  BY <1>0, <2>1, <2>4, <2>6, <2>7
<1>6. ASSUME NEW w \in Workers, Running(w) PROVE Goal
  <2>1. w # c
    BY <1>0, <1>6 DEF Running, Take, Finish, Exit
  <2>2. UNCHANGED <<pc, call, mtx_, stopped>>
    BY <1>6 DEF Running, Take, Finish, Exit
  <2>3. c \in Workers => wpc'[c] = wpc[c] /\ cur'[c] = cur[c]
    BY <1>1, <1>6, <2>1 DEF Running, Take, Finish, Exit
  <2>. QED  BY <1>0, <2>2, <2>3
<1>7. ASSUME NEW f \in Services, Release(f) PROVE Goal
  <2>1. UNCHANGED <<pc, call, mtx_, wpc, cur>>
    BY <1>7 DEF Release
  <2>2. stopped' = [stopped EXCEPT ![f] = stopped[f] \/ f \in Pools]
    BY <1>7 DEF Release
  <2>3. ASSUME NEW e \in Execs, ~stopped[e] PROVE ~stopped'[e]
    <3>1. e \in Services /\ e \notin Pools
      BY ExecutorsAssumption, CallTypes
    <3>2. CASE e = f
      <4>1. stopped'[e] = (stopped[e] \/ e \in Pools)
        BY <1>1, <2>2, <3>1, <3>2, Zenon
      <4>. QED  BY <2>3, <3>1, <4>1, Zenon
    <3>3. CASE e # f
      BY <1>1, <2>2, <2>3, <3>1, <3>3, Zenon
    <3>. QED  BY <3>2, <3>3
  <2>. QED  BY <1>0, <2>1, <2>3
<1>8. CASE \/ \E i \in Ids, e \in Execs : add(i, e)
           \/ \E e \in Services : JoinedByOwner(e)
           \/ UNCHANGED vars
  <2>1. UNCHANGED <<pc, call, mtx_, stopped, wpc, cur>>
    BY <1>8 DEF add, JoinedByOwner, vars, svars
  <2>. QED  BY <1>0, <2>1
<1>. QED
  BY <1>3, <1>4, <1>5, <1>6, <1>7, <1>8 DEF Next

\* The same threads are in a deadlock after every step.
LEMMA DeadlockStep ==
    ASSUME DeadlockInv, [Next]_vars, NEW S \in SUBSET Waiting, Deadlock(S)
    PROVE  S \in SUBSET Waiting' /\ Deadlock(S)'
<1>0. TypeOK /\ LifeInv /\ S \subseteq Callers
  BY DEF DeadlockInv, Waiting
<1>1. \A c \in S :
        /\ pc'[c] = pc[c] /\ call'[c] = call[c]
        /\ pc[c] = "lock" => mtx_' = mtx_
        /\ pc[c] = "join" /\ ~stopped[call[c].of] => ~stopped'[call[c].of]
        /\ c \in Workers => wpc[c] = "task" /\ wpc'[c] = "task" /\ cur'[c] = cur[c]
  BY DeadlockPlaces
<1>2. \A e \in Services : stopped[e] => stopped'[e]
  BY <1>0, LocksStep
<1>3. ASSUME NEW c \in S, pc[c] = "wait", Queued(c, call[c].of),
             stopped[call[c].of] \/ \A w \in Workers : Home[w] = call[c].of => w \in S
      PROVE  /\ Queued(c, call[c].of)'
             /\ stopped'[call[c].of] \/ \A w \in Workers : Home[w] = call[c].of => w \in S
  <2>1. PICK e \in Services : e = call[c].of
    BY <1>0, <1>3 DEF DeadlockInv, PlaceInv
  <2>2. \A w \in Workers : Home[w] = e => ~Take(w)
    BY <1>1, <1>3, <2>1 DEF Take
  <2>3. Queued(c, e)'
    BY <1>0, <1>3, <2>1, <2>2, QueuedStep
  <2>4. call'[c].of = e
    BY <1>1, <2>1
  <2>. QED  BY <1>2, <1>3, <2>1, <2>3, <2>4 DEF Queued
<1>4. \A c \in S, w \in S \cap Workers : Runs(c, w) => Runs(c, w)'
  BY <1>1 DEF Runs
<1>5. Deadlock(S)'
  <2> SUFFICES ASSUME NEW c \in S
               PROVE  \/ pc'[c] = "lock" /\ mtx_' \in S
                      \/ /\ pc'[c] = "join"
                         /\ \/ ~stopped'[call'[c].of]
                            \/ \E w \in S \cap Workers : Home[w] = call'[c].of
                      \/ /\ pc'[c] = "wait"
                         /\ \/ \E w \in S \cap Workers : Runs(c, w)'
                            \/ /\ Queued(c, call[c].of)'
                               /\ \/ stopped'[call'[c].of]
                                  \/ \A w \in Workers : Home[w] = call'[c].of => w \in S
    BY DEF Deadlock
  <2>1. CASE pc[c] = "lock"
    BY <1>1, <2>1 DEF Deadlock
  <2>2. CASE pc[c] = "join"
    BY <1>1, <2>2 DEF Deadlock
  <2>3. CASE pc[c] = "wait"
    BY <1>1, <1>3, <1>4, <2>3 DEF Deadlock
  <2>. QED  BY <2>1, <2>2, <2>3 DEF Deadlock
<1>6. S \subseteq Waiting'
  BY <1>0, <1>1 DEF Waiting
<1>. QED  BY <1>5, <1>6

\* What the liveness properties of post, getId, terminate_all and the destructors
\* excuse is no passing state: a thread that is in a deadlock stays in it, whoever
\* posts, stops, lets go and returns meanwhile, for any executors, pools and threads.
THEOREM DeadlocksStay == Spec => DeadlockStays
<1>1. Init => PlaceInv
  BY DEF Init, PlaceInv, Callers
<1>2. ASSUME DeadlockInv, [Next]_vars, NEW c \in Callers, Deadlocked(c) PROVE Deadlocked(c)'
  <2>1. PICK S \in SUBSET Waiting : c \in S /\ Deadlock(S)
    BY <1>2 DEF Deadlocked
  <2>2. S \in SUBSET Waiting' /\ Deadlock(S)'
    BY <1>2, <2>1, DeadlockStep
  <2>. QED  BY <2>1, <2>2 DEF Deadlocked
<1>3. DeadlockInv /\ [Next]_vars => [\A c \in Callers : Deadlocked(c) => Deadlocked(c)']_vars
  BY <1>2
<1>4. /\ TypeOK /\ CallsInv /\ PlaceInv /\ [Next]_vars => PlaceInv'
      /\ TypeOK /\ RegistryIsLocked /\ CallsInv /\ LifeInv /\ StoppedInv /\ FutureInv /\ PlaceInv
            => DeadlockInv
  BY PlaceStep DEF DeadlockInv
<1>. QED  BY <1>1, <1>3, <1>4, Life, FuturesAreKept, PTL DEF Spec, DeadlockStays

-----------------------------------------------------------------------------
(* The C# program (CsProgram): the states of Main, of the two dispatchers' *)
(* queues and of the task determine each other.                            *)

\* Where Main may be: it builds the executors and posts the task, ...
Building ==
    {<<"new", "IO">>, <<"spin", "IO">>, <<"new", "FS">>, <<"spin", "FS">>, <<"post", "FS">>}
\* ... spins on done, ...
Spinning == {<<"loop", "FS">>, <<"stuck", "FS">>}
\* ... disposes of IO, ...
OnIO == {<<"dispose", "IO">>, <<"join", "IO">>, <<"disposed", "IO">>}
\* ... and of FS.
OnFS == {<<"dispose", "FS">>, <<"join", "FS">>, <<"disposed", "FS">>, <<"end", "FS">>}
\* Where it is until the constructor of x has returned, ...
Unbuilt(x) ==
    IF x = "IO" THEN {<<"new", "IO">>, <<"spin", "IO">>} ELSE Building \ {<<"post", "FS">>}

\* ... and once it has joined the thread of x.
Ended(x) ==
    IF x = "IO" THEN {<<"disposed", "IO">>} \cup OnFS ELSE {<<"disposed", "FS">>, <<"end",
        "FS">>}

\* Main goes through its statements in order.
CsMainInv == main \in Building \cup Spinning \cup OnIO \cup OnFS

\* An executor's thread ends with its dispatcher, which ends while Main waits in
\* the Join of its Dispose, never before; disposed is set after that.  The thread
\* has its dispatcher before the constructor returns.
CsLifeInv ==
    \A x \in Executor :
        /\ ended[x] <=> thread[x] = "end"
        /\ ended[x] => main \in Ended(x) \cup {<<"join", x>>}
        /\ main \in Ended(x) => ended[x]
        /\ disposed[x] <=> main \in Ended(x) \ {<<"disposed", x>>}
        /\ dispatcher[x] => thread[x] \in {"run", "end"}
        /\ main \in Unbuilt(x) \ {<<"spin", x>>} => thread[x] = "none"
        /\ main \notin Unbuilt(x) => dispatcher[x]

\* done says that the task has made its UI_Post, and Main disposes of nothing before.
CsFlagInv ==
    /\ main \in Building => task = "none"
    /\ pool \/ done => task \notin {"none", "ui"}
    /\ main \in OnIO \cup OnFS => done

\* The queue of FS: the task until it is dispatched, then the shutdown, which
\* ends the dispatcher only after the task.
CsFSInv ==
    /\ main \in Building => ops["FS"] = <<>>
    /\ main \in Spinning => ops["FS"] = IF task = "none" THEN <<"task">> ELSE <<>>
    /\ main \in OnIO \cup OnFS =>
           ops["FS"] = IF main = <<"join", "FS">> /\ ~ended["FS"] THEN <<"shutdown">> ELSE <<>>
    /\ ended["FS"] => task = "done"

\* The shutdown is in the queue of IO.
Told == main = <<"join", "IO">> /\ ~ended["IO"]

\* The queue of IO holds at most ioCall and the shutdown, in either order; ioCall
\* is ahead exactly while it is still to be called, and behind only when late.
CsIOInv ==
    /\ task # "done" => ~ioCalled /\ ~late
    /\ ~(ioCalled /\ late)
    /\ ~Told => ops["IO"] \in {<<>>, <<"ioCall">>}
    /\ Told => ops["IO"] \in {<<"shutdown">>, <<"ioCall", "shutdown">>, <<"shutdown",
        "ioCall">>}
    /\ ended["IO"] => ops["IO"] = <<>>
    /\ (ops["IO"] \in {<<"ioCall">>, <<"ioCall",
        "shutdown">>}) <=> (task = "done" /\ ~ioCalled /\ ~late)
    /\ ops["IO"] = <<"shutdown", "ioCall">> => late

\* The inductive invariant of the C# program.
CsInv == CsTypeOK /\ CsMainInv /\ CsLifeInv /\ CsFlagInv /\ CsFSInv /\ CsIOInv

\* What appending to the empty queue gives, and taking its one element.
LEMMA OneElement ==
    ASSUME NEW S, NEW a \in S
    PROVE  /\ <<a>> \in Seq(S)
           /\ Append(<<>>, a) = <<a>> /\ Head(<<a>>) = a /\ Tail(<<a>>) = <<>>
  OBVIOUS
\* The same for a queue of two.
LEMMA TwoElements ==
    ASSUME NEW S, NEW a \in S, NEW b \in S
    PROVE  Append(<<a>>, b) = <<a, b>> /\ Head(<<a, b>>) = a /\ Tail(<<a, b>>) = <<b>>
<1>1. <<a, b>> \in Seq(S) /\ <<a, b>> # <<>> /\ <<a>> \in Seq(S) /\ <<b>> \in Seq(S)
  OBVIOUS
<1>2. Append(<<a>>, b) = <<a, b>>
  <2>1. Append(<<a>>, b) \in Seq(S) /\ Len(Append(<<a>>, b)) = 2
    BY <1>1
  <2>2. Append(<<a>>, b)[1] = a /\ Append(<<a>>, b)[2] = b
    BY <1>1
  <2>3. Len(<<a, b>>) = 2 /\ \A i \in 1 .. 2 : Append(<<a>>, b)[i] = <<a, b>>[i]
    BY <2>2
  <2>. QED  BY <1>1, <2>1, <2>3, SeqEqual
<1>3. Tail(<<a, b>>) = <<b>>
  <2>1. Tail(<<a, b>>) \in Seq(S) /\ Len(Tail(<<a, b>>)) = 1
    BY <1>1
  <2>2. Tail(<<a, b>>)[1] = b
    BY <1>1
  <2>. QED  BY <1>1, <2>1, <2>2, SeqEqual
<1>. QED  BY <1>2, <1>3

\* The operations of the dispatchers.
Op == {"task", "ioCall", "shutdown"}

\* The two facts for the operations of a dispatcher.
LEMMA CsQueues ==
    /\ \A a \in Op : Append(<<>>, a) = <<a>> /\ Head(<<a>>) = a /\ Tail(<<a>>) = <<>>
    /\ \A a, b \in Op :
           Append(<<a>>, b) = <<a, b>> /\ Head(<<a, b>>) = a /\ Tail(<<a, b>>) = <<b>>
    /\ \A a, b, c : <<a>> # <<>> /\ <<a, b>> # <<>> /\ <<a>> # <<b, c>>
<1>1. \A a \in Op : Append(<<>>, a) = <<a>> /\ Head(<<a>>) = a /\ Tail(<<a>>) = <<>>
  BY OneElement
<1>2. \A a, b \in Op :
           Append(<<a>>, b) = <<a, b>> /\ Head(<<a, b>>) = a /\ Tail(<<a, b>>) = <<b>>
  BY TwoElements
<1>. QED  BY <1>1, <1>2

\* Dispatcher.Run on IO: ioCall, or the shutdown with whatever is behind it.
LEMMA CsDispatchIO ==
    ASSUME CsInv, Dispatch("IO")
    PROVE  CsInv'
<1> USE DEF CsInv, CsTypeOK, Executor, Building, Spinning, OnIO, OnFS, Ended, Unbuilt, Told
<1>1. CASE Head(ops["IO"]) = "ioCall"
  <2>0. /\ Told => ops["IO"] = <<"ioCall", "shutdown">>
        /\ ~Told => ops["IO"] = <<"ioCall">>
        /\ ops' = [ops EXCEPT !["IO"] = Tail(ops["IO"])]
    BY <1>1, CsQueues DEF Op, Dispatch, CsIOInv
  <2>1. PICK q :
            /\ q = IF Told THEN <<"shutdown">> ELSE <<>>
            /\ ops' = [ops EXCEPT !["IO"] = q]
    BY <2>0, CsQueues DEF Op
  <2>2. /\ ioCalled' = TRUE
        /\ UNCHANGED <<main, thread, dispatcher, disposed, ended, task, pool, done, hoisted,
            late>>
    BY <1>1 DEF Dispatch
  <2>3. q \in Seq(Op)
    <3>1. "shutdown" \in Op
      BY DEF Op
    <3>2. <<"shutdown">> \in Seq(Op) /\ <<>> \in Seq(Op)
      BY <3>1, OneElement
    <3>. QED  BY <2>1, <3>2
  <2>4. CsTypeOK'
    BY <2>1, <2>2, <2>3, CsQueues DEF Op, CsLifeInv, CsFSInv, CsIOInv
  <2>5. CsMainInv'
    BY <2>1, <2>2, <2>3, CsQueues DEF CsMainInv
  <2>6. CsLifeInv'
    BY <2>1, <2>2, <2>3, CsQueues DEF CsLifeInv
  <2>7. CsFlagInv'
    BY <2>1, <2>2, <2>3, CsQueues DEF CsFlagInv
  <2>8. CsFSInv'
    BY <2>1, <2>2, <2>3, CsQueues DEF CsFSInv
  <2>9. CsIOInv'
    <3>1. ~ioCalled /\ ~late /\ task = "done"
      BY <2>0 DEF CsIOInv
    <3>2. ops'["IO"] = IF Told THEN <<"shutdown">> ELSE <<>>
      BY <2>1
    <3>3. ended["IO"] => ~Told
      OBVIOUS
    <3>4. ended["IO"]' = ended["IO"] /\ Told' = Told /\ task' = "done" /\ late' = FALSE
      BY <2>2, <3>1
    <3>5. <<"shutdown">> \notin {<<>>, <<"ioCall">>, <<"ioCall", "shutdown">>, <<"shutdown", "ioCall">>}
      BY CsQueues
    <3>6. <<>> \notin {<<"ioCall">>, <<"ioCall", "shutdown">>, <<"shutdown", "ioCall">>}
      BY CsQueues
    <3> HIDE DEF CsInv, CsTypeOK, Executor, Told
    <3>7. CASE Told
      BY <2>2, <3>2, <3>3, <3>4, <3>5, <3>7 DEF CsIOInv
    <3>8. CASE ~Told
      BY <2>2, <3>2, <3>4, <3>6, <3>8 DEF CsIOInv
    <3>. QED  BY <3>7, <3>8
  <2>. QED  BY <2>4, <2>5, <2>6, <2>7, <2>8, <2>9
<1>2. CASE Head(ops["IO"]) = "shutdown"
  <2>1. /\ Told /\ ops["IO"] \in {<<"shutdown">>, <<"shutdown", "ioCall">>}
        /\ ops' = [ops EXCEPT !["IO"] = <<>>]
    BY <1>2, CsQueues DEF Op, Dispatch, CsIOInv
  <2>2. /\ ended' = [ended EXCEPT !["IO"] = TRUE] /\ thread' = [thread EXCEPT !["IO"] = "end"]
        /\ task' = task
        /\ UNCHANGED <<main, dispatcher, disposed, pool, done, hoisted, late>>
    BY <1>2 DEF Dispatch
  <2>3. ioCalled' = ioCalled
    BY <1>2, Zenon DEF Dispatch
  <2>4. CsTypeOK'
    BY <2>1, <2>2, <2>3, CsQueues DEF CsLifeInv, CsFSInv, CsIOInv
  <2>5. CsMainInv'
    BY <2>1, <2>2, <2>3, CsQueues DEF CsMainInv
  <2>6. CsLifeInv'
    BY <2>1, <2>2, <2>3, CsQueues DEF CsLifeInv
  <2>7. CsFlagInv'
    BY <2>1, <2>2, <2>3, CsQueues DEF CsFlagInv
  <2>8. CsFSInv'
    BY <2>1, <2>2, <2>3, CsQueues DEF CsFSInv, CsMainInv
  <2>9. CsIOInv'
    BY <2>1, <2>2, <2>3, CsQueues DEF CsIOInv, Op
  <2>. QED  BY <2>4, <2>5, <2>6, <2>7, <2>8, <2>9
<1>. QED  BY <1>1, <1>2, CsQueues DEF Op, Dispatch, CsIOInv

\* Dispatcher.Run on FS: the task, or the shutdown, which finds the task done.
LEMMA CsDispatchFS ==
    ASSUME CsInv, Dispatch("FS")
    PROVE  CsInv'
<1> USE DEF CsInv, CsTypeOK, Executor, Building, Spinning, OnIO, OnFS, Ended, Unbuilt, Told
<1>1. CASE Head(ops["FS"]) = "task"
  <2>1. /\ main \in Spinning /\ task = "none"
        /\ ops' = [ops EXCEPT !["FS"] = <<>>]
    BY <1>1, CsQueues DEF Op, Dispatch, CsMainInv, CsFSInv
  <2>2. /\ task' = "ui"
        /\ UNCHANGED <<main, thread, dispatcher, disposed, ended, pool, done, hoisted, late>>
    BY <1>1 DEF Dispatch
  <2>3. ioCalled' = ioCalled
    BY <1>1, Zenon DEF Dispatch
  <2>4. CsTypeOK'
    BY <2>1, <2>2, <2>3, CsQueues DEF CsLifeInv, CsFSInv, CsIOInv
  <2>5. CsMainInv'
    BY <2>1, <2>2, <2>3, CsQueues DEF CsMainInv
  <2>6. CsLifeInv'
    BY <2>1, <2>2, <2>3, CsQueues DEF CsLifeInv
  <2>7. CsFlagInv'
    BY <2>1, <2>2, <2>3, CsQueues DEF CsFlagInv
  <2>8. CsFSInv'
    BY <2>1, <2>2, <2>3, CsQueues DEF CsFSInv, Op, CsMainInv, CsLifeInv
  <2>9. CsIOInv'
    BY <2>1, <2>2, <2>3, CsQueues DEF CsIOInv, Op
  <2>. QED  BY <2>4, <2>5, <2>6, <2>7, <2>8, <2>9
<1>2. CASE Head(ops["FS"]) = "shutdown"
  <2>1. /\ main = <<"join", "FS">> /\ ~ended["FS"]
        /\ ops' = [ops EXCEPT !["FS"] = <<>>]
    BY <1>2, CsQueues DEF Op, Dispatch, CsMainInv, CsFSInv
  <2>2. /\ ended' = [ended EXCEPT !["FS"] = TRUE] /\ thread' = [thread EXCEPT !["FS"] = "end"]
        /\ task' = task /\ task = "done"
        /\ UNCHANGED <<main, dispatcher, disposed, pool, done, hoisted, late>>
    BY <1>2, <2>1 DEF Dispatch, CsFlagInv
  <2>3. ioCalled' = ioCalled
    BY <1>2, Zenon DEF Dispatch
  <2>4. CsTypeOK'
    BY <2>1, <2>2, <2>3, CsQueues DEF CsLifeInv, CsFSInv, CsIOInv
  <2>5. CsMainInv'
    BY <2>1, <2>2, <2>3, CsQueues DEF CsMainInv
  <2>6. CsLifeInv'
    BY <2>1, <2>2, <2>3, CsQueues DEF CsLifeInv
  <2>7. CsFlagInv'
    BY <2>1, <2>2, <2>3, CsQueues DEF CsFlagInv
  <2>8. CsFSInv'
    BY <2>1, <2>2, <2>3, CsQueues DEF CsFSInv
  <2>9. CsIOInv'
    BY <2>1, <2>2, <2>3, CsQueues DEF CsIOInv, Op
  <2>. QED  BY <2>4, <2>5, <2>6, <2>7, <2>8, <2>9
<1>. QED  BY <1>1, <1>2, CsQueues DEF Op, Dispatch, CsMainInv, CsFSInv

\* Every step of the C# program preserves the invariant.
LEMMA CsStep ==
    ASSUME CsInv, [CsNext]_csvars
    PROVE  CsInv'
<1> USE DEF CsInv, CsTypeOK, Executor, Building, Spinning, OnIO, OnFS, Ended, Unbuilt, Told
<1>1. ASSUME NEW x \in Executor, ThreadMethod(x) PROVE CsInv'
  <2>1. CsTypeOK'
    BY <1>1 DEF ThreadMethod, CsLifeInv, CsFSInv, CsIOInv
  <2>2. CsMainInv'
    BY <1>1 DEF ThreadMethod, CsMainInv
  <2>3. CsLifeInv'
    BY <1>1 DEF ThreadMethod, CsLifeInv
  <2>4. CsFlagInv'
    BY <1>1 DEF ThreadMethod, CsFlagInv
  <2>5. CsFSInv'
    BY <1>1 DEF ThreadMethod, CsFSInv
  <2>6. CsIOInv'
    BY <1>1 DEF ThreadMethod, CsIOInv
  <2>. QED  BY <2>1, <2>2, <2>3, <2>4, <2>5, <2>6
<1>2. CASE UI_Post
  <2>1. CsTypeOK'
    BY <1>2 DEF UI_Post, evars, CsLifeInv, CsFSInv, CsIOInv
  <2>2. CsMainInv'
    BY <1>2 DEF UI_Post, evars, CsMainInv
  <2>3. CsLifeInv'
    BY <1>2 DEF UI_Post, evars, CsLifeInv
  <2>4. CsFlagInv'
    BY <1>2 DEF UI_Post, evars, CsFlagInv
  <2>5. CsFSInv'
    BY <1>2 DEF UI_Post, evars, CsFSInv, CsMainInv
  <2>6. CsIOInv'
    BY <1>2 DEF UI_Post, evars, CsIOInv
  <2>. QED  BY <2>1, <2>2, <2>3, <2>4, <2>5, <2>6
<1>3. CASE PostCheck
  <2>1. CsTypeOK'
    BY <1>3 DEF PostCheck, evars, CsLifeInv, CsFSInv, CsIOInv
  <2>2. CsMainInv'
    BY <1>3 DEF PostCheck, evars, CsMainInv
  <2>3. CsLifeInv'
    BY <1>3 DEF PostCheck, evars, CsLifeInv
  <2>4. CsFlagInv'
    BY <1>3 DEF PostCheck, evars, CsFlagInv
  <2>5. CsFSInv'
    BY <1>3 DEF PostCheck, evars, CsFSInv, CsMainInv
  <2>6. CsIOInv'
    BY <1>3 DEF PostCheck, evars, CsIOInv, CsLifeInv
  <2>. QED  BY <2>1, <2>2, <2>3, <2>4, <2>5, <2>6
<1>4. CASE PoolThread
  <2>1. CsTypeOK'
    BY <1>4 DEF PoolThread, evars, CsLifeInv, CsFSInv, CsIOInv
  <2>2. CsMainInv'
    BY <1>4 DEF PoolThread, evars, CsMainInv
  <2>3. CsLifeInv'
    BY <1>4 DEF PoolThread, evars, CsLifeInv
  <2>4. CsFlagInv'
    BY <1>4 DEF PoolThread, evars, CsFlagInv
  <2>5. CsFSInv'
    BY <1>4 DEF PoolThread, evars, CsFSInv
  <2>6. CsIOInv'
    BY <1>4 DEF PoolThread, evars, CsIOInv
  <2>. QED  BY <2>1, <2>2, <2>3, <2>4, <2>5, <2>6
<1>5. ASSUME NEW x \in Executor, Construct(x) PROVE CsInv'
  <2>1. CsTypeOK'
    BY <1>5 DEF Construct, CsLifeInv, CsFSInv, CsIOInv
  <2>2. CsMainInv'
    BY <1>5 DEF Construct, CsMainInv
  <2>3. CsLifeInv'
    BY <1>5 DEF Construct, CsLifeInv
  <2>4. CsFlagInv'
    BY <1>5 DEF Construct, CsFlagInv
  <2>5. CsFSInv'
    BY <1>5 DEF Construct, CsFSInv
  <2>6. CsIOInv'
    BY <1>5 DEF Construct, CsIOInv
  <2>. QED  BY <2>1, <2>2, <2>3, <2>4, <2>5, <2>6
<1>6. ASSUME NEW x \in Executor, Constructed(x) PROVE CsInv'
  <2>1. CsTypeOK'
    BY <1>6 DEF Constructed, evars, CsLifeInv, CsFSInv, CsIOInv
  <2>2. CsMainInv'
    BY <1>6 DEF Constructed, evars, CsMainInv
  <2>3. CsLifeInv'
    BY <1>6 DEF Constructed, evars, CsLifeInv
  <2>4. CsFlagInv'
    BY <1>6 DEF Constructed, evars, CsFlagInv
  <2>5. CsFSInv'
    BY <1>6 DEF Constructed, evars, CsFSInv
  <2>6. CsIOInv'
    BY <1>6 DEF Constructed, evars, CsIOInv
  <2>. QED  BY <2>1, <2>2, <2>3, <2>4, <2>5, <2>6
<1>7. CASE PostTask
  <2>1. CsTypeOK'
    BY <1>7, CsQueues DEF PostTask, BeginInvoke, Op, CsLifeInv, CsFSInv, CsIOInv
  <2>2. CsMainInv'
    BY <1>7, CsQueues DEF PostTask, BeginInvoke, Op, CsMainInv
  <2>3. CsLifeInv'
    BY <1>7, CsQueues DEF PostTask, BeginInvoke, Op, CsLifeInv
  <2>4. CsFlagInv'
    BY <1>7, CsQueues DEF PostTask, BeginInvoke, Op, CsFlagInv
  <2>5. CsFSInv'
    BY <1>7, CsQueues DEF PostTask, BeginInvoke, Op, CsFSInv, CsFlagInv, CsLifeInv
  <2>6. CsIOInv'
    BY <1>7, CsQueues DEF PostTask, BeginInvoke, Op, CsIOInv
  <2>. QED  BY <2>1, <2>2, <2>3, <2>4, <2>5, <2>6
<1>8. CASE Read
  <2>1. CsTypeOK'
    BY <1>8 DEF Read, evars, CsLifeInv, CsFSInv, CsIOInv
  <2>2. CsMainInv'
    BY <1>8 DEF Read, evars, CsMainInv
  <2>3. CsLifeInv'
    BY <1>8 DEF Read, evars, CsLifeInv
  <2>4. CsFlagInv'
    BY <1>8 DEF Read, evars, CsFlagInv
  <2>5. CsFSInv'
    BY <1>8 DEF Read, evars, CsFSInv, CsFlagInv
  <2>6. CsIOInv'
    BY <1>8 DEF Read, evars, CsIOInv
  <2>. QED  BY <2>1, <2>2, <2>3, <2>4, <2>5, <2>6
<1>9. ASSUME NEW x \in Executor, Join(x) PROVE CsInv'
  <2>1. CsTypeOK'
    BY <1>9 DEF Join, evars, CsLifeInv, CsFSInv, CsIOInv
  <2>2. CsMainInv'
    BY <1>9 DEF Join, evars, CsMainInv
  <2>3. CsLifeInv'
    BY <1>9 DEF Join, evars, CsLifeInv
  <2>4. CsFlagInv'
    BY <1>9 DEF Join, evars, CsFlagInv
  <2>5. CsFSInv'
    BY <1>9 DEF Join, evars, CsFSInv, CsLifeInv
  <2>6. CsIOInv'
    BY <1>9 DEF Join, evars, CsIOInv, CsLifeInv
  <2>. QED  BY <2>1, <2>2, <2>3, <2>4, <2>5, <2>6
<1>10. ASSUME NEW x \in Executor, Disposed(x) PROVE CsInv'
  <2>1. CsTypeOK'
    BY <1>10 DEF Disposed, CsLifeInv, CsFSInv, CsIOInv
  <2>2. CsMainInv'
    BY <1>10 DEF Disposed, CsMainInv
  <2>3. CsLifeInv'
    BY <1>10, SMTT(20) DEF Disposed, CsLifeInv
  <2>4. CsFlagInv'
    BY <1>10 DEF Disposed, CsFlagInv
  <2>5. CsFSInv'
    BY <1>10 DEF Disposed, CsFSInv, CsLifeInv
  <2>6. CsIOInv'
    BY <1>10 DEF Disposed, CsIOInv, CsLifeInv
  <2>. QED  BY <2>1, <2>2, <2>3, <2>4, <2>5, <2>6
<1>11. CASE PostInvoke
  <2>1. CsTypeOK'
    BY <1>11, CsQueues DEF PostInvoke, BeginInvoke, CsLifeInv, CsFSInv, CsIOInv
  <2>2. CsMainInv'
    BY <1>11, CsQueues DEF PostInvoke, BeginInvoke, CsMainInv
  <2>3. CsLifeInv'
    BY <1>11, CsQueues DEF PostInvoke, BeginInvoke, CsLifeInv
  <2>4. CsFlagInv'
    BY <1>11, CsQueues DEF PostInvoke, BeginInvoke, CsFlagInv
  <2>5. CsFSInv'
    BY <1>11, CsQueues DEF PostInvoke, BeginInvoke, CsFSInv, CsMainInv
  <2>6. CsIOInv'
    <3>1. /\ ~ioCalled /\ ~late
          /\ ops["IO"] = IF Told THEN <<"shutdown">> ELSE <<>>
      BY <1>11 DEF PostInvoke, CsIOInv
    <3>2. /\ Told' = Told /\ ended' = ended /\ task' = "done" /\ ioCalled' = ioCalled
          /\ late' = (ended["IO"] \/ Told)
      BY <1>11, <3>1, CsQueues DEF PostInvoke
    <3>3. ops'["IO"] = IF ended["IO"] THEN <<>> ELSE
                       IF Told THEN <<"shutdown", "ioCall">> ELSE <<"ioCall">>
      BY <1>11, <3>1, CsQueues DEF PostInvoke, BeginInvoke, Op
    <3>4. /\ <<"shutdown", "ioCall">> \notin {<<>>, <<"ioCall">>, <<"ioCall", "shutdown">>}
          /\ <<>> \notin {<<"ioCall">>, <<"ioCall", "shutdown">>, <<"shutdown", "ioCall">>}
          /\ <<"ioCall">> # <<"shutdown", "ioCall">>
      BY CsQueues
    <3>5. ended["IO"] => ~Told
      OBVIOUS
    <3> HIDE DEF CsInv, CsTypeOK, Executor, Told
    <3>6. CASE ended["IO"]
      BY <3>1, <3>2, <3>3, <3>4, <3>5, <3>6 DEF CsIOInv
    <3>7. CASE ~ended["IO"] /\ Told
      BY <3>1, <3>2, <3>3, <3>4, <3>7 DEF CsIOInv
    <3>8. CASE ~ended["IO"] /\ ~Told
      BY <3>1, <3>2, <3>3, <3>4, <3>8 DEF CsIOInv
    <3>. QED  BY <3>6, <3>7, <3>8
  <2>. QED  BY <2>1, <2>2, <2>3, <2>4, <2>5, <2>6
<1>12. CASE Dispose("IO")
  <2>1. ops' = [ops EXCEPT !["IO"] = Append(@, "shutdown")]
    BY <1>12 DEF Dispose, BeginInvoke, CsLifeInv
  <2>2. CsTypeOK'
    BY <1>12, <2>1, CsQueues DEF Dispose, CsLifeInv, CsFSInv, CsIOInv
  <2>3. CsMainInv'
    BY <1>12, <2>1, CsQueues DEF Dispose, CsMainInv
  <2>4. CsLifeInv'
    BY <1>12, <2>1, CsQueues DEF Dispose, CsLifeInv
  <2>5. CsFlagInv'
    BY <1>12, <2>1, CsQueues DEF Dispose, CsFlagInv
  <2>6. CsFSInv'
    BY <1>12, <2>1, CsQueues DEF Dispose, CsFSInv
  <2>7. /\ ops["IO"] = <<>> => ops'["IO"] = <<"shutdown">>
        /\ ops["IO"] = <<"ioCall">> => ops'["IO"] = <<"ioCall", "shutdown">>
    BY <2>1, CsQueues DEF Op
  <2>8. CsIOInv'
    BY <1>12, <2>1, <2>7, CsQueues, SMTT(20) DEF Dispose, CsIOInv, CsLifeInv, Op
  <2>. QED  BY <2>2, <2>3, <2>4, <2>5, <2>6, <2>8
<1>13. CASE Dispose("FS")
  <2>1. ops' = [ops EXCEPT !["FS"] = Append(@, "shutdown")]
    BY <1>13 DEF Dispose, BeginInvoke, CsLifeInv
  <2>2. CsTypeOK'
    BY <1>13, <2>1, CsQueues DEF Dispose, CsLifeInv, CsFSInv, CsIOInv
  <2>3. CsMainInv'
    BY <1>13, <2>1, CsQueues DEF Dispose, CsMainInv
  <2>4. CsLifeInv'
    BY <1>13, <2>1, CsQueues DEF Dispose, CsLifeInv
  <2>5. CsFlagInv'
    BY <1>13, <2>1, CsQueues DEF Dispose, CsFlagInv
  <2>6. CsFSInv'
    BY <1>13, <2>1, CsQueues DEF Dispose, CsFSInv, Op, CsLifeInv
  <2>7. CsIOInv'
    BY <1>13, <2>1, CsQueues DEF Dispose, CsIOInv, CsLifeInv
  <2>. QED  BY <2>2, <2>3, <2>4, <2>5, <2>6, <2>7
<1>14. CASE Rest \/ UNCHANGED csvars
  BY <1>14 DEF Rest, csvars, evars, CsMainInv, CsLifeInv, CsFlagInv, CsFSInv, CsIOInv
<1>. QED
  BY <1>1, <1>2, <1>3, <1>4, <1>5, <1>6, <1>7, <1>8, <1>9, <1>10, <1>11, <1>12, <1>13, <1>14,
     CsDispatchIO, CsDispatchFS DEF CsNext, MainStep, ThreadStep

\* The C# program is always in a state that the invariant describes.
THEOREM CsLife == CsSpec => []CsInv
<1>1. ASSUME CsInit PROVE CsInv
  <2> USE <1>1 DEF CsInit, Executor, Building, Spinning, OnIO, OnFS, Ended, Unbuilt
  <2>1. CsTypeOK
    <3>1. ops \in [Executor -> Seq(Op)]
      OBVIOUS
    <3>. QED  BY <3>1 DEF CsTypeOK, Op
  <2>2. CsMainInv /\ CsLifeInv /\ CsFlagInv
    BY DEF CsMainInv, CsLifeInv, CsFlagInv
  <2>3. CsFSInv
    BY DEF CsFSInv
  <2>4. CsIOInv
    BY CsQueues DEF CsIOInv, Told
  <2>. QED  BY <2>1, <2>2, <2>3, <2>4 DEF CsInv
<1>2. CsInv /\ [CsNext]_csvars => CsInv'
  BY CsStep
<1>. QED  BY <1>1, <1>2, PTL DEF CsSpec

\* The type invariant; in particular a disposed executor has ended its dispatcher
\* and has nothing left in its queue.
THEOREM CsTypeCorrect == CsSpec => []CsTypeOK
<1>1. CsInv => CsTypeOK
  BY DEF CsInv
<1>. QED  BY <1>1, CsLife, PTL

\* When Main has returned, the task on FS has; and ioCall has been called unless it
\* was posted to IO after IO had been told to shut down.
THEOREM IoCallLostOnlyLateHolds == CsSpec => []IoCallLostOnlyLate
<1>1. CsInv => IoCallLostOnlyLate
  BY CsQueues DEF CsInv, CsTypeOK, IoCallLostOnlyLate, CsLifeInv, CsFSInv, CsIOInv, Executor,
     Ended, OnFS, Told
<1>. QED  BY <1>1, CsLife, PTL

\* Main joins a thread only while that thread runs its dispatcher with the shutdown
\* in the queue, or has ended.
JoinIsServed ==
    \A x \in Executor :
        main = <<"join", x>> /\ thread[x] # "end" =>
            thread[x] = "run" /\ In("shutdown", ops[x])

\* Dispose does not join in vain: the shutdown it sends can neither be dropped by a
\* dispatcher that has ended nor come before the thread runs.
THEOREM JoinsAreServed == CsSpec => []JoinIsServed
<1>1. ASSUME CsInv, NEW x \in Executor, main = <<"join", x>>, thread[x] # "end"
      PROVE  thread[x] = "run" /\ In("shutdown", ops[x])
  <2>1. ~ended[x] /\ thread[x] = "run"
    BY <1>1 DEF CsInv, CsLifeInv, Executor, Unbuilt, Building
  <2>2. CASE x = "IO"
    <3>1. ops[x] \in {<<"shutdown">>, <<"ioCall", "shutdown">>, <<"shutdown", "ioCall">>}
      BY <1>1, <2>1, <2>2 DEF CsInv, CsIOInv, Told
    <3>. QED  BY <2>1, <3>1 DEF In
  <2>3. CASE x = "FS"
    <3>1. ops[x] = <<"shutdown">>
      BY <1>1, <2>1, <2>3 DEF CsInv, CsFSInv, OnFS
    <3>. QED  BY <2>1, <3>1 DEF In
  <2>. QED  BY <1>1, <2>2, <2>3 DEF Executor
<1>2. CsInv => JoinIsServed
  BY <1>1 DEF JoinIsServed
<1>. QED  BY <1>2, CsLife, PTL
=============================================================================
