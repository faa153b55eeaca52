----------------------------- MODULE QueueProofs -----------------------------
(***************************************************************************)
(* Proofs about the two queues of executors/test_pthread_safe_queue.cc for *)
(* any sets of producers and consumers, any number of pushes and any       *)
(* maxSize_ or none.                                                       *)
(***************************************************************************)
EXTENDS BlockedQueues, TLAPS

-----------------------------------------------------------------------------
Values == Producers \X (1 .. MaxPush)
Places == {"call", "wait", "relock", "broadcast"}

\* The types, with that of the list's values, which pop takes apart.
Types == TypeOK /\ list_ \in Seq(Values)

\* The list is within the bound, if there is one.
InBound ==
    /\ maxSize_ \in Sizes
    /\ size_ \in Nat
    /\ maxSize_ # Unbounded => size_ <= maxSize_
    /\ waited => maxSize_ # Unbounded

\* The only action that adds to the list has seen room for it in the same critical
\* section, and only a full queue makes a producer wait.
LEMMA BoundStep == ASSUME InBound, list_ \in Seq(Values), size_ = Len(list_), [Next]_vars PROVE InBound'
<1>0. maxSize_ \in Int /\ (maxSize_ # Unbounded => maxSize_ \in Nat)
  BY QueueAssumption DEF InBound, Unbounded
<1> USE DEF InBound
<1>1. ASSUME NEW p \in Producers, push(p) PROVE InBound'
  BY <1>0, <1>1 DEF push, Full
<1>2. ASSUME NEW c \in Consumers, pop(c) PROVE InBound'
  <2>1. list_ # <<>> /\ size_' = size_ - 1 /\ UNCHANGED <<maxSize_, waited>>
    BY <1>2 DEF pop
  <2>2. size_ # 0
    BY <2>1
  <2> QED
    BY <1>0, <2>1, <2>2
<1>3. ASSUME NEW p \in Producers, waitForRoom(p) PROVE InBound'
  BY <1>0, <1>3 DEF waitForRoom, Full, Unbounded
<1>4. ASSUME UNCHANGED <<maxSize_, size_, waited>> PROVE InBound'
  BY <1>4
<1> QED
  BY <1>1, <1>2, <1>3, <1>4 DEF Next, Consume, waitForValue, broadcast, WakeUp, vars

\* Taking the mutex leaves the flags flags.
LEMMA LockedTypes ==
    ASSUME was \in [Threads -> BOOLEAN], NEW t \in Threads, NEW look \in BOOLEAN, Locked(t, look)
    PROVE  was' \in [Threads -> BOOLEAN]
<1>1. CASE was' = [was EXCEPT ![t] = look]
  BY <1>1, Zenon
<1>2. CASE UNCHANGED was
  BY <1>2
<1> QED
  BY <1>1, <1>2 DEF Locked

\* Leaving the critical section puts a thread at the broadcast or at its next call.
LEMMA LeaveTypes ==
    ASSUME pc \in [Threads -> Places], NEW t \in Threads, Leave(t)
    PROVE  pc' \in [Threads -> Places]
  BY DEF Leave, Places

\* Every variable keeps its type, and the list its bound, in every step.
LEMMA TypeStep == ASSUME Types, [Next]_vars PROVE Types'
<1>0. /\ size_ = Len(list_) /\ InBound
      /\ pc \in [Threads -> Places] /\ was \in [Threads -> BOOLEAN]
      /\ pushed \in [Producers -> 0 .. MaxPush] /\ popped \in [Producers -> 0 .. MaxPush]
      /\ waited \in BOOLEAN /\ list_ \in Seq(Values) /\ MaxPush \in Nat
      /\ Producers \subseteq Threads /\ Consumers \subseteq Threads
  BY QueueAssumption DEF Types, TypeOK, Places, Threads, InBound
<1>b. InBound'
  BY <1>0, BoundStep
<1> SUFFICES /\ size_' = Len(list_')
             /\ pc' \in [Threads -> Places] /\ was' \in [Threads -> BOOLEAN]
             /\ pushed' \in [Producers -> 0 .. MaxPush]
             /\ popped' \in [Producers -> 0 .. MaxPush]
             /\ waited' \in BOOLEAN /\ list_' \in Seq(Values)
  BY <1>b DEF Types, TypeOK, Places, InBound
<1> DEFINE Goal == /\ size_' = Len(list_')
                   /\ pc' \in [Threads -> Places] /\ was' \in [Threads -> BOOLEAN]
                   /\ pushed' \in [Producers -> 0 .. MaxPush]
                   /\ popped' \in [Producers -> 0 .. MaxPush]
                   /\ waited' \in BOOLEAN /\ list_' \in Seq(Values)
<1>1. ASSUME NEW p \in Producers, push(p) PROVE Goal
  <2>1. /\ pushed[p] < MaxPush /\ Locked(p, list_ = <<>>)
        /\ list_' = Append(list_, <<p, pushed[p] + 1>>)
        /\ size_' = size_ + 1 /\ Leave(p)
        /\ pushed' = [pushed EXCEPT ![p] = @ + 1]
        /\ UNCHANGED <<popped, waited>>
    BY <1>1 DEF push, Value
  <2>2. pushed[p] + 1 \in 1 .. MaxPush
    BY <1>0, <2>1
  <2>3. <<p, pushed[p] + 1>> \in Values
    BY <2>2 DEF Values
  <2>4. list_' \in Seq(Values) /\ Len(list_') = Len(list_) + 1
    BY <1>0, <2>1, <2>3
  <2>5. was' \in [Threads -> BOOLEAN] /\ pc' \in [Threads -> Places]
    BY <1>0, <2>1, LockedTypes, LeaveTypes
  <2>6. pushed' \in [Producers -> 0 .. MaxPush]
    BY <1>0, <2>1, <2>2
  <2> QED
    BY <1>0, <2>1, <2>4, <2>5, <2>6
<1>2. ASSUME NEW c \in Consumers, pop(c) PROVE Goal
  <2>1. /\ Locked(c, Full) /\ list_ # <<>> /\ Leave(c)
        /\ popped' = [popped EXCEPT ![Head(list_)[1]] = Head(list_)[2]]
        /\ list_' = Tail(list_) /\ size_' = size_ - 1
        /\ UNCHANGED <<pushed, waited>>
    BY <1>2 DEF pop
  <2>2. /\ Head(list_) \in Values /\ list_' \in Seq(Values)
        /\ Len(list_') = Len(list_) - 1 /\ Len(list_') \in Nat
    BY <1>0, <2>1
  <2>3. was' \in [Threads -> BOOLEAN] /\ pc' \in [Threads -> Places]
    BY <1>0, <2>1, LockedTypes, LeaveTypes DEF Full
  <2>4. Head(list_)[1] \in Producers /\ Head(list_)[2] \in 0 .. MaxPush
    BY <1>0, <2>2 DEF Values
  <2>5. popped' \in [Producers -> 0 .. MaxPush]
    BY <1>0, <2>1, <2>4
  <2> QED
    BY <1>0, <2>1, <2>2, <2>3, <2>5
<1>3. ASSUME NEW t \in Threads, pc' = [pc EXCEPT ![t] = "wait"],
             \E look \in BOOLEAN : Locked(t, look),
             waited' \in BOOLEAN, UNCHANGED <<list_, size_, pushed, popped>>
      PROVE  Goal
  <2>1. was' \in [Threads -> BOOLEAN]
    BY <1>0, <1>3, LockedTypes
  <2>2. pc' \in [Threads -> Places]
    BY <1>0, <1>3 DEF Places
  <2> QED
    BY <1>0, <1>3, <2>1, <2>2
<1>4. ASSUME NEW p \in Producers, waitForRoom(p) PROVE Goal
  <2>1. (list_ = <<>>) \in BOOLEAN
    OBVIOUS
  <2> QED
    BY <1>0, <1>3, <1>4, <2>1 DEF waitForRoom
<1>5. ASSUME NEW c \in Consumers, waitForValue(c) PROVE Goal
  <2>1. Full \in BOOLEAN
    BY DEF Full
  <2> QED
    BY <1>0, <1>3, <1>5, <2>1 DEF waitForValue
<1>6. ASSUME NEW t \in Threads, broadcast(t) \/ WakeUp(t) PROVE Goal
  <2>1. pc' \in [Threads -> Places]
    BY <1>0, <1>6 DEF broadcast, WakeUp, Places
  <2> QED
    BY <1>0, <1>6, <2>1 DEF broadcast, WakeUp
<1>7. CASE UNCHANGED vars
  BY <1>0, <1>7 DEF vars
<1> QED
  BY <1>1, <1>2, <1>4, <1>5, <1>6, <1>7 DEF Next, Consume

\* Types is invariant.
LEMMA TypesHold == Spec => []Types
<1>1. Init => Types
  <2> SUFFICES ASSUME Init PROVE Types
    OBVIOUS
  <2>1. was \in [Threads -> BOOLEAN] /\ waited \in BOOLEAN
    BY Zenon DEF Init
  <2>2. list_ = <<>> /\ list_ \in Seq(Values) /\ size_ = 0 /\ Len(list_) = 0
    BY DEF Init
  <2>3. pc \in [Threads -> {"call", "wait", "relock", "broadcast"}]
    BY DEF Init
  <2> QED
    BY <2>1, <2>2, <2>3, QueueAssumption DEF Init, Types, TypeOK
<1> QED
  BY <1>1, TypeStep, PTL DEF Spec

\* size_ is the length of the list and never more than maxSize_, also when a
\* producer that was woken up finds the room taken by another.
THEOREM TypeCorrect == Spec => []TypeOK
  BY TypesHold, PTL DEF Types

-----------------------------------------------------------------------------
\* While no producer has had to wait, every push has looked at the list in the
\* critical section in which it adds its value.
FreshInv == ~waited => \A p \in Producers : pc[p] \in {"call", "broadcast"}

\* No step makes a producer wait without recording it.
LEMMA FreshStep == ASSUME Types, FreshInv, [Next]_vars PROVE FreshInv'
<1>0. /\ pc \in [Threads -> Places] /\ Producers \cap Consumers = {}
      /\ Producers \subseteq Threads /\ Consumers \subseteq Threads
  BY QueueAssumption DEF Types, TypeOK, Places, Threads
<1> SUFFICES ASSUME ~waited', NEW q \in Producers PROVE pc'[q] \in {"call", "broadcast"}
  BY DEF FreshInv
<1>1. ASSUME NEW t \in Threads, Leave(t), UNCHANGED waited PROVE pc'[q] \in {"call", "broadcast"}
  BY <1>0, <1>1 DEF Leave, FreshInv
<1>2. ASSUME NEW c \in Consumers, waitForValue(c) PROVE pc'[q] \in {"call", "broadcast"}
  BY <1>0, <1>2 DEF waitForValue, FreshInv
<1>3. ASSUME NEW t \in Threads, broadcast(t) PROVE pc'[q] \in {"call", "broadcast"}
  BY <1>0, <1>3 DEF broadcast, FreshInv
<1>4. ASSUME NEW t \in Threads, WakeUp(t) PROVE pc'[q] \in {"call", "broadcast"}
  BY <1>0, <1>4 DEF WakeUp, FreshInv
<1>5. CASE UNCHANGED vars
  BY <1>5 DEF vars, FreshInv
<1> QED
  BY <1>0, <1>1, <1>2, <1>3, <1>4, <1>5 DEF Next, Consume, push, pop, waitForRoom

\* Until a producer has had to wait, no consumer misses its wake-up: the push that
\* makes the list non-empty owes a broadcast, and the broadcast of a push leaves
\* no consumer asleep.
THEOREM ConsumersAreWoken == Spec => []ConsumerIsWoken
<1>1. Init => FreshInv /\ ConsumerIsWoken
  BY DEF Init, FreshInv, ConsumerIsWoken, Threads
<1>2. ASSUME Types, FreshInv, ConsumerIsWoken, [Next]_vars PROVE ConsumerIsWoken'
  <2>0. /\ pc \in [Threads -> Places] /\ Producers \cap Consumers = {}
        /\ Producers \subseteq Threads /\ Consumers \subseteq Threads
        /\ was \in [Threads -> BOOLEAN]
    BY <1>2, QueueAssumption DEF Types, TypeOK, Places, Threads
  <2> SUFFICES ASSUME ~waited', list_' # <<>>, NEW c0 \in Consumers, pc'[c0] = "wait"
               PROVE  \E p \in Producers : pc'[p] = "broadcast"
    BY DEF ConsumerIsWoken
  <2>1. ASSUME ~waited, list_ # <<>>, pc[c0] = "wait",
               \A p \in Producers : pc[p] = "broadcast" => pc'[p] = "broadcast"
        PROVE  \E p \in Producers : pc'[p] = "broadcast"
    BY <1>2, <2>1 DEF ConsumerIsWoken
  <2>2. ASSUME NEW p \in Producers, push(p) PROVE \E u \in Producers : pc'[u] = "broadcast"
    <3>1. /\ pc[p] = "call" /\ was' = [was EXCEPT ![p] = (list_ = <<>>)]
          /\ pc' = [pc EXCEPT ![p] = IF was'[p] THEN "broadcast" ELSE "call"]
          /\ ~waited
      BY <1>2, <2>0, <2>2 DEF push, Locked, Leave, FreshInv
    <3>2. was'[p] = (list_ = <<>>)
      BY <2>0, <3>1, Zenon
    <3>3. CASE list_ = <<>>
      BY <2>0, <3>1, <3>2, <3>3
    <3>4. CASE list_ # <<>>
      BY <2>0, <2>1, <3>1, <3>4
    <3> QED
      BY <3>3, <3>4
  <2>3. ASSUME NEW c \in Consumers, pop(c) PROVE \E u \in Producers : pc'[u] = "broadcast"
    <3>1. list_ # <<>> /\ ~waited /\ pc' = [pc EXCEPT ![c] = IF was'[c] THEN "broadcast" ELSE "call"]
      BY <2>3 DEF pop, Leave
    <3>2. c0 # c
      BY <2>0, <3>1
    <3> QED
      BY <2>0, <2>1, <3>1, <3>2
  <2>4. ASSUME NEW c \in Consumers, waitForValue(c) PROVE FALSE
    BY <2>4 DEF waitForValue
  <2>5. ASSUME NEW t \in Threads, broadcast(t) PROVE \E u \in Producers : pc'[u] = "broadcast"
    <3>1. CASE t \in Producers
      BY <2>0, <2>5, <3>1 DEF broadcast, Sleepers
    <3>2. CASE t \in Consumers
      <4>1. pc[c0] = "wait" /\ list_ # <<>> /\ ~waited
        BY <2>0, <2>5, <3>2 DEF broadcast, Sleepers
      <4>2. \A p \in Producers : pc[p] = "broadcast" => pc'[p] = "broadcast"
        BY <2>0, <2>5, <3>2 DEF broadcast, Sleepers
      <4> QED
        BY <2>1, <4>1, <4>2
    <3> QED
      BY <3>1, <3>2 DEF Threads
  <2>6. ASSUME NEW t \in Threads, WakeUp(t) PROVE \E u \in Producers : pc'[u] = "broadcast"
    BY <2>0, <2>1, <2>6 DEF WakeUp
  <2>7. CASE UNCHANGED vars
    BY <2>1, <2>7 DEF vars
  <2> QED
    BY <1>2, <2>2, <2>3, <2>4, <2>5, <2>6, <2>7 DEF Next, Consume, waitForRoom
<1>3. Types /\ FreshInv /\ ConsumerIsWoken /\ [Next]_vars => FreshInv' /\ ConsumerIsWoken'
  BY <1>2, FreshStep
<1> QED
  BY <1>1, <1>3, TypesHold, PTL DEF Spec

\* From a BlockedQueue no wake-up is ever lost: its producers never wait, so what
\* ConsumerIsWoken excuses does not happen.
THEOREM WakeupsAreNotLost ==
    Spec => [](maxSize_ = Unbounded
                 => ((list_ # <<>> /\ \E c \in Consumers : pc[c] = "wait")
                        => \E p \in Producers : pc[p] = "broadcast"))
<1>1. TypeOK /\ ConsumerIsWoken
        => (maxSize_ = Unbounded
              => ((list_ # <<>> /\ \E c \in Consumers : pc[c] = "wait")
                     => \E p \in Producers : pc[p] = "broadcast"))
  BY DEF TypeOK, ConsumerIsWoken
<1> QED
  BY <1>1, TypeCorrect, ConsumersAreWoken, PTL

-----------------------------------------------------------------------------
\* What the list holds: of every producer exactly the values that were pushed
\* and not yet popped, in the order of the pushes.
ListInv ==
    /\ \A p \in Producers : popped[p] <= pushed[p]
    /\ \A i \in 1 .. Len(list_) :
        popped[list_[i][1]] < list_[i][2] /\ list_[i][2] <= pushed[list_[i][1]]
    /\ \A i, j \in 1 .. Len(list_) :
        (i < j /\ list_[i][1] = list_[j][1]) => list_[i][2] < list_[j][2]
    /\ \A p \in Producers : \A n \in Nat :
        (popped[p] < n /\ n <= pushed[p])
            => \E i \in 1 .. Len(list_) : list_[i] = <<p, n>>

\* What ListInv is about is well-typed.
ListTypes ==
    /\ list_ \in Seq(Producers \X Nat)
    /\ pushed \in [Producers -> Nat]
    /\ popped \in [Producers -> Nat]

\* What a push of producer p, and a pop, do to the list.
AddsNext(p) ==
    /\ list_' = Append(list_, <<p, pushed[p] + 1>>)
    /\ pushed' = [pushed EXCEPT ![p] = @ + 1]
    /\ popped' = popped

TakesFront ==
    /\ list_ # <<>>
    /\ popped' = [popped EXCEPT ![Head(list_)[1]] = Head(list_)[2]]
    /\ list_' = Tail(list_)
    /\ pushed' = pushed

\* The value at the front is the oldest one its producer still has in the list.
LEMMA FrontIsNext ==
    ASSUME ListTypes, ListInv, list_ # <<>>
    PROVE  Head(list_)[2] = popped[Head(list_)[1]] + 1
<1> USE DEF ListTypes
<1> DEFINE p == list_[1][1]
           n == list_[1][2]
<1>1. 1 \in 1 .. Len(list_) /\ Head(list_) = list_[1]
  OBVIOUS
<1>2. p \in Producers /\ n \in Nat
  BY <1>1
<1>3. popped[p] < n /\ n <= pushed[p]
  BY <1>1 DEF ListInv
<1>4. popped[p] + 1 \in Nat /\ popped[p] < popped[p] + 1 /\ popped[p] + 1 <= pushed[p]
  BY <1>2, <1>3
<1>5. PICK i \in 1 .. Len(list_) : list_[i] = <<p, popped[p] + 1>>
  BY <1>2, <1>4 DEF ListInv
<1>6. CASE i = 1
  BY <1>1, <1>5, <1>6
<1>7. CASE i # 1
  <2>1. list_[i][1] = p /\ list_[i][2] = popped[p] + 1
    BY <1>5
  <2>2. n < popped[p] + 1
    BY <1>1, <1>7, <2>1 DEF ListInv
  <2> QED
    BY <1>2, <1>3, <2>2
<1> QED
  BY <1>6, <1>7

\* A push adds its producer's next value at the back.
LEMMA PushKeepsList ==
    ASSUME ListTypes, ListInv, NEW p \in Producers, AddsNext(p)
    PROVE  ListInv'
<1> DEFINE m == Len(list_) + 1
<1>0. pushed \in [Producers -> Nat] /\ popped \in [Producers -> Nat]
  BY DEF ListTypes
<1>1. /\ list_' = Append(list_, <<p, pushed[p] + 1>>)
      /\ pushed' = [pushed EXCEPT ![p] = @ + 1]
      /\ popped' = popped
  BY DEF AddsNext
<1>2. /\ Len(list_') = m
      /\ list_'[m] = <<p, pushed[p] + 1>>
      /\ \A i \in 1 .. Len(list_) : list_'[i] = list_[i]
  BY <1>0, <1>1 DEF ListTypes
<1>3. Len(list_) \in Nat
  BY DEF ListTypes
<1>4. \A i \in 1 .. Len(list_) : list_[i][1] \in Producers /\ list_[i][2] \in Nat
  BY DEF ListTypes
<1>5. \A q \in Producers : pushed[q] <= pushed'[q] /\ pushed'[q] \in Nat
  BY <1>0, <1>1
<1>6. \A q \in Producers : popped'[q] <= pushed'[q]
  BY <1>0, <1>1, <1>5 DEF ListInv
<1>7. \A i \in 1 .. Len(list_') :
        popped'[list_'[i][1]] < list_'[i][2] /\ list_'[i][2] <= pushed'[list_'[i][1]]
  <2> SUFFICES ASSUME NEW i \in 1 .. m
               PROVE  popped'[list_'[i][1]] < list_'[i][2] /\ list_'[i][2] <= pushed'[list_'[i][1]]
    BY <1>2
  <2>1. CASE i = m
    <3>1. popped[p] < pushed[p] + 1 /\ pushed'[p] = pushed[p] + 1
      BY <1>0, <1>1 DEF ListInv
    <3> QED
      BY <1>0, <1>1, <1>2, <2>1, <3>1
  <2>2. CASE i # m
    <3>1. i \in 1 .. Len(list_) /\ list_'[i] = list_[i]
      BY <1>2, <1>3, <2>2
    <3>2. popped[list_[i][1]] < list_[i][2] /\ list_[i][2] <= pushed[list_[i][1]]
      BY <3>1 DEF ListInv
    <3> QED
      BY <1>0, <1>1, <1>4, <1>5, <3>1, <3>2
  <2> QED
    BY <2>1, <2>2
<1>8. \A i, j \in 1 .. Len(list_') :
        (i < j /\ list_'[i][1] = list_'[j][1]) => list_'[i][2] < list_'[j][2]
  <2> SUFFICES ASSUME NEW i \in 1 .. m, NEW j \in 1 .. m,
                      i < j, list_'[i][1] = list_'[j][1]
               PROVE  list_'[i][2] < list_'[j][2]
    BY <1>2
  <2>1. i \in 1 .. Len(list_) /\ list_'[i] = list_[i]
    BY <1>2, <1>3
  <2>2. CASE j = m
    <3>1. list_[i][1] = p
      BY <1>2, <2>1, <2>2
    <3>2. list_[i][2] <= pushed[p]
      BY <2>1, <3>1 DEF ListInv
    <3> QED
      BY <1>0, <1>2, <1>4, <2>1, <2>2, <3>2
  <2>3. CASE j # m
    <3>1. j \in 1 .. Len(list_) /\ list_'[j] = list_[j]
      BY <1>2, <1>3, <2>3
    <3> QED
      BY <2>1, <3>1 DEF ListInv
  <2> QED
    BY <2>2, <2>3
<1>9. \A q \in Producers : \A n \in Nat :
        (popped'[q] < n /\ n <= pushed'[q])
            => \E i \in 1 .. Len(list_') : list_'[i] = <<q, n>>
  <2> SUFFICES ASSUME NEW q \in Producers, NEW n \in Nat,
                      popped[q] < n, n <= pushed'[q]
               PROVE  \E i \in 1 .. m : list_'[i] = <<q, n>>
    BY <1>0, <1>1, <1>2
  <2>1. CASE n <= pushed[q]
    <3>1. PICK i \in 1 .. Len(list_) : list_[i] = <<q, n>>
      BY <2>1 DEF ListInv
    <3> QED
      BY <1>2, <1>3, <3>1
  <2>2. CASE ~(n <= pushed[q])
    <3>1. q = p /\ n = pushed[p] + 1
      BY <1>0, <1>1, <2>2
    <3> QED
      BY <1>2, <1>3, <3>1
  <2> QED
    BY <2>1, <2>2
<1> QED
  BY <1>6, <1>7, <1>8, <1>9 DEF ListInv

\* A pop takes the front, which is the next value of its producer.
LEMMA PopKeepsList ==
    ASSUME ListTypes, ListInv, TakesFront
    PROVE  ListInv'
<1> DEFINE p == list_[1][1]
<1>0. pushed \in [Producers -> Nat] /\ popped \in [Producers -> Nat]
  BY DEF ListTypes
<1>1. list_ # <<>> /\ Head(list_) = list_[1] /\ 1 \in 1 .. Len(list_)
  BY DEF TakesFront, ListTypes
<1>2. p \in Producers /\ list_[1][2] \in Nat
  BY <1>1 DEF ListTypes
<1>3. list_[1][2] = popped[p] + 1
  BY <1>1, FrontIsNext
<1>4. /\ popped' = [popped EXCEPT ![p] = @ + 1]
      /\ pushed' = pushed
  BY <1>1, <1>2, <1>3 DEF TakesFront
<1>5. /\ Len(list_') \in Nat
      /\ Len(list_) = Len(list_') + 1
      /\ \A i \in 1 .. Len(list_') : list_'[i] = list_[i + 1]
  BY <1>1 DEF TakesFront, ListTypes
<1>6. \A i \in 1 .. Len(list_') : i + 1 \in 1 .. Len(list_)
  BY <1>5
<1>7. \A i \in 1 .. Len(list_) : list_[i][1] \in Producers /\ list_[i][2] \in Nat
  BY DEF ListTypes
<1>8. \A q \in Producers : popped'[q] <= pushed'[q]
  <2>1. popped[p] + 1 <= pushed[p]
    BY <1>1, <1>3 DEF ListInv
  <2> QED
    BY <1>0, <1>2, <1>4, <2>1 DEF ListInv
<1>9. \A i \in 1 .. Len(list_') :
        popped'[list_'[i][1]] < list_'[i][2] /\ list_'[i][2] <= pushed'[list_'[i][1]]
  <2> SUFFICES ASSUME NEW i \in 1 .. Len(list_')
               PROVE  popped'[list_[i + 1][1]] < list_[i + 1][2]
                      /\ list_[i + 1][2] <= pushed[list_[i + 1][1]]
    BY <1>0, <1>4, <1>5
  <2>1. i + 1 \in 1 .. Len(list_) /\ 1 < i + 1
    BY <1>5, <1>6
  <2>2. popped[list_[i + 1][1]] < list_[i + 1][2] /\ list_[i + 1][2] <= pushed[list_[i + 1][1]]
    BY <2>1 DEF ListInv
  <2>3. CASE list_[i + 1][1] = p
    <3>1. list_[1][2] < list_[i + 1][2]
      BY <1>1, <2>1, <2>3 DEF ListInv
    <3>2. popped'[p] = list_[1][2]
      BY <1>0, <1>2, <1>3, <1>4
    <3> QED
      BY <2>2, <2>3, <3>1, <3>2
  <2>4. CASE list_[i + 1][1] # p
    <3>1. popped'[list_[i + 1][1]] = popped[list_[i + 1][1]]
      BY <1>0, <1>4, <1>7, <2>1, <2>4
    <3> QED
      BY <2>2, <3>1
  <2> QED
    BY <2>3, <2>4
<1>10. \A i, j \in 1 .. Len(list_') :
        (i < j /\ list_'[i][1] = list_'[j][1]) => list_'[i][2] < list_'[j][2]
  <2> SUFFICES ASSUME NEW i \in 1 .. Len(list_'), NEW j \in 1 .. Len(list_'),
                      i < j, list_[i + 1][1] = list_[j + 1][1]
               PROVE  list_[i + 1][2] < list_[j + 1][2]
    BY <1>5
  <2>1. i + 1 \in 1 .. Len(list_) /\ j + 1 \in 1 .. Len(list_) /\ i + 1 < j + 1
    BY <1>5, <1>6
  <2> QED
    BY <2>1 DEF ListInv
<1>11. \A q \in Producers : \A n \in Nat :
        (popped'[q] < n /\ n <= pushed'[q])
            => \E i \in 1 .. Len(list_') : list_'[i] = <<q, n>>
  <2> SUFFICES ASSUME NEW q \in Producers, NEW n \in Nat,
                      popped'[q] < n, n <= pushed[q]
               PROVE  \E i \in 1 .. Len(list_') : list_'[i] = <<q, n>>
    BY <1>0, <1>4
  <2>1. popped[q] < n
    BY <1>0, <1>2, <1>4
  <2>2. PICK i \in 1 .. Len(list_) : list_[i] = <<q, n>>
    BY <2>1 DEF ListInv
  <2>3. i # 1
    <3> SUFFICES ASSUME i = 1 PROVE FALSE
      OBVIOUS
    <3>1. q = p /\ n = popped[p] + 1
      BY <1>3, <2>2
    <3>2. popped'[p] = popped[p] + 1
      BY <1>0, <1>2, <1>4
    <3> QED
      BY <1>2, <3>1, <3>2
  <2>4. i - 1 \in 1 .. Len(list_') /\ list_'[i - 1] = list_[(i - 1) + 1] /\ (i - 1) + 1 = i
    BY <1>5, <2>3
  <2> QED
    BY <2>2, <2>4
<1> QED
  BY <1>8, <1>9, <1>10, <1>11 DEF ListInv

\* A pop takes the successor of the last value popped from the same producer.
LEMMA TakesNext ==
    ASSUME ListTypes, ListInv, TakesFront, NEW p \in Producers
    PROVE  popped'[p] \in {popped[p], popped[p] + 1}
BY FrontIsNext DEF TakesFront, ListTypes

\* Every step adds the next value of a producer, takes the front or leaves the list alone.
LEMMA Moves ==
    ASSUME Next
    PROVE  \/ \E p \in Producers : AddsNext(p)
           \/ TakesFront
           \/ UNCHANGED <<list_, pushed, popped>>
<1>1. ASSUME NEW p \in Producers, push(p) PROVE AddsNext(p)
  BY <1>1 DEF push, AddsNext, Value
<1>2. ASSUME NEW c \in Consumers, pop(c) PROVE TakesFront
  BY <1>2 DEF pop, TakesFront
<1> QED
  BY <1>1, <1>2 DEF Next, Consume, waitForRoom, waitForValue, broadcast, WakeUp

\* The values that ListInv is about have their types.
LEMMA ListTypesHold == Types => ListTypes
<1> SUFFICES ASSUME Types PROVE ListTypes
  OBVIOUS
<1>1. Values \subseteq Producers \X Nat
  BY QueueAssumption DEF Values
<1>2. list_ \in Seq(Producers \X Nat)
  BY <1>1 DEF Types
<1> QED
  BY <1>2, QueueAssumption DEF Types, TypeOK, ListTypes

\* The values of a producer are popped in the order of its pushes, none twice and
\* none left out, from both queues, also after producers have waited for room and
\* wake-ups have been missed.
THEOREM PopsAreInOrder == Spec => PoppedInOrder
<1>1. Init => ListInv
  BY DEF Init, ListInv
<1>2. Types /\ ListInv /\ [Next]_vars => ListInv'
  <2> SUFFICES ASSUME Types, ListInv, [Next]_vars PROVE ListInv'
    OBVIOUS
  <2>0. ListTypes
    BY ListTypesHold
  <2>1. ASSUME UNCHANGED <<list_, pushed, popped>> PROVE ListInv'
    BY <2>1 DEF ListInv
  <2>2. CASE Next
    BY <2>0, <2>1, <2>2, Moves, PushKeepsList, PopKeepsList
  <2>3. CASE UNCHANGED vars
    BY <2>1, <2>3 DEF vars
  <2> QED
    BY <2>2, <2>3
<1>3. Types /\ ListInv /\ [Next]_vars
        => [\A p \in Producers : popped'[p] \in {popped[p], popped[p] + 1}]_vars
  <2> SUFFICES ASSUME Types, ListInv, [Next]_vars, ~(UNCHANGED vars), NEW p \in Producers
               PROVE  popped'[p] \in {popped[p], popped[p] + 1}
    OBVIOUS
  <2>1. Next
    BY DEF vars, vars
  <2>2. CASE TakesFront
    BY <2>2, ListTypesHold, TakesNext
  <2>3. CASE UNCHANGED popped
    BY <2>3
  <2> QED
    BY <2>1, <2>2, <2>3, Moves DEF AddsNext
<1> QED
  BY <1>1, <1>2, <1>3, TypesHold, PTL DEF Spec, PoppedInOrder
=============================================================================
