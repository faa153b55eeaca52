---------------------------- MODULE ActorProofs ----------------------------
(***************************************************************************)
(* Proofs about Actor for any set of clients, any number of messages, and  *)
(* with or without messages that send messages.                            *)
(***************************************************************************)
EXTENDS Actor, TLAPS

IsCall(m) == m.kind = "call"
IsDone(m) == m.kind = "done"

\* The two kinds of messages can be told apart by their kind.
LEMMA Kinds ==
    /\ \A m \in Message : IsCall(m) => m.from \in Senders /\ m.n \in Nat
    /\ \A m \in Message : m = SetDone <=> IsDone(m)
    /\ \A m \in Message : IsCall(m) <=> ~IsDone(m)
    /\ SetDone \in Message /\ ~IsCall(SetDone) /\ IsDone(SetDone)
    /\ \A s \in Senders, n \in Nat \ {0} :
        /\ Call(s, n) \in Message /\ IsCall(Call(s, n))
        /\ Call(s, n).from = s /\ Call(s, n).n = n /\ ~IsDone(Call(s, n))
<1>1. \A s \in Senders, n \in Nat \ {0} :
        /\ Call(s, n) \in Message /\ IsCall(Call(s, n))
        /\ Call(s, n).from = s /\ Call(s, n).n = n /\ ~IsDone(Call(s, n))
  BY DEF Message, Call, IsCall, IsDone
<1>2. SetDone \in Message /\ ~IsCall(SetDone) /\ IsDone(SetDone)
  BY DEF Message, SetDone, IsCall, IsDone
<1>3. ASSUME NEW m \in Message
      PROVE  (\E s \in Senders, n \in Nat \ {0} : m = Call(s, n)) \/ m = SetDone
  BY DEF Message
<1>4. ASSUME NEW m \in Message
      PROVE  /\ IsCall(m) => m.from \in Senders /\ m.n \in Nat
             /\ m = SetDone <=> IsDone(m)
             /\ IsCall(m) <=> ~IsDone(m)
  BY <1>1, <1>2, <1>3
<1> QED
  BY <1>1, <1>2, <1>4

\* What a message does when it runs: it is counted, and it may send the next message
\* of the actor's own thread.
LEMMA Runs ==
    ASSUME TypeOK, RunMessage
    PROVE  /\ msg \in Message /\ IsCall(msg) /\ ~IsDone(msg)
           /\ msg.from \in Senders /\ msg.n \in Nat
           /\ thd = "run" /\ thd' = "loop" /\ UNCHANGED <<done, msg, owner, atDestroy>>
           /\ ran' = [ran EXCEPT ![msg.from] = msg.n]
           /\ \/ UNCHANGED <<sent, q>>
              \/ \E m \in Message : /\ IsCall(m) /\ ~IsDone(m)
                                    /\ m.from = Self /\ m.n = sent[Self] + 1
                                    /\ q' = Append(q, m)
                                    /\ sent' = [sent EXCEPT ![Self] = @ + 1]
<1>1. msg \in Message /\ IsCall(msg) /\ ~IsDone(msg) /\ msg.from \in Senders /\ msg.n \in Nat
  BY Kinds DEF TypeOK, RunMessage
<1>2. ASSUME SendFromMessage
      PROVE  \E m \in Message : /\ IsCall(m) /\ ~IsDone(m)
                                /\ m.from = Self /\ m.n = sent[Self] + 1
                                /\ q' = Append(q, m)
                                /\ sent' = [sent EXCEPT ![Self] = @ + 1]
  <2>1. Self \in Senders /\ sent[Self] + 1 \in Nat \ {0}
    BY DEF Senders, TypeOK
  <2> QED
    BY <1>2, <2>1, Kinds DEF SendFromMessage
<1> QED
  BY <1>1, <1>2 DEF RunMessage

\* Every variable keeps its type in every step of the actor and its clients.
LEMMA TypeStep == ASSUME TypeOK, [Next]_vars PROVE TypeOK'
<1>0. /\ q \in Seq(Message) /\ msg \in Message
      /\ sent \in [Senders -> Nat] /\ ran \in [Senders -> Nat] /\ Clients \subseteq Senders
  BY DEF TypeOK, Senders
<1>1. ASSUME NEW m \in Message, enqueue(m)
      PROVE  q' \in Seq(Message) /\ thd' \in {"loop", "dequeue", "wait", "run", "ended"}
  BY <1>0, <1>1 DEF enqueue, TypeOK
<1>2. ASSUME NEW c \in Clients, Send(c) PROVE TypeOK'
  <2>1. c \in Senders /\ sent[c] + 1 \in Nat \ {0}
    BY <1>0
  <2>2. Call(c, sent[c] + 1) \in Message
    BY <2>1, Kinds
  <2>3. sent' \in [Senders -> Nat]
    BY <1>0, <1>2, <2>1 DEF Send
  <2> QED
    BY <1>1, <1>2, <2>2, <2>3 DEF Send, TypeOK
<1>3. CASE Destroy
  BY <1>1, <1>3, Kinds DEF Destroy, TypeOK
<1>4. CASE dequeue
  <2>1. msg' \in Message /\ q' \in Seq(Message)
    BY <1>0, <1>4 DEF dequeue
  <2> QED
    BY <1>4, <2>1 DEF dequeue, TypeOK
<1>5. CASE RunMessage
  <2>1. q' \in Seq(Message) /\ sent' \in [Senders -> Nat]
    <3>1. CASE UNCHANGED <<sent, q>>
      BY <1>0, <3>1
    <3>2. CASE ~UNCHANGED <<sent, q>>
      <4>1. PICK m \in Message : q' = Append(q, m) /\ sent' = [sent EXCEPT ![Self] = @ + 1]
        BY <1>5, <3>2, Runs
      <4>2. Self \in Senders
        BY DEF Senders
      <4> QED
        BY <1>0, <4>1, <4>2
    <3> QED
      BY <3>1, <3>2
  <2>2. ran' \in [Senders -> Nat]
    BY <1>0, <1>5, Runs
  <2> QED
    BY <1>5, <2>1, <2>2, Runs DEF TypeOK
<1>6. CASE RunDone \/ Run \/ Joined \/ dequeueWait \/ WakeUp \/ UNCHANGED vars
  BY <1>6 DEF RunDone, Run, Joined, dequeueWait, WakeUp, vars, TypeOK
<1> QED
  BY <1>2, <1>3, <1>4, <1>5, <1>6 DEF Next, Thread, Gone

\* The type invariant of the actor: queue, thread, owner and counters always have
\* their types.
THEOREM TypeCorrect == Spec => []TypeOK
<1>1. Init => TypeOK
  <2> SUFFICES ASSUME Init PROVE TypeOK
    OBVIOUS
  <2>1. q \in Seq(Message) /\ msg \in Message
    BY Kinds DEF Init
  <2>2. sent \in [Senders -> Nat] /\ ran \in [Senders -> Nat] /\ atDestroy \in [Senders -> Nat]
    BY DEF Init, None
  <2> QED
    BY <2>1, <2>2 DEF Init, TypeOK
<1> QED
  BY <1>1, TypeStep, PTL DEF Spec

-----------------------------------------------------------------------------
(***************************************************************************)
(* What a queue holds when, of every sender c, the messages up to lo[c]    *)
(* have been taken and those up to hi[c] have been sent: the others, in    *)
(* the order in which they were sent.                                      *)
(***************************************************************************)
Ordered(s, lo, hi) ==
    /\ \A c \in Senders : lo[c] <= hi[c]
    /\ \A i \in 1 .. Len(s) :
        IsCall(s[i]) => lo[s[i].from] < s[i].n /\ s[i].n <= hi[s[i].from]
    /\ \A i, j \in 1 .. Len(s) :
        (i < j /\ IsCall(s[i]) /\ IsCall(s[j]) /\ s[i].from = s[j].from) => s[i].n < s[j].n
    /\ \A c \in Senders : \A n \in Nat :
        (lo[c] < n /\ n <= hi[c])
            => \E i \in 1 .. Len(s) : IsCall(s[i]) /\ s[i].from = c /\ s[i].n = n

\* The destructor's message does not disturb the order.
LEMMA OtherAppended ==
    ASSUME NEW s \in Seq(Message), NEW m \in Message, ~IsCall(m), NEW lo, NEW hi, Ordered(s, lo, hi)
    PROVE  Ordered(Append(s, m), lo, hi)
<1> DEFINE t == Append(s, m)
<1>1. /\ Len(t) = Len(s) + 1 /\ Len(s) \in Nat
      /\ t[Len(s) + 1] = m
      /\ \A i \in 1 .. Len(s) : t[i] = s[i]
  OBVIOUS
<1> HIDE DEF t
<1>2. \A i \in 1 .. Len(t) : IsCall(t[i]) => i \in 1 .. Len(s) /\ t[i] = s[i]
  BY <1>1
<1>3. \A i \in 1 .. Len(s) : i \in 1 .. Len(t)
  BY <1>1
<1>4. Ordered(t, lo, hi)
  BY <1>1, <1>2, <1>3 DEF Ordered
<1> QED
  BY <1>4 DEF t

\* A sender's next message at the end keeps the order.
LEMMA CallAppended ==
    ASSUME NEW s \in Seq(Message), NEW lo \in [Senders -> Nat], NEW hi \in [Senders -> Nat],
           Ordered(s, lo, hi), NEW c \in Senders,
           NEW m \in Message, IsCall(m), m.from = c, m.n = hi[c] + 1
    PROVE  Ordered(Append(s, m), lo, [hi EXCEPT ![c] = @ + 1])
<1> DEFINE t == Append(s, m)
           k == Len(s) + 1
           h == [hi EXCEPT ![c] = @ + 1]
<1>1. /\ Len(t) = k /\ Len(s) \in Nat
      /\ t[k] = m
      /\ \A i \in 1 .. Len(s) : t[i] = s[i]
  OBVIOUS
<1>2. /\ \A d \in Senders : hi[d] <= h[d] /\ h[d] \in Nat /\ hi[d] \in Nat /\ lo[d] \in Nat
      /\ h[c] = hi[c] + 1 /\ \A d \in Senders : d # c => h[d] = hi[d]
  OBVIOUS
<1>3. \A i \in 1 .. Len(s) : IsCall(s[i]) => s[i].from \in Senders /\ s[i].n \in Nat
  BY Kinds
<1> HIDE DEF t, h
<1>4. ASSUME NEW d \in Senders PROVE lo[d] <= h[d]
  <2>1. lo[d] <= hi[d]
    BY DEF Ordered
  <2> QED
    BY <1>2, <2>1
<1>5. ASSUME NEW i \in 1 .. k, IsCall(t[i])
      PROVE  lo[t[i].from] < t[i].n /\ t[i].n <= h[t[i].from]
  <2>1. CASE i = k
    BY <1>1, <1>2, <2>1 DEF Ordered
  <2>2. CASE i # k
    <3>1. i \in 1 .. Len(s) /\ t[i] = s[i]
      BY <1>1, <2>2
    <3>2. lo[s[i].from] < s[i].n /\ s[i].n <= hi[s[i].from]
      BY <1>5, <3>1 DEF Ordered
    <3> QED
      BY <1>2, <1>3, <1>5, <3>1, <3>2
  <2> QED
    BY <2>1, <2>2
<1>6. ASSUME NEW i \in 1 .. k, NEW j \in 1 .. k, i < j, IsCall(t[i]), IsCall(t[j]),
             t[i].from = t[j].from
      PROVE  t[i].n < t[j].n
  <2>1. i \in 1 .. Len(s) /\ t[i] = s[i]
    BY <1>1, <1>6
  <2>2. CASE j = k
    <3>1. s[i].from = c /\ s[i].n <= hi[c] /\ s[i].n \in Nat
      BY <1>1, <1>3, <1>6, <2>1, <2>2 DEF Ordered
    <3> QED
      BY <1>1, <1>2, <2>1, <2>2, <3>1
  <2>3. CASE j # k
    <3>1. j \in 1 .. Len(s) /\ t[j] = s[j]
      BY <1>1, <2>3
    <3> QED
      BY <1>6, <2>1, <3>1 DEF Ordered
  <2> QED
    BY <2>2, <2>3
<1>7. ASSUME NEW d \in Senders, NEW n \in Nat, lo[d] < n, n <= h[d]
      PROVE  \E i \in 1 .. k : IsCall(t[i]) /\ t[i].from = d /\ t[i].n = n
  <2>1. CASE n <= hi[d]
    <3>1. PICK i \in 1 .. Len(s) : IsCall(s[i]) /\ s[i].from = d /\ s[i].n = n
      BY <1>7, <2>1 DEF Ordered
    <3> QED
      BY <1>1, <3>1
  <2>2. CASE ~(n <= hi[d])
    <3>1. d = c /\ n = hi[c] + 1
      BY <1>2, <1>7, <2>2
    <3>2. k \in 1 .. k
      BY <1>1
    <3> QED
      BY <1>1, <3>1, <3>2
  <2> QED
    BY <2>1, <2>2
<1>8. Ordered(t, lo, h)
  BY <1>1, <1>4, <1>5, <1>6, <1>7 DEF Ordered
<1> QED
  BY <1>8 DEF t, h

\* A queue without its head.
LEMMA Rest ==
    ASSUME NEW s \in Seq(Message), s # <<>>
    PROVE  /\ Len(s) \in Nat /\ Len(Tail(s)) \in Nat /\ Len(s) = Len(Tail(s)) + 1
           /\ Head(s) = s[1] /\ Head(s) \in Message /\ Tail(s) \in Seq(Message)
           /\ 1 \in 1 .. Len(s)
           /\ \A i \in 1 .. Len(Tail(s)) : Tail(s)[i] = s[i + 1] /\ i + 1 \in 1 .. Len(s)
           /\ \A i \in 1 .. Len(s) :
                i # 1 => i - 1 \in 1 .. Len(Tail(s)) /\ Tail(s)[i - 1] = s[i]
<1>1. /\ Len(s) \in Nat /\ Len(Tail(s)) \in Nat /\ Len(s) = Len(Tail(s)) + 1
      /\ Head(s) = s[1] /\ Head(s) \in Message /\ Tail(s) \in Seq(Message)
      /\ \A i \in 1 .. Len(Tail(s)) : Tail(s)[i] = s[i + 1]
  OBVIOUS
<1>2. \A i \in 1 .. Len(Tail(s)) : i + 1 \in 1 .. Len(s)
  BY <1>1
<1>3. ASSUME NEW i \in 1 .. Len(s), i # 1
      PROVE  i - 1 \in 1 .. Len(Tail(s)) /\ Tail(s)[i - 1] = s[i]
  <2>1. i - 1 \in 1 .. Len(Tail(s)) /\ (i - 1) + 1 = i
    BY <1>1, <1>3
  <2> QED
    BY <1>1, <2>1
<1> QED
  BY <1>1, <1>2, <1>3

\* Taking the destructor's message does not disturb the order.
LEMMA OtherTaken ==
    ASSUME NEW s \in Seq(Message), s # <<>>, ~IsCall(Head(s)), NEW lo, NEW hi, Ordered(s, lo, hi)
    PROVE  Ordered(Tail(s), lo, hi)
<1> DEFINE t == Tail(s)
<1>1. /\ \A i \in 1 .. Len(t) : t[i] = s[i + 1] /\ i + 1 \in 1 .. Len(s)
      /\ \A i \in 1 .. Len(s) : IsCall(s[i]) => i - 1 \in 1 .. Len(t) /\ t[i - 1] = s[i]
      /\ Len(t) \in Nat
  BY Rest
<1> HIDE DEF t
<1>2. \A i, j \in 1 .. Len(t) : i < j => i + 1 < j + 1
  BY <1>1
<1>3. ASSUME NEW i \in 1 .. Len(t), IsCall(t[i])
      PROVE  lo[t[i].from] < t[i].n /\ t[i].n <= hi[t[i].from]
  BY <1>1, <1>3 DEF Ordered
<1>4. ASSUME NEW i \in 1 .. Len(t), NEW j \in 1 .. Len(t), i < j, IsCall(t[i]), IsCall(t[j]),
             t[i].from = t[j].from
      PROVE  t[i].n < t[j].n
  <2>1. /\ i + 1 \in 1 .. Len(s) /\ t[i] = s[i + 1] /\ i + 1 < j + 1
        /\ j + 1 \in 1 .. Len(s) /\ t[j] = s[j + 1]
    BY <1>1, <1>2, <1>4
  <2> QED
    BY <1>4, <2>1 DEF Ordered
<1>5. ASSUME NEW d \in Senders, NEW n \in Nat, lo[d] < n, n <= hi[d]
      PROVE  \E i \in 1 .. Len(t) : IsCall(t[i]) /\ t[i].from = d /\ t[i].n = n
  <2>1. PICK i \in 1 .. Len(s) : IsCall(s[i]) /\ s[i].from = d /\ s[i].n = n
    BY <1>5 DEF Ordered
  <2> QED
    BY <1>1, <2>1
<1>6. \A d \in Senders : lo[d] <= hi[d]
  BY DEF Ordered
<1>7. Ordered(t, lo, hi)
  BY <1>3, <1>4, <1>5, <1>6 DEF Ordered
<1> QED
  BY <1>7 DEF t

\* The first message of a sender in the queue is the next one of that sender.
LEMMA CallTaken ==
    ASSUME NEW s \in Seq(Message), s # <<>>, IsCall(Head(s)),
           NEW lo \in [Senders -> Nat], NEW hi \in [Senders -> Nat], Ordered(s, lo, hi)
    PROVE  /\ Head(s).n = lo[Head(s).from] + 1
           /\ Ordered(Tail(s), [lo EXCEPT ![Head(s).from] = Head(s).n], hi)
<1> DEFINE t == Tail(s)
           c == s[1].from
           l == [lo EXCEPT ![c] = s[1].n]
<1>1. /\ Len(s) \in Nat /\ Len(t) \in Nat /\ Head(s) = s[1] /\ 1 \in 1 .. Len(s)
      /\ \A i \in 1 .. Len(t) : t[i] = s[i + 1] /\ i + 1 \in 1 .. Len(s)
      /\ \A i \in 1 .. Len(s) : i # 1 => i - 1 \in 1 .. Len(t) /\ t[i - 1] = s[i]
  BY Rest
<1>2. \A i \in 1 .. Len(s) : IsCall(s[i]) => s[i].from \in Senders /\ s[i].n \in Nat
  BY Kinds
<1>3. IsCall(s[1]) /\ c \in Senders /\ s[1].n \in Nat /\ lo[c] \in Nat /\ hi[c] \in Nat
  BY <1>1, <1>2
<1>4. lo[c] < s[1].n /\ s[1].n <= hi[c]
  BY <1>1, <1>3 DEF Ordered
<1>5. s[1].n = lo[c] + 1
  <2>1. lo[c] + 1 \in Nat /\ lo[c] < lo[c] + 1 /\ lo[c] + 1 <= hi[c]
    BY <1>3, <1>4
  <2>2. PICK i \in 1 .. Len(s) : IsCall(s[i]) /\ s[i].from = c /\ s[i].n = lo[c] + 1
    BY <1>3, <2>1 DEF Ordered
  <2>3. CASE i # 1
    <3>1. s[1].n < s[i].n
      BY <1>1, <1>3, <2>2, <2>3 DEF Ordered
    <3> QED
      BY <1>3, <1>4, <2>2, <3>1
  <2> QED
    BY <2>2, <2>3
<1>6. /\ l[c] = s[1].n /\ \A d \in Senders : d # c => l[d] = lo[d]
      /\ \A d \in Senders : lo[d] \in Nat /\ hi[d] \in Nat
  BY <1>3
<1> HIDE DEF t, l
<1>7. \A d \in Senders : l[d] <= hi[d]
  BY <1>4, <1>6 DEF Ordered
<1>8. ASSUME NEW i \in 1 .. Len(t), IsCall(t[i])
      PROVE  l[t[i].from] < t[i].n /\ t[i].n <= hi[t[i].from]
  <2>1. i + 1 \in 1 .. Len(s) /\ t[i] = s[i + 1] /\ 1 < i + 1
    BY <1>1
  <2>2. lo[s[i + 1].from] < s[i + 1].n /\ s[i + 1].n <= hi[s[i + 1].from]
    BY <1>8, <2>1 DEF Ordered
  <2>3. CASE s[i + 1].from = c
    <3>1. s[1].n < s[i + 1].n
      BY <1>1, <1>3, <1>8, <2>1, <2>3 DEF Ordered
    <3> QED
      BY <1>6, <2>1, <2>2, <2>3, <3>1
  <2>4. CASE s[i + 1].from # c
    BY <1>2, <1>6, <1>8, <2>1, <2>2, <2>4
  <2> QED
    BY <2>3, <2>4
<1>9. ASSUME NEW i \in 1 .. Len(t), NEW j \in 1 .. Len(t), i < j, IsCall(t[i]), IsCall(t[j]),
             t[i].from = t[j].from
      PROVE  t[i].n < t[j].n
  <2>1. /\ i + 1 \in 1 .. Len(s) /\ t[i] = s[i + 1] /\ i + 1 < j + 1
        /\ j + 1 \in 1 .. Len(s) /\ t[j] = s[j + 1]
    BY <1>1, <1>9
  <2> QED
    BY <1>9, <2>1 DEF Ordered
<1>10. ASSUME NEW d \in Senders, NEW n \in Nat, l[d] < n, n <= hi[d]
       PROVE  \E i \in 1 .. Len(t) : IsCall(t[i]) /\ t[i].from = d /\ t[i].n = n
  <2>1. lo[d] < n
    BY <1>3, <1>4, <1>6, <1>10
  <2>2. PICK i \in 1 .. Len(s) : IsCall(s[i]) /\ s[i].from = d /\ s[i].n = n
    BY <1>10, <2>1 DEF Ordered
  <2>3. i # 1
    BY <1>3, <1>6, <1>10, <2>2
  <2> QED
    BY <1>1, <2>2, <2>3
<1>11. Ordered(t, l, hi)
  BY <1>7, <1>8, <1>9, <1>10 DEF Ordered
<1> QED
  BY <1>1, <1>5, <1>11 DEF t, l

-----------------------------------------------------------------------------
(***************************************************************************)
(* The invariant: the queue is in order, and the destructor's message      *)
(* divides it into what was sent before it and what messages sent later.   *)
(***************************************************************************)

\* The messages of each sender that have been taken from the queue.
Taken ==
    [s \in Senders |-> IF thd = "run" /\ IsCall(msg) /\ msg.from = s THEN msg.n ELSE ran[s]]

\* The messages of each sender that have been taken are those that have run and
\* the one that runs.
OrderInv ==
    /\ Ordered(q, Taken, sent)
    /\ thd = "run" /\ IsCall(msg) => msg.n = ran[msg.from] + 1

\* The destructor's message is in the queue.
NoticeQueued == \E i \in 1 .. Len(q) : IsDone(q[i])

\* The thread has taken the destructor's message.
NoticeTaken == done \/ (thd = "run" /\ IsDone(msg))

\* Before the destructor's message are the messages that were sent before it, behind
\* it are only later ones, and once it is taken only those are left.
Divided ==
    /\ \A i, j \in 1 .. Len(q) :
        i < j /\ IsDone(q[i]) /\ IsCall(q[j]) => atDestroy[q[j].from] < q[j].n
    /\ \A i, j \in 1 .. Len(q) :
        i < j /\ IsCall(q[i]) /\ IsDone(q[j]) => q[i].n <= atDestroy[q[i].from]
    /\ NoticeTaken => \A i \in 1 .. Len(q) : IsCall(q[i]) => atDestroy[q[i].from] < q[i].n

\* Nothing sent after the destructor's message has been taken; the thread ends only
\* after that message.
DoneInv ==
    /\ Divided
    /\ owner = "alive" => ~NoticeTaken /\ ~NoticeQueued
    /\ owner # "alive" => /\ NoticeTaken \/ NoticeQueued
                          /\ \A s \in Senders : Taken[s] <= atDestroy[s] /\ atDestroy[s] <= sent[s]
                          /\ \A c \in Clients : atDestroy[c] = sent[c]
    /\ thd = "ended" => done
    /\ done => thd \in {"loop", "ended"}
    /\ owner = "joined" => thd = "ended"

\* Sending a message wakes the thread up, and does nothing to it that matters here.
LEMMA EnqueueThread ==
    ASSUME TypeOK, NEW m \in Message, enqueue(m), UNCHANGED <<msg, ran>>
    PROVE  /\ q' = Append(q, m) /\ Taken' = Taken
           /\ (thd' = "run") = (thd = "run") /\ (thd' = "ended") = (thd = "ended")
           /\ thd \in {"loop", "ended"} => thd' = thd
  BY DEF enqueue, Taken, TypeOK

\* A message that runs is already counted as taken.
LEMMA RunTaken == ASSUME TypeOK, RunMessage PROVE Taken' = Taken
<1>1. /\ IsCall(msg) /\ msg.from \in Senders /\ thd = "run" /\ thd' = "loop" /\ msg' = msg
      /\ ran' = [ran EXCEPT ![msg.from] = msg.n] /\ ran \in [Senders -> Nat]
  BY Runs DEF TypeOK
<1>2. \A s \in Senders : ran'[s] = IF msg.from = s THEN msg.n ELSE ran[s]
  BY <1>1
<1> QED
  BY <1>1, <1>2 DEF Taken

\* What the variables and Taken hold, as functions of the senders.
LEMMA Functions ==
    ASSUME TypeOK
    PROVE  /\ q \in Seq(Message) /\ msg \in Message /\ Len(q) \in Nat
           /\ sent \in [Senders -> Nat] /\ ran \in [Senders -> Nat]
           /\ atDestroy \in [Senders -> Nat] /\ Taken \in [Senders -> Nat]
           /\ Clients \subseteq Senders /\ Self \in Senders
<1>1. IsCall(msg) => msg.n \in Nat
  BY Kinds DEF TypeOK
<1> QED
  BY <1>1 DEF TypeOK, Taken, Senders

\* Messages are taken in the order in which their sender sent them.
LEMMA OrderStep ==
    ASSUME TypeOK, OrderInv, [Next]_vars
    PROVE  OrderInv'
<1>0. /\ q \in Seq(Message) /\ msg \in Message /\ Taken \in [Senders -> Nat]
      /\ sent \in [Senders -> Nat] /\ ran \in [Senders -> Nat]
      /\ Clients \subseteq Senders /\ Self \in Senders
  BY Functions
<1>1. ASSUME NEW c \in Clients, Send(c) PROVE OrderInv'
  <2> DEFINE m == Call(c, sent[c] + 1)
  <2>1. /\ enqueue(m) /\ UNCHANGED <<msg, ran>>
        /\ sent' = [sent EXCEPT ![c] = @ + 1]
    BY <1>1 DEF Send
  <2>2. c \in Senders /\ sent[c] + 1 \in Nat \ {0}
    BY <1>0, <2>1
  <2>3. m \in Message /\ IsCall(m) /\ m.from = c /\ m.n = sent[c] + 1
    BY <2>2, Kinds
  <2> HIDE DEF m
  <2>4. q' = Append(q, m) /\ Taken' = Taken /\ (thd' = "run") = (thd = "run")
    BY <2>1, <2>3, EnqueueThread
  <2>5. Ordered(q, Taken, sent)
    BY DEF OrderInv
  <2>6. Ordered(q', Taken', sent')
    BY <1>0, <2>1, <2>2, <2>3, <2>4, <2>5, CallAppended
  <2> QED
    BY <2>1, <2>4, <2>6 DEF OrderInv
<1>2. CASE Destroy
  <2>1. enqueue(SetDone) /\ UNCHANGED <<msg, ran, sent>>
    BY <1>2 DEF Destroy
  <2>2. q' = Append(q, SetDone) /\ Taken' = Taken /\ (thd' = "run") = (thd = "run")
    BY <2>1, Kinds, EnqueueThread
  <2>3. Ordered(q, Taken, sent)
    BY DEF OrderInv
  <2>4. Ordered(q', Taken', sent')
    BY <1>0, <2>1, <2>2, <2>3, Kinds, OtherAppended
  <2> QED
    BY <2>1, <2>2, <2>4 DEF OrderInv
<1>3. CASE dequeue
  <2>1. /\ thd = "dequeue" /\ thd' = "run" /\ q # <<>> /\ msg' = Head(q) /\ q' = Tail(q)
        /\ UNCHANGED <<sent, ran>>
    BY <1>3 DEF dequeue
  <2>2. Taken = ran
    BY <1>0, <2>1 DEF Taken
  <2>3. Ordered(q, ran, sent) /\ Head(q) \in Message
    BY <1>0, <2>1, <2>2, Rest DEF OrderInv
  <2>4. CASE IsCall(Head(q))
    <3>1. /\ Head(q).n = ran[Head(q).from] + 1
          /\ Ordered(Tail(q), [ran EXCEPT ![Head(q).from] = Head(q).n], sent)
      BY <1>0, <2>1, <2>3, <2>4, CallTaken
    <3>2. Taken' = [ran EXCEPT ![Head(q).from] = Head(q).n]
      BY <1>0, <2>1, <2>3, <2>4, Kinds DEF Taken
    <3> QED
      BY <2>1, <3>1, <3>2 DEF OrderInv
  <2>5. CASE ~IsCall(Head(q))
    <3>1. Ordered(Tail(q), ran, sent)
      BY <1>0, <2>1, <2>3, <2>5, OtherTaken
    <3>2. Taken' = ran
      BY <1>0, <2>1, <2>5 DEF Taken
    <3> QED
      BY <2>1, <2>5, <3>1, <3>2 DEF OrderInv
  <2> QED
    BY <2>4, <2>5
<1>4. CASE RunMessage
  <2>1. thd' = "loop" /\ Taken' = Taken
    BY <1>4, Runs, RunTaken
  <2>2. Ordered(q, Taken, sent)
    BY DEF OrderInv
  <2>3. CASE UNCHANGED <<sent, q>>
    BY <2>1, <2>2, <2>3 DEF OrderInv
  <2>4. CASE ~UNCHANGED <<sent, q>>
    <3>1. PICK m \in Message : /\ IsCall(m) /\ m.from = Self /\ m.n = sent[Self] + 1
                               /\ q' = Append(q, m) /\ sent' = [sent EXCEPT ![Self] = @ + 1]
      BY <1>4, <2>4, Runs
    <3>2. Ordered(q', Taken', sent')
      BY <1>0, <2>1, <2>2, <3>1, CallAppended
    <3> QED
      BY <2>1, <3>2 DEF OrderInv
  <2> QED
    BY <2>3, <2>4
<1>5. CASE RunDone
  <2>1. thd = "run" /\ thd' = "loop" /\ UNCHANGED <<q, msg, sent, ran>> /\ ~IsCall(msg)
    BY <1>0, <1>5, Kinds DEF RunDone
  <2>2. Taken' = Taken
    BY <2>1 DEF Taken
  <2> QED
    BY <2>1, <2>2 DEF OrderInv
<1>6. ASSUME UNCHANGED <<q, msg, sent, ran>>, thd = "run" <=> thd' = "run" PROVE OrderInv'
  <2>1. Taken' = Taken
    BY <1>6 DEF Taken
  <2> QED
    BY <1>6, <2>1 DEF OrderInv
<1> QED
  BY <1>1, <1>2, <1>3, <1>4, <1>5, <1>6
  DEF Next, Thread, Gone, Joined, Run, dequeueWait, WakeUp, vars

\* The destructor's message keeps dividing the queue.
LEMMA DoneStep ==
    ASSUME TypeOK, OrderInv, DoneInv, [Next]_vars
    PROVE  DoneInv'
<1>0. /\ q \in Seq(Message) /\ msg \in Message /\ Len(q) \in Nat
      /\ sent \in [Senders -> Nat] /\ ran \in [Senders -> Nat]
      /\ atDestroy \in [Senders -> Nat] /\ Taken \in [Senders -> Nat]
      /\ Clients \subseteq Senders /\ Self \in Senders
  BY Functions
<1>o. /\ \A s \in Senders : Taken[s] <= sent[s]
      /\ \A i \in 1 .. Len(q) : IsCall(q[i]) => q[i].n <= sent[q[i].from]
  BY DEF OrderInv, Ordered
<1>a. ASSUME NEW m \in Message, q' = Append(q, m)
      PROVE  /\ \A i \in 1 .. Len(q') : (i \in 1 .. Len(q) /\ q'[i] = q[i]) \/ q'[i] = m
             /\ \A i, j \in 1 .. Len(q') : i < j => i \in 1 .. Len(q) /\ q'[i] = q[i]
             /\ \A i \in 1 .. Len(q) : i \in 1 .. Len(q') /\ q'[i] = q[i]
             /\ Len(q) + 1 \in 1 .. Len(q') /\ q'[Len(q) + 1] = m
  <2>1. /\ Len(q') = Len(q) + 1 /\ q'[Len(q) + 1] = m
        /\ \A i \in 1 .. Len(q) : q'[i] = q[i]
    BY <1>0, <1>a
  <2> QED
    BY <1>0, <2>1
<1>1. ASSUME NEW c \in Clients, Send(c) PROVE DoneInv'
  <2> DEFINE m == Call(c, sent[c] + 1)
  <2>1. /\ enqueue(m) /\ UNCHANGED <<msg, ran, done, owner, atDestroy>> /\ owner = "alive"
    BY <1>1 DEF Send
  <2>2. c \in Senders /\ sent[c] + 1 \in Nat \ {0}
    BY <1>0, <2>1
  <2>3. m \in Message /\ IsCall(m) /\ ~IsDone(m)
    BY <2>2, Kinds
  <2> HIDE DEF m
  <2>4. /\ q' = Append(q, m) /\ (thd' = "run") = (thd = "run")
        /\ (thd' = "ended") = (thd = "ended")
    BY <2>1, <2>3, EnqueueThread
  <2>5. ~NoticeTaken /\ ~NoticeQueued
    BY <2>1 DEF DoneInv
  <2>6. \A i \in 1 .. Len(q') : ~IsDone(q'[i])
    BY <1>a, <2>3, <2>4, <2>5 DEF NoticeQueued
  <2>7. ~NoticeTaken' /\ ~NoticeQueued' /\ ~done' /\ thd' # "ended"
    BY <2>1, <2>4, <2>5, <2>6 DEF NoticeTaken, NoticeQueued, DoneInv
  <2>8. Divided'
    BY <2>6, <2>7 DEF Divided
  <2> QED
    BY <2>1, <2>7, <2>8 DEF DoneInv
<1>2. CASE Destroy
  <2>1. /\ enqueue(SetDone) /\ UNCHANGED <<msg, ran, done, sent>> /\ owner = "alive" /\ owner' = "join"
        /\ atDestroy' = sent
    BY <1>2 DEF Destroy
  <2>2. /\ q' = Append(q, SetDone) /\ (thd' = "run") = (thd = "run") /\ Taken' = Taken
        /\ (thd' = "ended") = (thd = "ended")
    BY <2>1, Kinds, EnqueueThread
  <2>3. ~NoticeTaken /\ ~NoticeQueued
    BY <2>1 DEF DoneInv
  <2>4. \A i, j \in 1 .. Len(q') : i < j => ~IsDone(q'[i])
    BY <1>a, <2>2, <2>3, Kinds DEF NoticeQueued
  <2>5. ~NoticeTaken' /\ ~done' /\ thd' # "ended" /\ NoticeQueued'
    BY <1>a, <2>1, <2>2, <2>3, Kinds DEF NoticeTaken, NoticeQueued, DoneInv
  <2>6. \A i \in 1 .. Len(q') : IsCall(q'[i]) => q'[i].n <= atDestroy'[q'[i].from]
    BY <1>a, <1>o, <2>1, <2>2, Kinds
  <2>7. Divided'
    BY <2>4, <2>5, <2>6 DEF Divided
  <2>8. \A s \in Senders : Taken'[s] <= atDestroy'[s] /\ atDestroy'[s] <= sent'[s]
    BY <1>0, <1>o, <2>1, <2>2
  <2> QED
    BY <2>1, <2>5, <2>7, <2>8 DEF DoneInv
<1>3. CASE dequeue
  <2>1. /\ thd = "dequeue" /\ thd' = "run" /\ q # <<>> /\ msg' = Head(q) /\ q' = Tail(q)
        /\ UNCHANGED <<owner, done, sent, ran, atDestroy>>
    BY <1>3 DEF dequeue
  <2>2. /\ \A i \in 1 .. Len(q') : q'[i] = q[i + 1] /\ i + 1 \in 1 .. Len(q) /\ 1 < i + 1
        /\ \A i, j \in 1 .. Len(q') : i < j => i + 1 < j + 1
        /\ \A i \in 1 .. Len(q) : i # 1 => i - 1 \in 1 .. Len(q') /\ q'[i - 1] = q[i] /\ 1 < i
        /\ Head(q) = q[1] /\ 1 \in 1 .. Len(q) /\ Head(q) \in Message
    BY <1>0, <2>1, Rest
  <2>3. ~done /\ owner # "joined" /\ ~NoticeTaken /\ (NoticeTaken' <=> IsDone(Head(q)))
    BY <2>1 DEF DoneInv, NoticeTaken
  <2>4. Divided'
    <3>1. \A i, j \in 1 .. Len(q') :
            i < j /\ IsDone(q'[i]) /\ IsCall(q'[j]) => atDestroy[q'[j].from] < q'[j].n
      BY <2>2 DEF DoneInv, Divided
    <3>2. \A i, j \in 1 .. Len(q') :
            i < j /\ IsCall(q'[i]) /\ IsDone(q'[j]) => q'[i].n <= atDestroy[q'[i].from]
      BY <2>2 DEF DoneInv, Divided
    <3>3. IsDone(Head(q)) =>
            \A i \in 1 .. Len(q') : IsCall(q'[i]) => atDestroy[q'[i].from] < q'[i].n
      BY <2>2 DEF DoneInv, Divided
    <3> QED
      BY <2>1, <2>3, <3>1, <3>2, <3>3 DEF Divided
  <2>5. owner = "alive" => ~NoticeTaken' /\ ~NoticeQueued'
    BY <2>2, <2>3 DEF DoneInv, NoticeQueued
  <2>6. ASSUME owner # "alive"
        PROVE  /\ NoticeTaken' \/ NoticeQueued'
               /\ \A s \in Senders : Taken'[s] <= atDestroy[s]
    <3>1. PICK k \in 1 .. Len(q) : IsDone(q[k])
      BY <2>3, <2>6 DEF DoneInv, NoticeQueued
    <3>2. NoticeTaken' \/ NoticeQueued'
      BY <2>2, <2>3, <3>1 DEF NoticeQueued
    <3>3. Taken = ran /\ \A s \in Senders : ran[s] <= atDestroy[s]
      BY <1>0, <2>1, <2>6 DEF DoneInv, Taken
    <3>4. CASE IsCall(Head(q))
      <4>1. 1 < k /\ q[1].from \in Senders
        BY <2>2, <3>1, <3>4, Kinds
      <4>2. q[1].n <= atDestroy[q[1].from]
        BY <2>2, <3>1, <3>4, <4>1 DEF DoneInv, Divided
      <4> QED
        BY <2>1, <2>2, <3>2, <3>3, <4>2 DEF Taken
    <3>5. CASE ~IsCall(Head(q))
      BY <2>1, <3>2, <3>3, <3>5 DEF Taken
    <3> QED
      BY <3>4, <3>5
  <2> QED
    BY <2>1, <2>3, <2>4, <2>5, <2>6 DEF DoneInv
<1>4. CASE RunMessage
  <2>1. /\ thd = "run" /\ thd' = "loop" /\ UNCHANGED <<msg, owner, done, atDestroy>>
        /\ ~IsDone(msg) /\ Taken' = Taken
    BY <1>4, Runs, RunTaken
  <2>2. ~done /\ owner # "joined" /\ ~NoticeTaken /\ ~NoticeTaken'
    BY <2>1 DEF DoneInv, NoticeTaken
  <2>3. CASE UNCHANGED <<sent, q>>
    <3>1. Divided' /\ NoticeQueued' = NoticeQueued
      BY <2>1, <2>2, <2>3 DEF Divided, NoticeQueued, DoneInv
    <3> QED
      BY <2>1, <2>2, <2>3, <3>1 DEF DoneInv
  <2>4. CASE ~UNCHANGED <<sent, q>>
    <3>1. PICK m \in Message : /\ IsCall(m) /\ ~IsDone(m) /\ m.from = Self /\ m.n = sent[Self] + 1
                               /\ q' = Append(q, m) /\ sent' = [sent EXCEPT ![Self] = @ + 1]
      BY <1>4, <2>4, Runs
    <3>2. NoticeQueued' = NoticeQueued
      BY <1>a, <3>1 DEF NoticeQueued
    <3>3. NoticeQueued => atDestroy[Self] < m.n
      <4>1. NoticeQueued => atDestroy[Self] <= sent[Self]
        BY <1>0 DEF DoneInv
      <4> QED
        BY <1>0, <3>1, <4>1
    <3>4. Divided'
      <4>1. ASSUME NEW i \in 1 .. Len(q'), NEW j \in 1 .. Len(q'), i < j, IsDone(q'[i]), IsCall(q'[j])
            PROVE  atDestroy[q'[j].from] < q'[j].n
        <5>1. i \in 1 .. Len(q) /\ IsDone(q[i]) /\ NoticeQueued
          BY <1>a, <3>1, <4>1 DEF NoticeQueued
        <5>2. CASE q'[j] = m
          BY <3>1, <3>3, <5>1, <5>2
        <5>3. CASE q'[j] # m
          <6>1. j \in 1 .. Len(q) /\ q'[j] = q[j]
            BY <1>a, <3>1, <5>3
          <6> QED
            BY <4>1, <5>1, <6>1 DEF DoneInv, Divided
        <5> QED
          BY <5>2, <5>3
      <4>2. ASSUME NEW i \in 1 .. Len(q'), NEW j \in 1 .. Len(q'), i < j, IsCall(q'[i]), IsDone(q'[j])
            PROVE  q'[i].n <= atDestroy[q'[i].from]
        <5>1. i \in 1 .. Len(q) /\ q'[i] = q[i]
          BY <1>a, <3>1, <4>2
        <5>2. j \in 1 .. Len(q) /\ q'[j] = q[j]
          BY <1>a, <3>1, <4>2
        <5> QED
          BY <4>2, <5>1, <5>2 DEF DoneInv, Divided
      <4> QED
        BY <2>1, <2>2, <4>1, <4>2 DEF Divided
    <3>5. \A s \in Senders : sent[s] <= sent'[s]
      BY <1>0, <3>1
    <3>6. \A c \in Clients : sent'[c] = sent[c]
      BY <1>0, <3>1, ActorAssumption
    <3>7. owner # "alive" => \A s \in Senders : Taken[s] <= atDestroy[s] /\ atDestroy[s] <= sent'[s]
      <4>1. ASSUME owner # "alive", NEW s \in Senders
            PROVE  Taken[s] <= atDestroy[s] /\ atDestroy[s] <= sent'[s]
        <5>1. Taken[s] <= atDestroy[s] /\ atDestroy[s] <= sent[s] /\ sent[s] <= sent'[s]
          BY <3>5, <4>1 DEF DoneInv
        <5>2. sent[s] \in Nat /\ sent'[s] \in Nat /\ atDestroy[s] \in Nat
          BY <1>0, <3>1
        <5> QED
          BY <5>1, <5>2
      <4> QED
        BY <4>1
    <3> QED
      BY <2>1, <2>2, <3>2, <3>4, <3>6, <3>7 DEF DoneInv
  <2> QED
    BY <2>3, <2>4
<1>5. CASE RunDone
  <2>1. /\ thd = "run" /\ thd' = "loop" /\ IsDone(msg) /\ ~IsCall(msg) /\ done' = TRUE
        /\ UNCHANGED <<q, msg, owner, sent, ran, atDestroy>>
    BY <1>0, <1>5, Kinds DEF RunDone
  <2>2. owner \notin {"alive", "joined"} /\ NoticeTaken /\ NoticeTaken' /\ Taken' = Taken
    BY <2>1 DEF DoneInv, NoticeTaken, Taken
  <2>3. Divided'
    BY <2>1, <2>2 DEF DoneInv, Divided
  <2> QED
    BY <2>1, <2>2, <2>3 DEF DoneInv
<1>6. CASE Run \/ dequeueWait \/ WakeUp
  <2>1. /\ UNCHANGED <<q, msg, owner, done, sent, ran, atDestroy>>
        /\ thd # "run" /\ thd' # "run" /\ thd # "ended"
        /\ thd' = "ended" => done
        /\ done => thd' = "ended"
    BY <1>6 DEF Run, dequeueWait, WakeUp, DoneInv
  <2>2. NoticeTaken' = NoticeTaken /\ NoticeQueued' = NoticeQueued /\ Taken' = Taken
    BY <2>1 DEF NoticeTaken, NoticeQueued, Taken
  <2>3. Divided'
    BY <2>1, <2>2 DEF DoneInv, Divided
  <2> QED
    BY <2>1, <2>2, <2>3 DEF DoneInv
<1>7. CASE Joined
  <2>1. /\ UNCHANGED <<q, done, thd, msg, sent, ran, atDestroy>> /\ thd = "ended"
        /\ owner = "join" /\ owner' = "joined"
    BY <1>7 DEF Joined
  <2>2. NoticeTaken' = NoticeTaken /\ NoticeQueued' = NoticeQueued /\ Taken' = Taken
    BY <2>1 DEF NoticeTaken, NoticeQueued, Taken
  <2>3. Divided'
    BY <2>1, <2>2 DEF DoneInv, Divided
  <2> QED
    BY <2>1, <2>2, <2>3 DEF DoneInv
<1>8. CASE UNCHANGED vars
  <2>1. NoticeTaken' = NoticeTaken /\ NoticeQueued' = NoticeQueued /\ Taken' = Taken
    BY <1>8 DEF NoticeTaken, NoticeQueued, Taken, vars
  <2>2. Divided'
    BY <1>8, <2>1 DEF DoneInv, Divided, vars
  <2> QED
    BY <1>8, <2>1, <2>2 DEF DoneInv, vars
<1> QED
  BY <1>1, <1>2, <1>3, <1>4, <1>5, <1>6, <1>7, <1>8 DEF Next, Thread, Gone

\* Both parts hold in every state.
LEMMA ActorInv == Spec => [](TypeOK /\ OrderInv /\ DoneInv)
<1>1. Init => OrderInv /\ DoneInv
  <2> SUFFICES ASSUME Init PROVE OrderInv /\ DoneInv
    OBVIOUS
  <2>1. Len(q) = 0 /\ Taken = [s \in Senders |-> 0] /\ sent = [s \in Senders |-> 0]
    BY DEF Init, Taken, None
  <2>2. Ordered(q, Taken, sent)
    BY <2>1 DEF Ordered
  <2>3. ~NoticeTaken /\ ~NoticeQueued /\ Divided
    BY <2>1 DEF Init, NoticeTaken, NoticeQueued, Divided
  <2> QED
    BY <2>1, <2>2, <2>3 DEF Init, OrderInv, DoneInv
<1> QED
  BY <1>1, TypeCorrect, OrderStep, DoneStep, PTL DEF Spec

\* The messages of a sender run in the order in which it sent them, each once and
\* none left out, whoever else sends messages; the actor's own thread, for which
\* messages send, is such a sender.
THEOREM MessagesRunInOrder == Spec => RunInOrder
<1>1. ASSUME TypeOK, OrderInv, [Next]_vars
      PROVE  [\A s \in Senders : ran'[s] \in {ran[s], ran[s] + 1}]_vars
  <2>1. CASE RunMessage
    <3>1. /\ ran' = [ran EXCEPT ![msg.from] = msg.n] /\ msg.n = ran[msg.from] + 1
          /\ msg.from \in Senders /\ ran \in [Senders -> Nat]
      BY <1>1, <2>1, Runs DEF OrderInv, TypeOK
    <3> QED
      BY <3>1
  <2>2. CASE UNCHANGED ran
    BY <2>2
  <2> QED
    BY <1>1, <2>1, <2>2
    DEF Next, Thread, Gone, Send, Destroy, Joined, Run, dequeue, dequeueWait, WakeUp, RunDone, vars
<1>2. TypeOK /\ OrderInv /\ [Next]_vars
        => [\A s \in Senders : ran'[s] \in {ran[s], ran[s] + 1}]_vars
  BY <1>1
<1> QED
  BY <1>2, ActorInv, PTL DEF Spec, RunInOrder

\* When the destructor returns every message that was sent before the destructor's own
\* has run, by whomever it was sent, and none that was sent after it: all the clients'
\* messages, and of those that messages send the ones sent in time.
THEOREM DestructorWaitsForAll == Spec => []JoinedAfterAll
<1>1. ASSUME TypeOK, OrderInv, DoneInv, owner = "joined"
      PROVE  ran = atDestroy /\ \A c \in Clients : ran[c] = sent[c]
  <2>1. /\ thd = "ended" /\ NoticeTaken
        /\ \A i \in 1 .. Len(q) : IsCall(q[i]) => atDestroy[q[i].from] < q[i].n
    BY <1>1 DEF DoneInv, Divided, NoticeTaken
  <2>2. /\ ran \in [Senders -> Nat] /\ atDestroy \in [Senders -> Nat] /\ sent \in [Senders -> Nat]
        /\ Clients \subseteq Senders
    BY <1>1, Functions
  <2>3. Taken = ran
    BY <2>1, <2>2 DEF Taken
  <2>4. ASSUME NEW s \in Senders PROVE ran[s] = atDestroy[s]
    <3>1. ran[s] <= atDestroy[s] /\ atDestroy[s] <= sent[s]
          /\ ran[s] \in Nat /\ atDestroy[s] \in Nat
      BY <1>1, <2>2, <2>3 DEF DoneInv
    <3>2. ~(ran[s] < atDestroy[s])
      <4> SUFFICES ASSUME ran[s] < atDestroy[s] PROVE FALSE
        OBVIOUS
      <4>1. PICK i \in 1 .. Len(q) : IsCall(q[i]) /\ q[i].from = s /\ q[i].n = atDestroy[s]
        BY <1>1, <2>3, <3>1 DEF OrderInv, Ordered
      <4> QED
        BY <2>1, <3>1, <4>1
    <3> QED
      BY <3>1, <3>2
  <2>5. \A c \in Clients : atDestroy[c] = sent[c]
    BY <1>1 DEF DoneInv
  <2> QED
    BY <2>2, <2>4, <2>5
<1>2. TypeOK /\ OrderInv /\ DoneInv => JoinedAfterAll
  BY <1>1 DEF JoinedAfterAll
<1> QED
  BY <1>2, ActorInv, PTL

-----------------------------------------------------------------------------
(***************************************************************************)
(* Why the destructor returns: what fairness cannot give by itself is that *)
(* no message is missed by a thread that is about to wait.                 *)
(***************************************************************************)

\* A thread that waits has left nothing in the queue.
WaitInv == thd = "wait" => q = <<>>

\* No wakeup is lost: the actor's thread sleeps only on an empty queue, and while
\* the destructor is in join it neither sleeps nor comes to dequeue to sleep there.
NoticeIsSeen ==
    /\ thd = "wait" => q = <<>>
    /\ owner # "alive" => thd # "wait" /\ (thd = "dequeue" => q # <<>>)

\* Every message wakes the thread up.
LEMMA WaitStep ==
    ASSUME TypeOK, WaitInv, [Next]_vars
    PROVE  WaitInv'
<1>1. ASSUME NEW c \in Clients, Send(c) PROVE WaitInv'
  BY <1>1 DEF Send, enqueue, WaitInv
<1>2. CASE RunMessage
  BY <1>2, Runs DEF WaitInv
<1> QED
  BY <1>1, <1>2
  DEF Next, Thread, Gone, Destroy, enqueue, dequeue, Run, dequeueWait, WakeUp, RunDone, Joined, vars,
      WaitInv

\* The destructor never waits for a thread that sleeps: the message that sets done
\* is in the queue, so the thread finds it, whatever clients and messages send.
THEOREM NoticeIsNeverMissed == Spec => []NoticeIsSeen
<1>1. Init => WaitInv
  BY DEF Init, WaitInv
<1>2. ASSUME TypeOK, DoneInv, WaitInv PROVE NoticeIsSeen
  <2>1. NoticeQueued => q # <<>>
    BY <1>2 DEF NoticeQueued, TypeOK
  <2>2. owner # "alive" /\ thd \in {"wait", "dequeue"} => NoticeQueued
    BY <1>2 DEF DoneInv, NoticeTaken
  <2> QED
    BY <1>2, <2>1, <2>2 DEF WaitInv, NoticeIsSeen
<1>3. TypeOK /\ WaitInv /\ [Next]_vars => WaitInv'
  BY WaitStep
<1>4. TypeOK /\ DoneInv /\ WaitInv => NoticeIsSeen
  BY <1>2
<1> QED
  BY <1>1, <1>3, <1>4, ActorInv, PTL DEF Spec
=============================================================================
