------------------------------- MODULE Actor -------------------------------
(***************************************************************************)
(* The active object of executors/actors_cc11.h (class Actior; class Actor *)
(* of shadow/actors_cc11.h) on its message_queue (safe_queue_cc11.h): a    *)
(* thread that takes messages from a queue and runs them, and a destructor *)
(* that sends a message setting done and joins the thread.  cc98::Actor of *)
(* actors_cc98.h does the same with a sentinel: finding it in the queue is *)
(* what setting done and testing it is here.                               *)
(* enqueue is one critical section, notify_one included; so is the test of *)
(* dequeue with the pop or the wait that follows.  Clients stop using the  *)
(* object before they destroy it, but a message may send another one from  *)
(* the actor's own thread at any time, also once the destructor has sent   *)
(* its own: the actor's thread is one of the senders.                      *)
(***************************************************************************)
EXTENDS Naturals, Sequences

CONSTANTS
    Clients,    \* threads that send messages
    Self,       \* the actor's own thread, as the sender of what messages send
    MaxSend,    \* bound: messages each client sends
    Resends     \* TRUE: a client's message, when it runs, sends one more message

ASSUME ActorAssumption ==
    /\ Self \notin Clients
    /\ MaxSend \in Nat
    /\ Resends \in BOOLEAN

VARIABLES
    q,        \* the queue
    done,
    thd,      \* the actor's thread: "loop", "dequeue", "wait", "run" or "ended"
    msg,      \* the message it runs
    sent,     \* the number of messages each sender has sent
    owner,    \* the thread that owns the object: "alive", "join" or "joined"
    ran,      \* history: the number of messages of each sender that have run
    atDestroy \* history: sent, when the destructor sent its message

vars == <<q, done, thd, msg, sent, owner, ran, atDestroy>>

Senders == Clients \cup {Self}

\* The messages: the n-th of a sender, and the destructor's.
Call(s, n) == [kind |-> "call", from |-> s, n |-> n]
SetDone == [kind |-> "done"]

None == [s \in Senders |-> 0]

Init ==
    /\ q = <<>>
    /\ done = FALSE
    /\ thd = "loop"
    /\ msg = SetDone
    /\ sent = None
    /\ owner = "alive"
    /\ ran = None
    /\ atDestroy = None

-----------------------------------------------------------------------------
(* message_queue.                                                          *)

\* Mutant: only a queue that was not empty is notified about.
MutEnqueue(m) ==
    /\ q' = Append(q, m)
    /\ thd' = IF thd = "wait" /\ q # <<>> THEN "dequeue" ELSE thd

\* push and notify_one: the actor's thread is the only one that ever waits.
enqueue(m) ==
    /\ q' = Append(q, m)
    /\ thd' = IF thd = "wait" THEN "dequeue" ELSE thd

\* Mutant: the newest message is taken.
MutDequeue ==
    /\ thd = "dequeue"
    /\ q # <<>>
    /\ msg' = q[Len(q)]
    /\ q' = SubSeq(q, 1, Len(q) - 1)
    /\ thd' = "run"
    /\ UNCHANGED <<done, sent, owner, ran, atDestroy>>

dequeue ==
    /\ thd = "dequeue"
    /\ q # <<>>
    /\ msg' = Head(q)
    /\ q' = Tail(q)
    /\ thd' = "run"
    /\ UNCHANGED <<done, sent, owner, ran, atDestroy>>

\* while(q.empty()) c.wait(lock)
dequeueWait ==
    /\ thd = "dequeue"
    /\ q = <<>>
    /\ thd' = "wait"
    /\ UNCHANGED <<q, done, msg, sent, owner, ran, atDestroy>>

WakeUp ==
    /\ thd = "wait"
    /\ thd' = "dequeue"
    /\ UNCHANGED <<q, done, msg, sent, owner, ran, atDestroy>>

-----------------------------------------------------------------------------
(* The actor.                                                              *)

\* A client sends a message.
Send(c) ==
    /\ owner = "alive"
    /\ sent[c] < MaxSend
    /\ sent' = [sent EXCEPT ![c] = @ + 1]
    /\ enqueue(Call(c, sent[c] + 1))
    /\ UNCHANGED <<done, msg, owner, ran, atDestroy>>

\* ~Actior sends the message that sets done, and joins the thread.
Destroy ==
    /\ owner = "alive"
    /\ owner' = "join"
    /\ enqueue(SetDone)
    /\ atDestroy' = sent
    /\ UNCHANGED <<done, msg, sent, ran>>

Joined ==
    /\ owner = "join"
    /\ thd = "ended"
    /\ owner' = "joined"
    /\ UNCHANGED <<q, done, thd, msg, sent, ran, atDestroy>>

\* while( !done )
Run ==
    /\ thd = "loop"
    /\ thd' = IF done THEN "ended" ELSE "dequeue"
    /\ UNCHANGED <<q, done, msg, sent, owner, ran, atDestroy>>

\* msg(): the destructor's message (or the sentinel)
RunDone ==
    /\ thd = "run"
    /\ msg = SetDone
    /\ done' = TRUE
    /\ thd' = "loop"
    /\ UNCHANGED <<q, msg, sent, owner, ran, atDestroy>>

\* Send from a message that runs: the thread is not waiting, so there is nobody to
\* notify.
SendFromMessage ==
    /\ sent' = [sent EXCEPT ![Self] = @ + 1]
    /\ q' = Append(q, Call(Self, sent[Self] + 1))

\* Mutant: done is set by every message.
MutRunMessage ==
    /\ thd = "run"
    /\ msg # SetDone
    /\ done' = TRUE
    /\ thd' = "loop"
    /\ ran' = [ran EXCEPT ![msg.from] = msg.n]
    /\ IF Resends /\ msg.from \in Clients THEN SendFromMessage ELSE UNCHANGED <<sent, q>>
    /\ UNCHANGED <<msg, owner, atDestroy>>

\* msg(): a message, which may send another one
RunMessage ==
    /\ thd = "run"
    /\ msg # SetDone
    /\ thd' = "loop"
    /\ ran' = [ran EXCEPT ![msg.from] = msg.n]
    /\ IF Resends /\ msg.from \in Clients THEN SendFromMessage ELSE UNCHANGED <<sent, q>>
    /\ UNCHANGED <<done, msg, owner, atDestroy>>

Thread == Run \/ dequeue \/ dequeueWait \/ RunDone \/ RunMessage

\* The object is gone.
Gone == owner = "joined" /\ UNCHANGED vars

Next == (\E c \in Clients : Send(c)) \/ Destroy \/ Joined \/ Thread \/ WakeUp \/ Gone

Spec == Init /\ [][Next]_vars

\* The thread runs while it can, messages return, and join returns when the
\* thread has ended.
FairSpec == Spec /\ WF_vars(Thread) /\ WF_vars(Joined)

-----------------------------------------------------------------------------
Message == {Call(s, n) : s \in Senders, n \in Nat \ {0}} \cup {SetDone}

TypeOK ==
    /\ q \in Seq(Message)
    /\ done \in BOOLEAN
    /\ thd \in {"loop", "dequeue", "wait", "run", "ended"}
    /\ msg \in Message
    /\ sent \in [Senders -> Nat]
    /\ owner \in {"alive", "join", "joined"}
    /\ ran \in [Senders -> Nat]
    /\ atDestroy \in [Senders -> Nat]

\* The messages of a sender (a client, or the messages themselves) run in the order
\* in which it sent them, each once.
RunInOrder == [][\A s \in Senders : ran'[s] \in {ran[s], ran[s] + 1}]_vars

\* When the destructor returns, exactly what was in the queue before its message has
\* run: every message of every client, and of the messages sent by messages those
\* sent before it.  One that a message sends later is not run: "wait for queue to
\* drain" (actors_cc98.h) is no more than this.
JoinedAfterAll ==
    owner = "joined" =>
        /\ ran = atDestroy
        /\ \A c \in Clients : ran[c] = sent[c]

\* The destructor returns: its message is not missed by a thread about to wait.
DestructorReturns == owner = "join" ~> owner = "joined"
=============================================================================
