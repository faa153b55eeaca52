---------------------------- MODULE BlockedQueues ----------------------------
(***************************************************************************)
(* concurent::BlockedQueue and concurent::BoundedBlockedQueue of           *)
(* executors/test_pthread_safe_queue.cc: a list under one mutex.  A        *)
(* consumer waits on rcond_ (cond_ of BlockedQueue) while the list is      *)
(* empty, a producer on wcond_ while it is full; a push that found it      *)
(* empty and a pop that found it full broadcast after they have left the   *)
(* critical section.  was_empty and was_full are computed once, when the   *)
(* call first gets the mutex, and still used after the wait, when the list *)
(* may be in another state.  BlockedQueue is the queue that is never full: *)
(* its push never waits, nobody waits on wcond_, and try_pop does not      *)
(* broadcast.  A critical section is one step; so is pthread_cond_wait's   *)
(* unlock and sleep.  A sleeper may wake up without a broadcast.           *)
(***************************************************************************)
EXTENDS Integers, Sequences

CONSTANTS
    Producers,
    Consumers,
    Sizes,       \* the queues: what they are constructed with
    MaxPush      \* bound: values each producer pushes

\* The size that no list has: a BlockedQueue.
Unbounded == -1

ASSUME QueueAssumption ==
    /\ MaxPush \in Nat
    /\ Producers \cap Consumers = {}
    /\ Sizes \subseteq (Nat \ {0}) \cup {Unbounded}

Threads == Producers \cup Consumers

VARIABLES
    maxSize_, \* a constant of the queue
    list_,
    size_,
    pc,       \* "call", "wait" (on wcond_ or rcond_), "relock" or "broadcast"
    was,      \* was_empty of a push, was_full of a pop in progress
    pushed,   \* the number of values each producer has pushed
    popped,   \* history: the number of values of each producer that were popped
    waited    \* history: some producer has had to wait for room

vars == <<maxSize_, list_, size_, pc, was, pushed, popped, waited>>

\* The n-th value of producer p.
Value(p, n) == <<p, n>>

Init ==
    /\ maxSize_ \in Sizes
    /\ list_ = <<>>
    /\ size_ = 0
    /\ pc = [t \in Threads |-> "call"]
    /\ was = [t \in Threads |-> FALSE]
    /\ pushed = [p \in Producers |-> 0]
    /\ popped = [p \in Producers |-> 0]
    /\ waited = FALSE

\* get_size_() == maxSize_
Full == size_ = maxSize_

\* The thread has the mutex: at the start of its call, where it looks at the
\* list, or after a wait, when it knows what it saw then.
Locked(t, look) ==
    \/ pc[t] = "call" /\ was' = [was EXCEPT ![t] = look]
    \/ pc[t] = "relock" /\ UNCHANGED was

\* Leave the critical section, with a broadcast to make or the call complete.
Leave(t) == pc' = [pc EXCEPT ![t] = IF was'[t] THEN "broadcast" ELSE "call"]

\* Mutant: a producer that was woken up does not test for room again.
MutPush(p) ==
    /\ pushed[p] < MaxPush
    /\ Locked(p, list_ = <<>>)
    /\ pc[p] = "relock" \/ ~Full
    /\ list_' = Append(list_, Value(p, pushed[p] + 1))
    /\ size_' = size_ + 1
    /\ pushed' = [pushed EXCEPT ![p] = @ + 1]
    /\ Leave(p)
    /\ UNCHANGED <<maxSize_, popped, waited>>

\* Mutant: the list is looked at after the value has been added.
MutPushLate(p) ==
    /\ pushed[p] < MaxPush
    /\ ~Full
    /\ list_' = Append(list_, Value(p, pushed[p] + 1))
    /\ Locked(p, list_' = <<>>)
    /\ size_' = size_ + 1
    /\ pushed' = [pushed EXCEPT ![p] = @ + 1]
    /\ Leave(p)
    /\ UNCHANGED <<maxSize_, popped, waited>>

push(p) ==
    /\ pushed[p] < MaxPush
    /\ Locked(p, list_ = <<>>)
    /\ ~Full
    /\ list_' = Append(list_, Value(p, pushed[p] + 1))
    /\ size_' = size_ + 1
    /\ pushed' = [pushed EXCEPT ![p] = @ + 1]
    /\ Leave(p)
    /\ UNCHANGED <<maxSize_, popped, waited>>

\* Mutant: a consumer takes the value at the other end.
MutPop(c) ==
    /\ Locked(c, Full)
    /\ list_ # <<>>
    /\ popped' = [popped EXCEPT ![list_[Len(list_)][1]] = list_[Len(list_)][2]]
    /\ list_' = SubSeq(list_, 1, Len(list_) - 1)
    /\ size_' = size_ - 1
    /\ Leave(c)
    /\ UNCHANGED <<maxSize_, pushed, waited>>

\* pop, and BlockedQueue's try_pop.
pop(c) ==
    /\ Locked(c, Full)
    /\ list_ # <<>>
    /\ popped' = [popped EXCEPT ![Head(list_)[1]] = Head(list_)[2]]
    /\ list_' = Tail(list_)
    /\ size_' = size_ - 1
    /\ Leave(c)
    /\ UNCHANGED <<maxSize_, pushed, waited>>

\* while (get_size_() == maxSize_) pthread_cond_wait(&wcond_, &lock_)
waitForRoom(p) ==
    /\ pushed[p] < MaxPush
    /\ Locked(p, list_ = <<>>)
    /\ Full
    /\ pc' = [pc EXCEPT ![p] = "wait"]
    /\ waited' = TRUE
    /\ UNCHANGED <<maxSize_, list_, size_, pushed, popped>>

\* while (list_.empty()) pthread_cond_wait(&rcond_, &lock_)
waitForValue(c) ==
    /\ Locked(c, Full)
    /\ list_ = <<>>
    /\ pc' = [pc EXCEPT ![c] = "wait"]
    /\ UNCHANGED <<maxSize_, list_, size_, pushed, popped, waited>>

\* Mutant: the wrong condition variable.
MutSleepers(t) == IF t \in Producers THEN Producers ELSE Consumers

\* A push wakes up the consumers (rcond_), a pop the producers (wcond_).
Sleepers(t) == IF t \in Producers THEN Consumers ELSE Producers

broadcast(t) ==
    /\ pc[t] = "broadcast"
    /\ pc' = [u \in Threads |->
                IF u = t THEN "call"
                ELSE IF u \in Sleepers(t) /\ pc[u] = "wait" THEN "relock" ELSE pc[u]]
    /\ UNCHANGED <<maxSize_, list_, size_, was, pushed, popped, waited>>

WakeUp(t) ==
    /\ pc[t] = "wait"
    /\ pc' = [pc EXCEPT ![t] = "relock"]
    /\ UNCHANGED <<maxSize_, list_, size_, was, pushed, popped, waited>>

\* A consumer's call, try_pop or pop: wait while the list is empty, then take.
Consume(c) == pop(c) \/ waitForValue(c)

Next ==
    \/ \E p \in Producers : push(p) \/ waitForRoom(p)
    \/ \E c \in Consumers : Consume(c)
    \/ \E t \in Threads : broadcast(t) \/ WakeUp(t)

Spec == Init /\ [][Next]_vars

\* A broadcast that was decided on is made, and a consumer that can have the
\* mutex gets it in the end.  Nobody has to wake up spontaneously.
FairSpec ==
    /\ Spec
    /\ \A t \in Threads : WF_vars(broadcast(t))
    /\ \A c \in Consumers : SF_vars(Consume(c))

-----------------------------------------------------------------------------
\* size_ is the length of the list, never more than maxSize_, also when a
\* producer that was woken up finds the room taken by another.  Nobody ever
\* waits for room in a queue that has no bound.
TypeOK ==
    /\ maxSize_ \in Sizes
    /\ size_ = Len(list_)
    /\ size_ \in Nat
    /\ maxSize_ # Unbounded => size_ <= maxSize_
    /\ pc \in [Threads -> {"call", "wait", "relock", "broadcast"}]
    /\ was \in [Threads -> BOOLEAN]
    /\ pushed \in [Producers -> 0 .. MaxPush]
    /\ popped \in [Producers -> 0 .. MaxPush]
    /\ waited \in BOOLEAN
    /\ waited => maxSize_ # Unbounded

\* No wake-up is lost, although only the push that found the list empty
\* broadcasts, and only after it has released the mutex: while a consumer sleeps
\* and there is something for it, a broadcast is still to come.  (After a producer
\* has waited for room was_empty is stale, and this is lost.)
ConsumerIsWoken ==
    (~waited /\ list_ # <<>> /\ \E c \in Consumers : pc[c] = "wait")
        => \E p \in Producers : pc[p] = "broadcast"

\* The values of one producer are popped in the order of its pushes, none of
\* them twice and none left out, however many producers and consumers interleave
\* and whatever wake-ups are missed.
PoppedInOrder ==
    [][\A p \in Producers : popped'[p] \in {popped[p], popped[p] + 1}]_vars

\* Every value that is pushed is popped, without a spurious wake-up, unless some
\* producer has had to wait for room (so always from a BlockedQueue).
EverythingIsPopped ==
    \A p \in Producers : \A n \in 1 .. MaxPush :
        pushed[p] >= n ~> (popped[p] >= n \/ waited)
=============================================================================
