--------------------------- MODULE FramePipeline ---------------------------
(***************************************************************************)
(* The camera pipeline of go_bench.go.  A grabber puts every frame into a  *)
(* cyclical buffer, sends the frame that falls out of it to the RNN, and   *)
(* offers the new one for recognition; a work pool recognises frames; an   *)
(* acceptor marks a recognised frame if it is still in the buffer.         *)
(*                                                                         *)
(* The goroutines meet in three channels of capacity one and in the mutex  *)
(* that guards the buffer, which the grabber keeps while it sends to the   *)
(* RNN.  The work pool is a library: a bounded queue of works and a number *)
(* of routines.  Nobody closes quit_grabber_interrupt, and the performance *)
(* goroutine only prints.                                                  *)
(***************************************************************************)
EXTENDS Naturals, Sequences

CONSTANTS
    allowed_latency_frames,  \* slots of the cyclical buffer (7)
    threads_count,           \* works the pool keeps queued (5)
    Routines,                \* the pool's goroutines
    MaxFrames                \* bound: ticks of the grabber

ASSUME PipelineAssumption ==
    /\ allowed_latency_frames \in Nat \ {0}
    /\ threads_count \in Nat
    /\ MaxFrames \in Nat

VARIABLES
    q, rd_wr_ptr,       \* the CyclicalBuffer
    locked,             \* the mutex of the buffer is taken by the grabber
    global_frame_idx,
    grabber,            \* "select", "push", "rnn", "recog"
    oldest,             \* the frame the buffer has returned
    rnn_ch, recog_ch, work_finish_ch,
    posting,            \* the frame the recog goroutine wants to post, 0 for none
    works,              \* works queued in the pool
    working,            \* the frame each routine works on, 0 for none
    accepted,           \* the frame the acceptor has received, 0 for none
    \* History, read by properties only:
    rnn,                \* frames the RNN has received
    skipped,            \* frames the pool has refused
    recognised,         \* frames whose work has been done
    marked              \* frames marked in the buffer

bvars == <<q, rd_wr_ptr>>
gvars == <<locked, global_frame_idx, grabber, oldest>>
wvars == <<posting, works, working, accepted>>
history == <<rnn, skipped, recognised, marked>>
vars == <<bvars, gvars, rnn_ch, recog_ch, work_finish_ch, wvars, history>>

Slots == 0 .. allowed_latency_frames - 1
Frame(i) == [frame_idx |-> i, recog_result |-> 0]

Init ==
    /\ q = [i \in Slots |-> Frame(0)]
    /\ rd_wr_ptr = 0
    /\ locked = FALSE
    /\ global_frame_idx = 0
    /\ grabber = "select"
    /\ oldest = Frame(0)
    /\ rnn_ch = <<>>
    /\ recog_ch = <<>>
    /\ work_finish_ch = <<>>
    /\ posting = 0
    /\ works = <<>>
    /\ working = [r \in Routines |-> 0]
    /\ accepted = 0
    /\ rnn = <<>>
    /\ skipped = {}
    /\ recognised = {}
    /\ marked = {}

\* A channel of capacity one takes a value only when it is empty.
HasRoom(ch) == ch = <<>>

-----------------------------------------------------------------------------
(* The grabber.                                                            *)

Tick ==
    /\ grabber = "select"
    /\ global_frame_idx < MaxFrames
    /\ global_frame_idx' = global_frame_idx + 1
    /\ grabber' = "push"
    /\ UNCHANGED <<bvars, locked, oldest, rnn_ch, recog_ch, work_finish_ch, wvars, history>>

\* Mutant: the slot is read after it has been written.
MutReadAfterWrite(frame) ==
    /\ oldest' = frame
    /\ q' = [q EXCEPT ![rd_wr_ptr] = frame]
    /\ rd_wr_ptr' = (rd_wr_ptr + 1) % allowed_latency_frames

\* PushBack returns the frame it overwrites.
PushBack(frame) ==
    /\ oldest' = q[rd_wr_ptr]
    /\ q' = [q EXCEPT ![rd_wr_ptr] = frame]
    /\ rd_wr_ptr' = (rd_wr_ptr + 1) % allowed_latency_frames

GrabberPush ==
    /\ grabber = "push"
    /\ ~locked
    /\ locked' = TRUE
    /\ PushBack(Frame(global_frame_idx))
    /\ grabber' = "rnn"
    /\ UNCHANGED <<global_frame_idx, rnn_ch, recog_ch, work_finish_ch, wvars, history>>

\* rnn_ch <- e, with the mutex still locked
SendRnn ==
    /\ grabber = "rnn"
    /\ HasRoom(rnn_ch)
    /\ rnn_ch' = Append(rnn_ch, oldest)
    /\ locked' = FALSE
    /\ grabber' = "recog"
    /\ UNCHANGED <<bvars, global_frame_idx, oldest, recog_ch, work_finish_ch, wvars, history>>

\* Mutant: the loop of the grabber sends the frame again.
MutSendRecog ==
    /\ grabber = "recog"
    /\ HasRoom(recog_ch)
    /\ recog_ch' = Append(recog_ch, global_frame_idx)
    /\ UNCHANGED <<bvars, gvars, rnn_ch, work_finish_ch, wvars, history>>

SendRecog ==
    /\ grabber = "recog"
    /\ HasRoom(recog_ch)
    /\ recog_ch' = Append(recog_ch, global_frame_idx)
    /\ grabber' = "select"
    /\ UNCHANGED <<bvars, locked, global_frame_idx, oldest, rnn_ch, work_finish_ch, wvars, history>>

Grabber == GrabberPush \/ SendRnn \/ SendRecog

-----------------------------------------------------------------------------
(* Recognition.                                                            *)

\* Mutant: a frame is received before the last one has been posted.
MutRecogReceive ==
    /\ recog_ch # <<>>
    /\ posting' = Head(recog_ch)
    /\ recog_ch' = Tail(recog_ch)
    /\ UNCHANGED <<bvars, gvars, rnn_ch, work_finish_ch, works, working, accepted, history>>

RecogReceive ==
    /\ posting = 0
    /\ recog_ch # <<>>
    /\ posting' = Head(recog_ch)
    /\ recog_ch' = Tail(recog_ch)
    /\ UNCHANGED <<bvars, gvars, rnn_ch, work_finish_ch, works, working, accepted, history>>

\* PostWork refuses a work when the pool's queue is full; the frame is skipped.
PostWork ==
    /\ posting # 0
    /\ posting' = 0
    /\ IF Len(works) < threads_count
       THEN works' = Append(works, posting) /\ UNCHANGED skipped
       ELSE skipped' = skipped \cup {posting} /\ UNCHANGED works
    /\ UNCHANGED <<bvars, gvars, rnn_ch, recog_ch, work_finish_ch, working, accepted, rnn,
                   recognised, marked>>

\* A routine of the pool takes the next work.
StartWork(r) ==
    /\ working[r] = 0
    /\ works # <<>>
    /\ working' = [working EXCEPT ![r] = Head(works)]
    /\ works' = Tail(works)
    /\ UNCHANGED <<bvars, gvars, rnn_ch, recog_ch, work_finish_ch, posting, accepted, history>>

\* DoWork: mw.c <- mw.frame
DoWork(r) ==
    /\ working[r] # 0
    /\ HasRoom(work_finish_ch)
    /\ work_finish_ch' = Append(work_finish_ch, working[r])
    /\ working' = [working EXCEPT ![r] = 0]
    /\ recognised' = recognised \cup {working[r]}
    /\ UNCHANGED <<bvars, gvars, rnn_ch, recog_ch, posting, works, accepted, rnn, skipped, marked>>

-----------------------------------------------------------------------------
(* The acceptor and the RNN.                                               *)

Accept ==
    /\ accepted = 0
    /\ work_finish_ch # <<>>
    /\ accepted' = Head(work_finish_ch)
    /\ work_finish_ch' = Tail(work_finish_ch)
    /\ UNCHANGED <<bvars, gvars, rnn_ch, recog_ch, posting, works, working, history>>

\* Mutant: the slot after the one that holds the frame.
MutSearchByFrameIdx(i) ==
    {s \in Slots : q[(s + allowed_latency_frames - 1) % allowed_latency_frames].frame_idx = i}

\* The first slot that holds the frame.
SearchByFrameIdx(i) ==
    {s \in Slots : q[s].frame_idx = i /\ \A t \in 0 .. s - 1 : q[t].frame_idx # i}

\* Mutant: the acceptor waits for the frame to appear.
MutMark ==
    /\ accepted # 0
    /\ ~locked
    /\ LET found == SearchByFrameIdx(accepted) IN
        /\ q' = [s \in Slots |-> IF s \in found THEN [q[s] EXCEPT !.recog_result = 1] ELSE q[s]]
        /\ marked' = IF found = {} THEN marked ELSE marked \cup {accepted}
        /\ accepted' = IF found = {} THEN accepted ELSE 0
    /\ UNCHANGED <<rd_wr_ptr, gvars, rnn_ch, recog_ch, work_finish_ch, posting, works, working,
                   rnn, skipped, recognised>>

\* Under the mutex: mark the frame if it is still in the buffer.
Mark ==
    /\ accepted # 0
    /\ ~locked
    /\ LET found == SearchByFrameIdx(accepted) IN
        /\ q' = [s \in Slots |-> IF s \in found THEN [q[s] EXCEPT !.recog_result = 1] ELSE q[s]]
        /\ marked' = IF found = {} THEN marked ELSE marked \cup {accepted}
    /\ accepted' = 0
    /\ UNCHANGED <<rd_wr_ptr, gvars, rnn_ch, recog_ch, work_finish_ch, posting, works, working,
                   rnn, skipped, recognised>>

RnnReceive ==
    /\ rnn_ch # <<>>
    /\ rnn' = Append(rnn, Head(rnn_ch))
    /\ rnn_ch' = Tail(rnn_ch)
    /\ UNCHANGED <<bvars, gvars, recog_ch, work_finish_ch, wvars, skipped, recognised, marked>>

-----------------------------------------------------------------------------
Recog == RecogReceive \/ PostWork
Acceptor == Accept \/ Mark

\* The ticker may stop at the bound; then everything comes to rest.
Rest == global_frame_idx = MaxFrames /\ grabber = "select" /\ UNCHANGED vars

Next ==
    \/ Tick \/ Grabber \/ Recog \/ Acceptor \/ RnnReceive
    \/ \E r \in Routines : StartWork(r) \/ DoWork(r)
    \/ Rest

Spec == Init /\ [][Next]_vars

\* The Go scheduler runs every goroutine that can go on, and sync.Mutex does not
\* starve the acceptor.
FairSpec ==
    /\ Spec
    /\ WF_vars(Grabber)
    /\ WF_vars(Recog)
    /\ WF_vars(Accept) /\ SF_vars(Mark)
    /\ WF_vars(RnnReceive)
    /\ \A r \in Routines : WF_vars(StartWork(r) \/ DoWork(r))

-----------------------------------------------------------------------------
(* Properties.                                                             *)

FrameIdx == 0 .. MaxFrames
FrameType == [frame_idx : FrameIdx, recog_result : {0, 1}]

TypeOK ==
    /\ q \in [Slots -> FrameType]
    /\ rd_wr_ptr \in Slots
    /\ locked \in BOOLEAN
    /\ global_frame_idx \in FrameIdx
    /\ grabber \in {"select", "push", "rnn", "recog"}
    /\ locked = (grabber = "rnn")
    /\ oldest \in FrameType
    /\ rnn_ch \in Seq(FrameType) /\ Len(rnn_ch) <= 1
    /\ recog_ch \in Seq(FrameIdx) /\ Len(recog_ch) <= 1
    /\ work_finish_ch \in Seq(FrameIdx) /\ Len(work_finish_ch) <= 1
    /\ posting \in FrameIdx
    /\ works \in Seq(FrameIdx) /\ Len(works) <= threads_count
    /\ working \in [Routines -> FrameIdx]
    /\ accepted \in FrameIdx
    /\ rnn \in Seq(FrameType)
    /\ skipped \subseteq FrameIdx
    /\ recognised \subseteq FrameIdx
    /\ marked \subseteq FrameIdx

\* The RNN receives every frame, in order and allowed_latency_frames ticks after
\* it was grabbed; before that it receives the empty frames of the new buffer.
FixedLatency ==
    \A n \in 1 .. Len(rnn) :
        rnn[n].frame_idx = IF n <= allowed_latency_frames THEN 0 ELSE n - allowed_latency_frames

\* What the RNN learns is true and complete: a frame it receives as recognised
\* has been, and one that was marked in time arrives with its mark.
MarksAreRight ==
    \A n \in 1 .. Len(rnn) :
        /\ rnn[n].recog_result = 1 => rnn[n].frame_idx \in recognised
        /\ rnn[n].recog_result = 1 <=> rnn[n].frame_idx \in marked

InPipeline ==
    {recog_ch[i] : i \in DOMAIN recog_ch} \cup {posting} \cup {works[i] : i \in DOMAIN works}
        \cup {working[r] : r \in Routines}

\* No frame gets lost on its way to recognition: every frame that has been
\* offered is on the way, recognised, or counted as skipped.
FramesAccounted ==
    \A i \in 1 .. global_frame_idx :
        \/ i \in InPipeline \cup recognised \cup skipped
        \/ i = global_frame_idx /\ grabber # "select"

\* The grabber always comes back for the next tick, although it holds the mutex
\* while it waits for the RNN and waits for the recogniser afterwards.
GrabberReturns == grabber # "select" ~> grabber = "select"

\* Frame i has been recognised, and the acceptor is through with it.
Accepted(i) ==
    i \in recognised /\ accepted # i /\ \A n \in DOMAIN work_finish_ch : work_finish_ch[n] # i

\* Every work that a routine of the pool has begun ends, and the acceptor takes its
\* result from the channel and is through with it, whether or not the frame is still
\* in the buffer, although the grabber may have the mutex.
WorkEnds ==
    \A r \in Routines, i \in 1 .. MaxFrames : working[r] = i ~> Accepted(i)
=============================================================================
