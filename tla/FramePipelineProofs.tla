------------------------ MODULE FramePipelineProofs ------------------------
(***************************************************************************)
(* Proofs about FramePipeline for any size of the buffer and of the pool,  *)
(* any number of routines and of frames.                                   *)
(***************************************************************************)
EXTENDS FramePipeline, TLAPS

N == allowed_latency_frames

\* The frames the buffer is filled with, and those the grabber makes, are frames.
LEMMA FrameTypes ==
    /\ \A i \in FrameIdx : Frame(i) \in FrameType
    /\ 0 \in FrameIdx
    /\ 0 \in Slots
    /\ FrameIdx \subseteq Nat
  BY PipelineAssumption DEF Frame, FrameType, FrameIdx, Slots

\* The next position of the buffer's pointer, without the modulo.
LEMMA NextSlot ==
    ASSUME NEW p \in Slots
    PROVE  (p + 1) % N = IF p + 1 < N THEN p + 1 ELSE 0
<1>1. N \in Nat /\ N > 0 /\ p \in Nat /\ p < N
  BY PipelineAssumption DEF N, Slots
<1>2. CASE p + 1 < N
  BY <1>1, <1>2, SMTT(30)
<1>3. CASE p + 1 = N
  <2>1. N % N = 0
    BY <1>1, SMTT(30)
  <2> QED
    BY <1>1, <1>3, <2>1
<1> QED
  BY <1>1, <1>2, <1>3

\* A channel is empty when its length is zero.
LEMMA EmptyChannel == ASSUME NEW S, NEW ch \in Seq(S) PROVE Len(ch) \in Nat /\ (ch = <<>> <=> Len(ch) = 0)
  OBVIOUS

\* A channel that is received from: what arrives and what stays has the type of
\* the channel.
LEMMA Receive ==
    ASSUME NEW S, NEW ch \in Seq(S), ch # <<>>
    PROVE  /\ Head(ch) \in S /\ Head(ch) = ch[1]
           /\ Tail(ch) \in Seq(S) /\ Len(Tail(ch)) = Len(ch) - 1
           /\ \A i \in 1 .. Len(Tail(ch)) : Tail(ch)[i] = ch[i + 1]
  OBVIOUS

\* A channel that is sent to.
LEMMA SendTo ==
    ASSUME NEW S, NEW ch \in Seq(S), NEW x \in S
    PROVE  /\ Append(ch, x) \in Seq(S) /\ Len(Append(ch, x)) = Len(ch) + 1
           /\ \A i \in 1 .. Len(ch) : Append(ch, x)[i] = ch[i]
           /\ Append(ch, x)[Len(ch) + 1] = x
  OBVIOUS

\* Every variable keeps its type in every step of the goroutines.
LEMMA TypeStep == ASSUME TypeOK, [Next]_vars PROVE TypeOK'
<1> USE FrameTypes
<1>1. CASE Tick
  <2>1. global_frame_idx' \in FrameIdx
    BY <1>1, PipelineAssumption DEF Tick, TypeOK, FrameIdx
  <2> QED
    BY <1>1, <2>1 DEF Tick, TypeOK, bvars, wvars, history
<1>2. CASE GrabberPush
  <2>1. Frame(global_frame_idx) \in FrameType
    BY DEF TypeOK
  <2>2. rd_wr_ptr' \in Slots
    BY <1>2, NextSlot, PipelineAssumption DEF GrabberPush, PushBack, TypeOK, N, Slots
  <2>3. q' \in [Slots -> FrameType] /\ oldest' \in FrameType
    BY <1>2, <2>1 DEF GrabberPush, PushBack, TypeOK
  <2> QED
    BY <1>2, <2>2, <2>3 DEF GrabberPush, TypeOK, wvars, history
<1>3. CASE SendRnn
  <2>1. rnn_ch' \in Seq(FrameType) /\ Len(rnn_ch') <= 1
    BY <1>3, SendTo DEF SendRnn, HasRoom, TypeOK
  <2> QED
    BY <1>3, <2>1 DEF SendRnn, TypeOK, bvars, wvars, history
<1>4. CASE SendRecog
  <2>1. recog_ch' \in Seq(FrameIdx) /\ Len(recog_ch') <= 1
    BY <1>4, SendTo DEF SendRecog, HasRoom, TypeOK
  <2> QED
    BY <1>4, <2>1 DEF SendRecog, TypeOK, bvars, wvars, history
<1>5. CASE RecogReceive
  <2>1. posting' \in FrameIdx /\ recog_ch' \in Seq(FrameIdx) /\ Len(recog_ch') <= 1
    BY <1>5, Receive DEF RecogReceive, TypeOK
  <2> QED
    BY <1>5, <2>1 DEF RecogReceive, TypeOK, bvars, gvars, history
<1>6. CASE PostWork
  <2>1. CASE Len(works) < threads_count
    <3>0. works \in Seq(FrameIdx) /\ posting \in FrameIdx /\ works' = Append(works, posting)
      BY <1>6, <2>1 DEF PostWork, TypeOK
    <3>1. works' \in Seq(FrameIdx) /\ Len(works') <= threads_count
      BY <2>1, <3>0, SendTo, PipelineAssumption
    <3> QED
      BY <1>6, <2>1, <3>1 DEF PostWork, TypeOK, bvars, gvars
  <2>2. CASE ~(Len(works) < threads_count)
    BY <1>6, <2>2 DEF PostWork, TypeOK, bvars, gvars
  <2> QED
    BY <2>1, <2>2
<1>7. ASSUME NEW r \in Routines, StartWork(r) PROVE TypeOK'
  <2>1. /\ Head(works) \in FrameIdx
        /\ works' \in Seq(FrameIdx) /\ Len(works') <= threads_count
    BY <1>7, Receive, PipelineAssumption DEF StartWork, TypeOK
  <2>2. working' \in [Routines -> FrameIdx]
    BY <1>7, <2>1 DEF StartWork, TypeOK
  <2> QED
    BY <1>7, <2>1, <2>2 DEF StartWork, TypeOK, bvars, gvars, history
<1>8. ASSUME NEW r \in Routines, DoWork(r) PROVE TypeOK'
  <2>1. working[r] \in FrameIdx
    BY DEF TypeOK
  <2>2. work_finish_ch' \in Seq(FrameIdx) /\ Len(work_finish_ch') <= 1
    BY <1>8, <2>1, SendTo DEF DoWork, HasRoom, TypeOK
  <2>3. working' \in [Routines -> FrameIdx] /\ recognised' \subseteq FrameIdx
    BY <1>8, <2>1 DEF DoWork, TypeOK
  <2> QED
    BY <1>8, <2>2, <2>3 DEF DoWork, TypeOK, bvars, gvars
<1>9. CASE Accept
  <2>1. /\ accepted' \in FrameIdx
        /\ work_finish_ch' \in Seq(FrameIdx) /\ Len(work_finish_ch') <= 1
    BY <1>9, Receive DEF Accept, TypeOK
  <2> QED
    BY <1>9, <2>1 DEF Accept, TypeOK, bvars, gvars, history
<1>10. CASE Mark
  <2>1. \A s \in Slots : [q[s] EXCEPT !.recog_result = 1] \in FrameType
    BY DEF TypeOK, FrameType
  <2>2. q' \in [Slots -> FrameType]
    BY <1>10, <2>1 DEF Mark, TypeOK
  <2>3. marked' \subseteq FrameIdx
    BY <1>10 DEF Mark, TypeOK
  <2> QED
    BY <1>10, <2>2, <2>3 DEF Mark, TypeOK, gvars
<1>11. CASE RnnReceive
  <2>1. /\ rnn_ch' \in Seq(FrameType) /\ Len(rnn_ch') <= 1
        /\ Head(rnn_ch) \in FrameType
    BY <1>11, Receive DEF RnnReceive, TypeOK
  <2>2. rnn' \in Seq(FrameType)
    BY <1>11, <2>1, SendTo DEF RnnReceive, TypeOK
  <2> QED
    BY <1>11, <2>1, <2>2 DEF RnnReceive, TypeOK, bvars, gvars, wvars
<1>12. CASE UNCHANGED vars
  BY <1>12 DEF vars, bvars, gvars, wvars, history, TypeOK
<1> QED
  BY <1>1, <1>2, <1>3, <1>4, <1>5, <1>6, <1>7, <1>8, <1>9, <1>10, <1>11, <1>12
  DEF Next, Grabber, Recog, Acceptor, Rest

\* The type invariant of the pipeline: buffer, channels and goroutines always have
\* their types, the channels hold one value and the pool its capacity at most.
THEOREM TypeCorrect == Spec => []TypeOK
<1>1. Init => TypeOK
  <2> SUFFICES ASSUME Init PROVE TypeOK
    OBVIOUS
  <2>1. q \in [Slots -> FrameType] /\ oldest \in FrameType
    BY FrameTypes DEF Init
  <2>2. /\ rnn_ch \in Seq(FrameType) /\ Len(rnn_ch) <= 1
        /\ recog_ch \in Seq(FrameIdx) /\ Len(recog_ch) <= 1
        /\ work_finish_ch \in Seq(FrameIdx) /\ Len(work_finish_ch) <= 1
        /\ works \in Seq(FrameIdx) /\ Len(works) <= threads_count
        /\ rnn \in Seq(FrameType)
    BY PipelineAssumption DEF Init
  <2> QED
    BY <2>1, <2>2, FrameTypes DEF Init, TypeOK
<1> QED
  BY <1>1, TypeStep, PTL DEF Spec

-----------------------------------------------------------------------------
(***************************************************************************)
(* Latency.  Read from the pointer on, the buffer holds the last N frames  *)
(* in order; what it returns on the n-th push is the frame of push n - N.  *)
(***************************************************************************)

\* The frame that the n-th push returns.
Delayed(n) == IF n <= N THEN 0 ELSE n - N

\* The number of frames that have been put into the buffer.
Pushed == IF grabber = "push" THEN global_frame_idx - 1 ELSE global_frame_idx

\* The slot j places after the pointer.
At(p, j) == IF p + j < N THEN p + j ELSE p + j - N

BufferInv ==
    /\ grabber = "push" => global_frame_idx > 0
    /\ \A j \in Slots : q[At(rd_wr_ptr, j)].frame_idx = Delayed(Pushed + 1 + j)

RnnInv ==
    /\ Len(rnn) + Len(rnn_ch) + (IF grabber = "rnn" THEN 1 ELSE 0) = Pushed
    /\ rnn_ch # <<>> => rnn_ch[1].frame_idx = Delayed(Len(rnn) + 1)
    /\ grabber = "rnn" => oldest.frame_idx = Delayed(Pushed)
    /\ \A n \in 1 .. Len(rnn) : rnn[n].frame_idx = Delayed(n)

\* Moving the pointer by one moves every place by one, and the slot that was
\* written becomes the last place.
LEMMA Rotate ==
    ASSUME NEW p \in Slots, NEW j \in Slots, NEW p1, p1 = (p + 1) % N
    PROVE  /\ At(p, j) \in Slots
           /\ At(p, 0) = p
           /\ j < N - 1 => At(p1, j) = At(p, j + 1) /\ At(p1, j) # p
           /\ j = N - 1 => At(p1, j) = p
<1>1. N \in Nat /\ N > 0 /\ p \in 0 .. N - 1 /\ j \in 0 .. N - 1
  BY PipelineAssumption DEF N, Slots
<1>2. p1 = IF p + 1 < N THEN p + 1 ELSE 0
  BY NextSlot
<1>3. At(p, j) \in 0 .. N - 1 /\ At(p, 0) = p
  BY <1>1 DEF At
<1>4. j < N - 1 => At(p1, j) = At(p, j + 1) /\ At(p1, j) # p
  BY <1>1, <1>2 DEF At
<1>5. j = N - 1 => At(p1, j) = p
  BY <1>1, <1>2 DEF At
<1> QED
  BY <1>3, <1>4, <1>5 DEF Slots, N

\* Every place of the buffer is a slot, and every slot has a place.
LEMMA Places ==
    ASSUME NEW p \in Slots, NEW s \in Slots
    PROVE  \E j \in Slots : At(p, j) = s
<1>1. N \in Nat /\ N > 0 /\ p \in 0 .. N - 1 /\ s \in 0 .. N - 1
  BY PipelineAssumption DEF N, Slots
<1>2. CASE s >= p
  <2>1. s - p \in 0 .. N - 1 /\ At(p, s - p) = s
    BY <1>1, <1>2 DEF At
  <2> QED
    BY <2>1 DEF Slots, N
<1>3. CASE s < p
  <2>1. s - p + N \in 0 .. N - 1 /\ At(p, s - p + N) = s
    BY <1>1, <1>3 DEF At
  <2> QED
    BY <2>1 DEF Slots, N
<1> QED
  BY <1>1, <1>2, <1>3

\* A push returns the oldest frame and rotates the buffer; nothing else changes
\* which frame is in which slot.
LEMMA BufferStep ==
    ASSUME TypeOK, BufferInv, [Next]_vars
    PROVE  BufferInv'
<1>0. /\ N \in Nat /\ N > 0 /\ Slots = 0 .. N - 1
      /\ global_frame_idx \in Nat /\ rd_wr_ptr \in Slots /\ Pushed \in Nat
  BY PipelineAssumption DEF N, Slots, TypeOK, FrameIdx, Pushed, BufferInv
<1>1. CASE Tick
  <2>1. Pushed' = Pushed /\ UNCHANGED <<q, rd_wr_ptr>> /\ global_frame_idx' > 0
    BY <1>0, <1>1 DEF Tick, Pushed, bvars
  <2> QED
    BY <2>1 DEF BufferInv
<1>2. CASE GrabberPush
  <2>1. /\ Pushed' = Pushed + 1 /\ global_frame_idx = Pushed + 1
        /\ grabber' # "push"
        /\ rd_wr_ptr' = (rd_wr_ptr + 1) % N
        /\ q' = [q EXCEPT ![rd_wr_ptr] = Frame(global_frame_idx)]
    BY <1>0, <1>2 DEF GrabberPush, PushBack, Pushed, N
  <2>2. ASSUME NEW j \in Slots
        PROVE  q'[At(rd_wr_ptr', j)].frame_idx = Delayed(Pushed' + 1 + j)
    <3>1. CASE j < N - 1
      <4>1. /\ At(rd_wr_ptr', j) = At(rd_wr_ptr, j + 1)
            /\ At(rd_wr_ptr', j) # rd_wr_ptr
        <5>1. rd_wr_ptr \in Slots /\ rd_wr_ptr' = (rd_wr_ptr + 1) % N
          BY <1>0, <2>1
        <5>2. ASSUME NEW p1, p1 = (rd_wr_ptr + 1) % N
              PROVE  At(p1, j) = At(rd_wr_ptr, j + 1) /\ At(p1, j) # rd_wr_ptr
          BY <2>2, <3>1, <5>1, <5>2, Rotate
        <5> QED
          BY <5>1, <5>2
      <4>2. j + 1 \in Slots
        BY <1>0, <3>1
      <4>3. At(rd_wr_ptr, j + 1) \in Slots
        BY <1>0, <4>2, Rotate
      <4>4. q'[At(rd_wr_ptr', j)] = q[At(rd_wr_ptr, j + 1)]
        <5> DEFINE s == At(rd_wr_ptr, j + 1)
        <5>1. q \in [Slots -> FrameType] /\ s \in Slots /\ s # rd_wr_ptr
          BY <4>1, <4>3 DEF TypeOK
        <5>2. At(rd_wr_ptr', j) = s
          BY <4>1
        <5> HIDE DEF s
        <5>3. q'[s] = q[s]
          BY <2>1, <5>1
        <5>4. q'[At(rd_wr_ptr', j)] = q[s]
          BY <5>2, <5>3
        <5> QED
          BY <5>4 DEF s
      <4>5. q[At(rd_wr_ptr, j + 1)].frame_idx = Delayed(Pushed + 1 + (j + 1))
        BY <4>2 DEF BufferInv
      <4>6. Pushed' + 1 + j = Pushed + 1 + (j + 1)
        BY <1>0, <2>1
      <4> QED
        BY <4>4, <4>5, <4>6
    <3>2. CASE j = N - 1
      <4>1. At(rd_wr_ptr', j) = rd_wr_ptr
        BY <1>0, <2>1, <2>2, <3>2, Rotate
      <4>2. q'[rd_wr_ptr].frame_idx = global_frame_idx
        BY <1>0, <2>1 DEF TypeOK, Frame
      <4>3. Delayed(Pushed' + 1 + j) = Pushed + 1
        BY <1>0, <2>1, <3>2 DEF Delayed
      <4> QED
        BY <2>1, <4>1, <4>2, <4>3
    <3> QED
      BY <1>0, <3>1, <3>2
  <2> QED
    BY <2>1, <2>2 DEF BufferInv
<1>3. CASE Mark
  <2>1. Pushed' = Pushed /\ UNCHANGED <<rd_wr_ptr, global_frame_idx, grabber>>
    BY <1>3 DEF Mark, Pushed, gvars
  <2>2. \A s \in Slots : q'[s].frame_idx = q[s].frame_idx
    BY <1>3 DEF Mark, TypeOK, FrameType
  <2>3. \A j \in Slots : At(rd_wr_ptr, j) \in Slots
    BY <1>0, Rotate
  <2> QED
    BY <2>1, <2>2, <2>3 DEF BufferInv
<1>4. CASE SendRnn \/ SendRecog
  <2>1. Pushed' = Pushed /\ UNCHANGED <<q, rd_wr_ptr, global_frame_idx>> /\ grabber' # "push"
    BY <1>4 DEF SendRnn, SendRecog, Pushed, bvars
  <2> QED
    BY <2>1 DEF BufferInv
<1>5. ASSUME UNCHANGED <<bvars, gvars>> PROVE BufferInv'
  <2>1. Pushed' = Pushed /\ UNCHANGED <<q, rd_wr_ptr, global_frame_idx, grabber>>
    BY <1>5 DEF bvars, gvars, Pushed
  <2> QED
    BY <2>1 DEF BufferInv
<1> QED
  BY <1>1, <1>2, <1>3, <1>4, <1>5
  DEF Next, Grabber, Recog, Acceptor, Rest, RecogReceive, PostWork, StartWork, DoWork, Accept,
      RnnReceive, vars

\* What the buffer returns goes through oldest and the channel to the RNN, one
\* after the other.
LEMMA RnnStep ==
    ASSUME TypeOK, BufferInv, RnnInv, [Next]_vars
    PROVE  RnnInv'
<1>0. /\ global_frame_idx \in Nat /\ Pushed \in Nat /\ rd_wr_ptr \in Slots
      /\ rnn \in Seq(FrameType) /\ rnn_ch \in Seq(FrameType) /\ Len(rnn_ch) <= 1
      /\ Len(rnn) \in Nat /\ Len(rnn_ch) \in Nat /\ oldest \in FrameType /\ N \in Nat /\ 0 \in Slots
  BY FrameTypes, PipelineAssumption DEF N, TypeOK, FrameIdx, Pushed, BufferInv
<1>1. CASE Tick
  <2>1. /\ Pushed' = Pushed /\ UNCHANGED <<rnn, rnn_ch, oldest>>
        /\ grabber # "rnn" /\ grabber' # "rnn"
    BY <1>0, <1>1 DEF Tick, Pushed, history
  <2> QED
    BY <2>1 DEF RnnInv
<1>2. CASE GrabberPush
  <2>1. /\ Pushed' = Pushed + 1 /\ UNCHANGED <<rnn, rnn_ch>>
        /\ oldest' = q[rd_wr_ptr]
        /\ grabber = "push" /\ grabber' = "rnn"
    BY <1>0, <1>2 DEF GrabberPush, PushBack, Pushed, history
  <2>2. At(rd_wr_ptr, 0) = rd_wr_ptr
    BY <1>0, Rotate
  <2>3. q[rd_wr_ptr].frame_idx = Delayed(Pushed + 1 + 0)
    BY <1>0, <2>2 DEF BufferInv
  <2>4. oldest'.frame_idx = Delayed(Pushed')
    BY <1>0, <2>1, <2>3
  <2>5. Len(rnn) + Len(rnn_ch) = Pushed
    BY <1>0, <2>1 DEF RnnInv
  <2> QED
    BY <1>0, <2>1, <2>4, <2>5 DEF RnnInv
<1>3. CASE SendRnn
  <2>1. /\ Pushed' = Pushed /\ UNCHANGED <<rnn, oldest>>
        /\ grabber = "rnn" /\ grabber' = "recog"
        /\ rnn_ch = <<>> /\ rnn_ch' = Append(rnn_ch, oldest)
    BY <1>3 DEF SendRnn, HasRoom, Pushed, history
  <2>2. Len(rnn_ch) = 0 /\ Len(rnn_ch') = 1 /\ rnn_ch'[1] = oldest
    BY <1>0, <2>1
  <2>3. Len(rnn) + 1 = Pushed /\ oldest.frame_idx = Delayed(Pushed)
    BY <1>0, <2>1, <2>2 DEF RnnInv
  <2> QED
    BY <1>0, <2>1, <2>2, <2>3 DEF RnnInv
<1>4. CASE RnnReceive
  <2>1. /\ Pushed' = Pushed /\ UNCHANGED <<oldest, grabber>>
        /\ rnn_ch # <<>> /\ rnn_ch' = Tail(rnn_ch) /\ rnn' = Append(rnn, Head(rnn_ch))
    BY <1>4 DEF RnnReceive, Pushed, gvars
  <2>2. /\ Len(rnn_ch) = 1 /\ Len(rnn_ch') = 0 /\ rnn_ch' = <<>>
        /\ Head(rnn_ch) = rnn_ch[1] /\ Head(rnn_ch) \in FrameType
    <3>1. Len(rnn_ch) = 1
      <4>1. rnn_ch \in Seq(FrameType) /\ Len(rnn_ch) <= 1 /\ rnn_ch # <<>>
        BY <1>0, <2>1
      <4>2. Len(rnn_ch) \in Nat /\ Len(rnn_ch) # 0
        BY <4>1, EmptyChannel, Zenon
      <4> DEFINE n == Len(rnn_ch)
      <4>3. n \in Nat /\ n # 0 /\ n <= 1
        BY <4>1, <4>2
      <4> HIDE DEF n
      <4>4. n = 1
        BY <4>3
      <4> QED
        BY <4>4 DEF n
    <3>2. /\ Head(rnn_ch) = rnn_ch[1] /\ Head(rnn_ch) \in FrameType
          /\ rnn_ch' \in Seq(FrameType) /\ Len(rnn_ch') = 0
      BY <1>0, <2>1, <3>1, Receive
    <3> QED
      BY <3>1, <3>2
  <2>3. Len(rnn') = Len(rnn) + 1 /\ rnn'[Len(rnn) + 1] = rnn_ch[1]
        /\ \A n \in 1 .. Len(rnn) : rnn'[n] = rnn[n]
    BY <1>0, <2>1, <2>2, SendTo
  <2>4. rnn_ch[1].frame_idx = Delayed(Len(rnn) + 1)
    BY <2>1 DEF RnnInv
  <2>5. \A n \in 1 .. Len(rnn') : rnn'[n].frame_idx = Delayed(n)
    BY <1>0, <2>3, <2>4 DEF RnnInv
  <2>6. Len(rnn') + Len(rnn_ch') + (IF grabber = "rnn" THEN 1 ELSE 0) = Pushed
    BY <1>0, <2>2, <2>3 DEF RnnInv
  <2> QED
    BY <2>1, <2>2, <2>5, <2>6 DEF RnnInv
<1>5. CASE SendRecog
  <2>1. Pushed' = Pushed /\ UNCHANGED <<rnn, rnn_ch, oldest>> /\ grabber # "rnn" /\ grabber' # "rnn"
    BY <1>5 DEF SendRecog, Pushed, history
  <2> QED
    BY <2>1 DEF RnnInv
<1>6. ASSUME UNCHANGED <<gvars, rnn_ch, rnn>> PROVE RnnInv'
  <2>1. Pushed' = Pushed /\ UNCHANGED <<rnn, rnn_ch, oldest, grabber>>
    BY <1>6 DEF gvars, Pushed
  <2> QED
    BY <2>1 DEF RnnInv
<1> QED
  BY <1>1, <1>2, <1>3, <1>4, <1>5, <1>6
  DEF Next, Grabber, Recog, Acceptor, Rest, RecogReceive, PostWork, StartWork, DoWork, Accept,
      Mark, vars, history

\* Buffer and RNN agree with the number of pushes in every reachable state.
LEMMA Latency == Spec => [](TypeOK /\ BufferInv /\ RnnInv)
<1>1. Init => BufferInv /\ RnnInv
  <2> SUFFICES ASSUME Init PROVE BufferInv /\ RnnInv
    OBVIOUS
  <2>0. N \in Nat /\ N > 0 /\ Slots = 0 .. N - 1 /\ Pushed = 0 /\ rd_wr_ptr \in Slots
    BY PipelineAssumption DEF N, Slots, Pushed, Init
  <2>1. ASSUME NEW j \in Slots PROVE q[At(rd_wr_ptr, j)].frame_idx = Delayed(Pushed + 1 + j)
    <3>1. At(rd_wr_ptr, j) \in Slots
      BY <2>0, Rotate
    <3>2. q[At(rd_wr_ptr, j)].frame_idx = 0
      BY <3>1 DEF Init, Frame
    <3>3. Delayed(Pushed + 1 + j) = 0
      BY <2>0 DEF Delayed
    <3> QED
      BY <3>2, <3>3
  <2>2. BufferInv
    BY <2>1 DEF BufferInv, Init
  <2>3. RnnInv
    BY <2>0 DEF RnnInv, Init
  <2> QED
    BY <2>2, <2>3
<1> QED
  BY <1>1, TypeCorrect, BufferStep, RnnStep, PTL DEF Spec

\* The RNN receives every frame, in order, exactly allowed_latency_frames pushes
\* after it was grabbed: what the single pointer of CyclicalBuffer is for.
THEOREM LatencyIsFixed == Spec => []FixedLatency
<1>1. RnnInv => FixedLatency
  BY DEF RnnInv, FixedLatency, Delayed, N
<1> QED
  BY <1>1, Latency, PTL

-----------------------------------------------------------------------------
(***************************************************************************)
(* No frame gets lost.  Every step leaves each frame where it is or moves  *)
(* it on; the sets below are the stations of a frame.                      *)
(***************************************************************************)

Known == InPipeline \cup recognised \cup skipped
InChannel(ch, i) == \E k \in DOMAIN ch : ch[k] = i
Stations(i) ==
    \/ InChannel(recog_ch, i) \/ i = posting \/ InChannel(works, i)
    \/ \E r \in Routines : working[r] = i
    \/ i \in recognised \/ i \in skipped

\* A frame is known when it is at one of its stations.
LEMMA KnownIff == ASSUME NEW i PROVE i \in Known <=> Stations(i)
  BY DEF Known, InPipeline, Stations, InChannel

\* A frame in a channel is its head or in its tail, and the other way round.
LEMMA Received ==
    ASSUME NEW S, NEW ch \in Seq(S), ch # <<>>, NEW i
    PROVE  InChannel(ch, i) <=> i = Head(ch) \/ InChannel(Tail(ch), i)
<1>0. /\ DOMAIN ch = 1 .. Len(ch) /\ DOMAIN Tail(ch) = 1 .. Len(Tail(ch))
      /\ Len(ch) \in Nat /\ Len(ch) >= 1 /\ Len(Tail(ch)) = Len(ch) - 1
      /\ Head(ch) = ch[1]
  OBVIOUS
<1>1. \A k \in 1 .. Len(ch) - 1 : Tail(ch)[k] = ch[k + 1]
  BY <1>0, Receive
<1>2. ASSUME NEW k \in 1 .. Len(ch), ch[k] = i, k # 1
      PROVE  InChannel(Tail(ch), i)
  <2>1. k - 1 \in 1 .. Len(ch) - 1 /\ (k - 1) + 1 = k
    BY <1>0, <1>2
  <2>2. Tail(ch)[k - 1] = i
    BY <1>1, <1>2, <2>1
  <2> QED
    BY <1>0, <2>1, <2>2 DEF InChannel
<1>3. ASSUME NEW k \in 1 .. Len(ch) - 1, Tail(ch)[k] = i
      PROVE  InChannel(ch, i)
  <2>1. k + 1 \in 1 .. Len(ch) /\ ch[k + 1] = i
    BY <1>0, <1>1, <1>3
  <2> QED
    BY <1>0, <2>1 DEF InChannel
<1>4. 1 \in DOMAIN ch
  BY <1>0
<1> QED
  BY <1>0, <1>2, <1>3, <1>4 DEF InChannel

\* What has been sent is in the channel, with what was there, and nothing else.
LEMMA Sent ==
    ASSUME NEW S, NEW ch \in Seq(S), NEW x \in S, NEW i
    PROVE  InChannel(Append(ch, x), i) <=> i = x \/ InChannel(ch, i)
<1>1. DOMAIN ch = 1 .. Len(ch) /\ DOMAIN Append(ch, x) = 1 .. Len(ch) + 1 /\ Len(ch) \in Nat
  OBVIOUS
<1> QED
  BY <1>1, SendTo DEF InChannel

\* What is known are frames.
LEMMA KnownFrames == ASSUME TypeOK PROVE Known \subseteq FrameIdx
<1>1. ASSUME NEW ch \in Seq(FrameIdx), NEW i, InChannel(ch, i) PROVE i \in FrameIdx
  BY <1>1 DEF InChannel
<1> SUFFICES ASSUME NEW i \in Known PROVE i \in FrameIdx
  OBVIOUS
<1>2. Stations(i)
  BY KnownIff
<1> QED
  BY <1>1, <1>2 DEF Stations, TypeOK

\* A frame that is known stays known: no step drops it between two stations.
LEMMA KnownStep ==
    ASSUME TypeOK, [Next]_vars, NEW i \in Known, i # 0
    PROVE  i \in Known'
<1>0. /\ recog_ch \in Seq(FrameIdx) /\ works \in Seq(FrameIdx) /\ posting \in FrameIdx
      /\ working \in [Routines -> FrameIdx] /\ global_frame_idx \in FrameIdx
  BY DEF TypeOK
<1> SUFFICES Stations(i)'
  BY DEF Known, InPipeline, Stations, InChannel
<1>k. Stations(i)
  BY KnownIff
<1>1. CASE SendRecog
  <2>1. /\ recog_ch' = Append(recog_ch, global_frame_idx)
        /\ UNCHANGED <<posting, works, working, recognised, skipped>>
    BY <1>1 DEF SendRecog, wvars, history
  <2>2. InChannel(recog_ch, i) => InChannel(recog_ch', i)
    BY <1>0, <2>1, Sent
  <2> QED
    BY <1>k, <2>1, <2>2 DEF Stations
<1>2. CASE RecogReceive
  <2>1. /\ recog_ch' = Tail(recog_ch) /\ posting' = Head(recog_ch) /\ posting = 0
        /\ recog_ch # <<>>
        /\ UNCHANGED <<works, working, recognised, skipped>>
    BY <1>2 DEF RecogReceive, history
  <2>2. InChannel(recog_ch, i) => i = posting' \/ InChannel(recog_ch', i)
    BY <1>0, <2>1, Received
  <2> QED
    BY <1>k, <2>1, <2>2 DEF Stations
<1>3. CASE PostWork
  <2>1. UNCHANGED <<recog_ch, working, recognised>>
    BY <1>3 DEF PostWork
  <2>2. CASE Len(works) < threads_count
    <3>1. works' = Append(works, posting) /\ UNCHANGED skipped
      BY <1>3, <2>2 DEF PostWork
    <3>2. i = posting \/ InChannel(works, i) => InChannel(works', i)
      BY <1>0, <3>1, Sent
    <3> QED
      BY <1>k, <2>1, <3>1, <3>2 DEF Stations
  <2>3. CASE ~(Len(works) < threads_count)
    <3>1. skipped' = skipped \cup {posting} /\ UNCHANGED works
      BY <1>3, <2>3 DEF PostWork
    <3> QED
      BY <1>k, <2>1, <3>1 DEF Stations
  <2> QED
    BY <2>2, <2>3
<1>4. ASSUME NEW r \in Routines, StartWork(r) PROVE Stations(i)'
  <2>1. /\ works' = Tail(works) /\ works # <<>> /\ working[r] = 0
        /\ working' = [working EXCEPT ![r] = Head(works)]
        /\ UNCHANGED <<recog_ch, posting, recognised, skipped>>
    BY <1>4 DEF StartWork, history
  <2>2. working'[r] = Head(works) /\ \A t \in Routines \ {r} : working'[t] = working[t]
    BY <1>0, <2>1
  <2>3. InChannel(works, i) => i = working'[r] \/ InChannel(works', i)
    BY <1>0, <2>1, <2>2, Received
  <2>4. ASSUME NEW t \in Routines, working[t] = i PROVE working'[t] = i
    BY <2>1, <2>2, <2>4
  <2> QED
    BY <1>k, <2>1, <2>3, <2>4 DEF Stations
<1>5. ASSUME NEW r \in Routines, DoWork(r) PROVE Stations(i)'
  <2>1. /\ recognised' = recognised \cup {working[r]}
        /\ working' = [working EXCEPT ![r] = 0]
        /\ UNCHANGED <<recog_ch, posting, works, skipped>>
    BY <1>5 DEF DoWork
  <2>2. \A t \in Routines \ {r} : working'[t] = working[t]
    BY <1>0, <2>1
  <2>3. ASSUME NEW t \in Routines, working[t] = i PROVE working'[t] = i \/ i \in recognised'
    BY <2>1, <2>2, <2>3
  <2> QED
    BY <1>k, <2>1, <2>3 DEF Stations
<1>6. ASSUME UNCHANGED <<recog_ch, posting, works, working, recognised, skipped>>
      PROVE  Stations(i)'
  BY <1>k, <1>6 DEF Stations
<1> QED
  BY <1>1, <1>2, <1>3, <1>4, <1>5, <1>6
  DEF Next, Grabber, Recog, Acceptor, Rest, Tick, GrabberPush, SendRnn, Accept, Mark, RnnReceive,
      vars, gvars, wvars, history

\* Recognition loses no frame: each one the grabber has made is on its way,
\* recognised, or refused by the full pool.
THEOREM NoFrameIsLost == Spec => []FramesAccounted
<1>1. Init => FramesAccounted
  BY DEF Init, FramesAccounted
<1>2. ASSUME TypeOK, FramesAccounted, [Next]_vars PROVE FramesAccounted'
  <2>0. global_frame_idx \in Nat
    BY <1>2, FrameTypes DEF TypeOK
  <2> SUFFICES ASSUME NEW i \in 1 .. global_frame_idx'
               PROVE  i \in Known' \/ (i = global_frame_idx' /\ grabber' # "select")
    BY DEF FramesAccounted, Known
  <2>1. CASE Tick
    <3>1. /\ global_frame_idx' = global_frame_idx + 1 /\ grabber' = "push"
          /\ grabber = "select"
      BY <1>2, <2>1 DEF Tick
    <3>2. CASE i \in 1 .. global_frame_idx
      BY <1>2, <2>0, <3>1, <3>2, KnownStep DEF FramesAccounted, Known
    <3> QED
      BY <2>0, <3>1, <3>2
  <2>2. CASE SendRecog
    <3>1. /\ recog_ch' = Append(recog_ch, global_frame_idx)
          /\ UNCHANGED global_frame_idx
      BY <2>2 DEF SendRecog
    <3>2. global_frame_idx \in Known'
      <4>1. InChannel(recog_ch', global_frame_idx)
        BY <1>2, <3>1, Sent DEF TypeOK
      <4> QED
        BY <4>1 DEF Known, InPipeline, InChannel
    <3>3. CASE i = global_frame_idx
      BY <3>2, <3>3
    <3>4. CASE i # global_frame_idx
      BY <1>2, <2>0, <3>1, <3>4, KnownStep DEF FramesAccounted, Known
    <3> QED
      BY <3>3, <3>4
  <2>3. ASSUME UNCHANGED global_frame_idx, grabber' # "select" \/ UNCHANGED grabber
        PROVE  i \in Known' \/ (i = global_frame_idx' /\ grabber' # "select")
    BY <1>2, <2>0, <2>3, KnownStep DEF FramesAccounted, Known
  <2> QED
    BY <1>2, <2>1, <2>2, <2>3
    DEF Next, Grabber, Recog, Acceptor, Rest, GrabberPush, SendRnn, RecogReceive, PostWork,
        StartWork, DoWork, Accept, Mark, RnnReceive, vars, gvars
<1> QED
  BY <1>1, <1>2, TypeCorrect, PTL DEF Spec

-----------------------------------------------------------------------------
(***************************************************************************)
(* Marks.  A frame that is not in the buffer yet cannot have been          *)
(* recognised, a frame is in one slot only, and a frame that has left the  *)
(* buffer is in no slot: so a mark never reaches a wrong frame, and none   *)
(* is set that the RNN will not see.                                       *)
(***************************************************************************)

\* The frames that have been offered for recognition so far.
Offered == IF grabber = "select" THEN global_frame_idx ELSE global_frame_idx - 1

SeenInv ==
    /\ \A i \in Known : i # 0 => i <= Offered
    /\ \A i : InChannel(work_finish_ch, i) => i \in recognised
    /\ accepted # 0 => accepted \in recognised
    /\ marked \subseteq recognised
    /\ 0 \notin recognised

RightIn(m, f) == f.recog_result = 1 <=> f.frame_idx \in m

MarkInv ==
    /\ \A s \in Slots : RightIn(marked, q[s])
    /\ grabber = "rnn" => RightIn(marked, oldest)
    /\ rnn_ch # <<>> => RightIn(marked, rnn_ch[1])
    /\ \A n \in 1 .. Len(rnn) : RightIn(marked, rnn[n])

\* A frame is known only once the grabber has offered it.
LEMMA KnownFrom ==
    ASSUME TypeOK, [Next]_vars, NEW i \in Known', i # 0, i \notin Known
    PROVE  SendRecog /\ i = global_frame_idx
<1>0. /\ recog_ch \in Seq(FrameIdx) /\ works \in Seq(FrameIdx) /\ posting \in FrameIdx
      /\ working \in [Routines -> FrameIdx] /\ global_frame_idx \in FrameIdx
  BY DEF TypeOK
<1>k. ~Stations(i)
  BY KnownIff
<1>p. Stations(i)'
  BY DEF Known, InPipeline, Stations, InChannel
<1>1. CASE SendRecog
  <2>1. /\ recog_ch' = Append(recog_ch, global_frame_idx)
        /\ UNCHANGED <<posting, works, working, recognised, skipped>>
    BY <1>1 DEF SendRecog, wvars, history
  <2>2. InChannel(recog_ch', i) => i = global_frame_idx \/ InChannel(recog_ch, i)
    BY <1>0, <2>1, Sent
  <2> QED
    BY <1>1, <1>k, <1>p, <2>1, <2>2 DEF Stations
<1>2. CASE RecogReceive
  <2>1. /\ recog_ch' = Tail(recog_ch) /\ posting' = Head(recog_ch)
        /\ recog_ch # <<>>
        /\ UNCHANGED <<works, working, recognised, skipped>>
    BY <1>2 DEF RecogReceive, history
  <2>2. i = posting' \/ InChannel(recog_ch', i) => InChannel(recog_ch, i)
    BY <1>0, <2>1, Received
  <2> QED
    BY <1>k, <1>p, <2>1, <2>2 DEF Stations
<1>3. CASE PostWork
  <2>1. UNCHANGED <<recog_ch, working, recognised>> /\ posting' = 0
    BY <1>3 DEF PostWork
  <2>2. CASE Len(works) < threads_count
    <3>1. works' = Append(works, posting) /\ UNCHANGED skipped
      BY <1>3, <2>2 DEF PostWork
    <3>2. InChannel(works', i) => i = posting \/ InChannel(works, i)
      BY <1>0, <3>1, Sent
    <3> QED
      BY <1>k, <1>p, <2>1, <3>1, <3>2 DEF Stations
  <2>3. CASE ~(Len(works) < threads_count)
    <3>1. skipped' = skipped \cup {posting} /\ UNCHANGED works
      BY <1>3, <2>3 DEF PostWork
    <3> QED
      BY <1>k, <1>p, <2>1, <3>1 DEF Stations
  <2> QED
    BY <2>2, <2>3
<1>4. ASSUME NEW r \in Routines, StartWork(r) PROVE FALSE
  <2>1. /\ works' = Tail(works) /\ works # <<>>
        /\ working' = [working EXCEPT ![r] = Head(works)]
        /\ UNCHANGED <<recog_ch, posting, recognised, skipped>>
    BY <1>4 DEF StartWork, history
  <2>2. \A t \in Routines : working'[t] = IF t = r THEN Head(works) ELSE working[t]
    BY <1>0, <2>1
  <2>3. i = Head(works) \/ InChannel(works', i) => InChannel(works, i)
    BY <1>0, <2>1, Received
  <2>4. ASSUME NEW t \in Routines, working'[t] = i PROVE working[t] = i \/ InChannel(works, i)
    BY <2>2, <2>3, <2>4
  <2> QED
    BY <1>k, <1>p, <2>1, <2>3, <2>4 DEF Stations
<1>5. ASSUME NEW r \in Routines, DoWork(r) PROVE FALSE
  <2>1. /\ recognised' = recognised \cup {working[r]}
        /\ working' = [working EXCEPT ![r] = 0]
        /\ UNCHANGED <<recog_ch, posting, works, skipped>>
    BY <1>5 DEF DoWork
  <2>2. \A t \in Routines : working'[t] = IF t = r THEN 0 ELSE working[t]
    BY <1>0, <2>1
  <2>3. ASSUME NEW t \in Routines, working'[t] = i PROVE working[t] = i
    BY <2>2, <2>3
  <2> QED
    BY <1>k, <1>p, <2>1, <2>3 DEF Stations
<1>6. ASSUME UNCHANGED <<recog_ch, posting, works, working, recognised, skipped>>
      PROVE  FALSE
  BY <1>k, <1>p, <1>6 DEF Stations
<1> QED
  BY <1>1, <1>2, <1>3, <1>4, <1>5, <1>6
  DEF Next, Grabber, Recog, Acceptor, Rest, Tick, GrabberPush, SendRnn, Accept, Mark, RnnReceive,
      vars, gvars, wvars, history

\* Recognition, acceptance and marking happen in this order, after the offer.
LEMMA SeenStep ==
    ASSUME TypeOK, SeenInv, [Next]_vars
    PROVE  SeenInv'
<1>0. /\ work_finish_ch \in Seq(FrameIdx) /\ working \in [Routines -> FrameIdx]
      /\ global_frame_idx \in Nat
      /\ 0 \notin recognised /\ marked \subseteq recognised
  BY FrameTypes DEF TypeOK, SeenInv
<1>1. \A i \in Known' : i # 0 => i <= Offered'
  <2> SUFFICES ASSUME NEW i \in Known', i # 0 PROVE i <= Offered'
    OBVIOUS
  <2>1. CASE SendRecog
    <3>1. Offered' = global_frame_idx /\ Offered = global_frame_idx - 1
      BY <2>1 DEF SendRecog, Offered
    <3>2. CASE i \in Known
      <4>1. i \in Nat
        BY <3>2, KnownFrames, FrameTypes
      <4>2. i <= Offered
        BY <3>2 DEF SeenInv
      <4> QED
        BY <1>0, <3>1, <4>1, <4>2
    <3> QED
      BY <1>0, <3>1, <3>2, KnownFrom
  <2>2. CASE ~SendRecog
    <3>1. i \in Known
      BY <2>2, KnownFrom
    <3>2. i <= Offered
      BY <3>1 DEF SeenInv
    <3>3. Offered' = Offered
      BY <1>0, <2>2
      DEF Offered, Next, Grabber, Recog, Acceptor, Rest, Tick, GrabberPush, SendRnn, RecogReceive,
          PostWork, StartWork, DoWork, Accept, Mark, RnnReceive, vars, gvars
    <3> QED
      BY <3>2, <3>3
  <2> QED
    BY <2>1, <2>2
<1> DEFINE InOrder(w, a, m, r) ==
      /\ \A i : InChannel(w, i) => i \in r
      /\ a # 0 => a \in r
      /\ m \subseteq r
      /\ 0 \notin r
<1>2. InOrder(work_finish_ch, accepted, marked, recognised)
  BY DEF SeenInv
<1> SUFFICES InOrder(work_finish_ch', accepted', marked', recognised')
  BY <1>1 DEF SeenInv
<1>3. ASSUME NEW r \in Routines, DoWork(r)
      PROVE  InOrder(work_finish_ch', accepted', marked', recognised')
  <2>1. /\ working[r] # 0 /\ work_finish_ch' = Append(work_finish_ch, working[r])
        /\ recognised' = recognised \cup {working[r]}
        /\ UNCHANGED <<accepted, marked>>
    BY <1>3 DEF DoWork
  <2>2. working[r] \in FrameIdx
    BY <1>0
  <2>3. \A i : InChannel(work_finish_ch', i) => i = working[r] \/ InChannel(work_finish_ch, i)
    BY <1>0, <2>1, <2>2, Sent
  <2> QED
    BY <1>2, <2>1, <2>3
<1>4. CASE Accept
  <2>1. /\ accepted' = Head(work_finish_ch) /\ work_finish_ch # <<>>
        /\ work_finish_ch' = Tail(work_finish_ch)
        /\ UNCHANGED <<marked, recognised>>
    BY <1>4 DEF Accept, history
  <2>2. \A i : i = Head(work_finish_ch) \/ InChannel(work_finish_ch', i)
               => InChannel(work_finish_ch, i)
    BY <1>0, <2>1, Received
  <2> QED
    BY <1>2, <2>1, <2>2
<1>5. CASE Mark
  <2>1. /\ accepted # 0 /\ accepted' = 0
        /\ marked' = marked \/ marked' = marked \cup {accepted}
        /\ UNCHANGED <<work_finish_ch, recognised>>
    BY <1>5 DEF Mark
  <2> QED
    BY <1>2, <2>1
<1>6. ASSUME UNCHANGED <<work_finish_ch, accepted, marked, recognised>>
      PROVE  InOrder(work_finish_ch', accepted', marked', recognised')
  BY <1>2, <1>6
<1> QED
  BY <1>3, <1>4, <1>5, <1>6
  DEF Next, Grabber, Recog, Acceptor, Rest, Tick, GrabberPush, SendRnn, SendRecog, RecogReceive,
      PostWork, StartWork, RnnReceive, vars, gvars, wvars, history

\* The frame of a slot, by the slot's place: a grabbed frame is in one slot only, and
\* fewer than N pushes ago.
LEMMA SlotFrame ==
    ASSUME TypeOK, BufferInv, NEW s \in Slots, q[s].frame_idx # 0
    PROVE  /\ q[s].frame_idx \in Nat /\ q[s].frame_idx + N > Pushed
           /\ \A t \in Slots : q[t].frame_idx = q[s].frame_idx => t = s
<1>0. /\ N \in Nat /\ N > 0 /\ Slots = 0 .. N - 1
      /\ global_frame_idx \in Nat /\ rd_wr_ptr \in Slots /\ Pushed \in Nat
      /\ q \in [Slots -> FrameType]
  BY PipelineAssumption DEF N, Slots, TypeOK, FrameIdx, Pushed, BufferInv
<1>1. PICK j \in Slots : At(rd_wr_ptr, j) = s
  BY <1>0, Places
<1>2. q[s].frame_idx = Delayed(Pushed + 1 + j)
  BY <1>1 DEF BufferInv
<1>3. q[s].frame_idx = Pushed + 1 + j - N /\ Pushed + 1 + j > N
  BY <1>0, <1>2 DEF Delayed
<1>4. ASSUME NEW t \in Slots, q[t].frame_idx = q[s].frame_idx PROVE t = s
  <2>1. PICK k \in Slots : At(rd_wr_ptr, k) = t
    BY <1>0, Places
  <2>2. q[t].frame_idx = Delayed(Pushed + 1 + k)
    BY <2>1 DEF BufferInv
  <2>3. k = j
    BY <1>0, <1>3, <1>4, <2>2 DEF Delayed
  <2> QED
    BY <1>1, <2>1, <2>3
<1>5. q[s].frame_idx \in Nat /\ q[s].frame_idx + N > Pushed
  BY <1>0, <1>3
<1> QED
  BY <1>4, <1>5

\* A frame that the buffer has returned is in no slot any more.
LEMMA Gone ==
    ASSUME TypeOK, BufferInv, NEW n \in Nat, n <= Pushed, NEW s \in Slots, q[s].frame_idx # 0
    PROVE  q[s].frame_idx # Delayed(n)
<1>1. N \in Nat /\ Pushed \in Nat
  BY PipelineAssumption DEF N, TypeOK, FrameIdx, Pushed, BufferInv
<1>2. q[s].frame_idx \in Nat /\ q[s].frame_idx + N > Pushed
  BY SlotFrame
<1> QED
  BY <1>1, <1>2 DEF Delayed

\* A frame is marked in the buffer exactly when it is in the set of marked frames,
\* and it takes its mark along.
LEMMA MarkStep ==
    ASSUME TypeOK, BufferInv, RnnInv, SeenInv, MarkInv, [Next]_vars
    PROVE  MarkInv'
<1>0. /\ global_frame_idx \in Nat /\ Pushed \in Nat /\ rd_wr_ptr \in Slots
      /\ q \in [Slots -> FrameType]
      /\ rnn \in Seq(FrameType) /\ rnn_ch \in Seq(FrameType) /\ Len(rnn_ch) <= 1
      /\ Len(rnn) \in Nat /\ Len(rnn_ch) \in Nat /\ oldest \in FrameType /\ N \in Nat
      /\ locked = (grabber = "rnn")
  BY FrameTypes, PipelineAssumption DEF N, TypeOK, FrameIdx, Pushed, BufferInv
<1>1. CASE GrabberPush
  <2>1. /\ q' = [q EXCEPT ![rd_wr_ptr] = Frame(global_frame_idx)]
        /\ oldest' = q[rd_wr_ptr] /\ grabber = "push"
        /\ UNCHANGED <<rnn_ch, rnn, marked>>
    BY <1>1 DEF GrabberPush, PushBack, history
  <2>2. global_frame_idx > 0 /\ Offered = global_frame_idx - 1
    BY <2>1 DEF BufferInv, Offered
  <2>3. global_frame_idx \notin marked
    <3>1. marked \subseteq Known
      BY DEF SeenInv, Known
    <3>2. ~(global_frame_idx <= Offered)
      BY <1>0, <2>2
    <3> QED
      BY <1>0, <2>2, <3>1, <3>2 DEF SeenInv
  <2>4. RightIn(marked, Frame(global_frame_idx))
    BY <2>3 DEF RightIn, Frame
  <2>5. \A s \in Slots : q'[s] = IF s = rd_wr_ptr THEN Frame(global_frame_idx) ELSE q[s]
    BY <1>0, <2>1
  <2>6. \A s \in Slots : RightIn(marked, q'[s])
    BY <2>4, <2>5 DEF MarkInv
  <2>7. RightIn(marked, oldest')
    BY <1>0, <2>1 DEF MarkInv
  <2> QED
    BY <2>1, <2>6, <2>7 DEF MarkInv
<1>2. CASE SendRnn
  <2>1. /\ UNCHANGED <<q, rnn, oldest, marked>>
        /\ grabber = "rnn" /\ grabber' = "recog"
        /\ rnn_ch = <<>> /\ rnn_ch' = Append(rnn_ch, oldest)
    BY <1>2 DEF SendRnn, HasRoom, bvars, history
  <2>2. rnn_ch'[1] = oldest
    BY <1>0, <2>1
  <2> QED
    BY <2>1, <2>2 DEF MarkInv
<1>3. CASE RnnReceive
  <2>1. /\ UNCHANGED <<q, oldest, grabber, marked>>
        /\ rnn_ch # <<>> /\ rnn_ch' = Tail(rnn_ch) /\ rnn' = Append(rnn, Head(rnn_ch))
    BY <1>3 DEF RnnReceive, bvars, gvars
  <2>2. /\ Head(rnn_ch) = rnn_ch[1] /\ Head(rnn_ch) \in FrameType
        /\ rnn_ch' \in Seq(FrameType) /\ Len(rnn_ch') = Len(rnn_ch) - 1
    BY <1>0, <2>1, Receive
  <2>3. rnn_ch' = <<>>
    <3>1. Len(rnn_ch') \in Nat
      BY <2>2, EmptyChannel
    <3> DEFINE n == Len(rnn_ch) 
               n1 == Len(rnn_ch')
    <3>2. n \in Nat /\ n <= 1 /\ n1 \in Nat /\ n1 = n - 1
      BY <1>0, <2>2, <3>1
    <3> HIDE DEF n, n1
    <3>3. n1 = 0
      BY <3>2
    <3> QED
      BY <2>2, <3>3, EmptyChannel DEF n1
  <2>4. Len(rnn') = Len(rnn) + 1 /\ rnn'[Len(rnn) + 1] = rnn_ch[1]
        /\ \A n \in 1 .. Len(rnn) : rnn'[n] = rnn[n]
    BY <1>0, <2>1, <2>2, SendTo
  <2>5. \A n \in 1 .. Len(rnn') : RightIn(marked, rnn'[n])
    BY <1>0, <2>1, <2>4 DEF MarkInv
  <2> QED
    BY <2>1, <2>3, <2>5 DEF MarkInv
<1>4. CASE Mark
  <2> DEFINE found == SearchByFrameIdx(accepted)
  <2>1. /\ accepted # 0 /\ grabber # "rnn" /\ accepted \in FrameIdx
        /\ q' = [s \in Slots |-> IF s \in found THEN [q[s] EXCEPT !.recog_result = 1] ELSE q[s]]
        /\ marked' = IF found = {} THEN marked ELSE marked \cup {accepted}
        /\ UNCHANGED <<rnn_ch, rnn, grabber>>
    BY <1>0, <1>4 DEF Mark, gvars, TypeOK
  <2>2. \A s \in found : s \in Slots /\ q[s].frame_idx = accepted
    BY DEF SearchByFrameIdx
  <2> HIDE DEF found
  <2>3. CASE found = {}
    <3>1. marked' = marked /\ \A s \in Slots : q'[s] = q[s]
      BY <2>1, <2>3
    <3> QED
      BY <2>1, <3>1 DEF MarkInv
  <2>4. CASE found # {}
    <3>1. PICK s0 \in found : s0 \in Slots /\ q[s0].frame_idx = accepted
      BY <2>2, <2>4
    <3>2. marked' = marked \cup {accepted}
      BY <2>1, <2>4
    <3>3. ASSUME NEW s \in Slots PROVE RightIn(marked', q'[s])
      <4>1. CASE s \in found
        <5>1. q'[s] = [q[s] EXCEPT !.recog_result = 1]
          BY <2>1, <4>1
        <5>2. q'[s].recog_result = 1 /\ q'[s].frame_idx = q[s].frame_idx
          BY <1>0, <5>1 DEF FrameType
        <5> QED
          BY <2>2, <3>2, <4>1, <5>2 DEF RightIn
      <4>2. CASE s \notin found
        <5>1. q'[s] = q[s]
          BY <2>1, <4>2
        <5>2. q[s].frame_idx # accepted
          BY <2>1, <3>1, <4>2, SlotFrame
        <5>3. RightIn(marked, q[s])
          BY DEF MarkInv
        <5> QED
          BY <3>2, <5>1, <5>2, <5>3 DEF RightIn
      <4> QED
        BY <4>1, <4>2
    <3>4. ASSUME NEW n \in Nat, n <= Pushed PROVE Delayed(n) # accepted
      BY <2>1, <3>1, <3>4, Gone
    <3>5. Len(rnn) + Len(rnn_ch) = Pushed
      BY <1>0, <2>1 DEF RnnInv
    <3>6. ASSUME NEW n \in 1 .. Len(rnn) PROVE RightIn(marked', rnn'[n])
      <4>1. n \in Nat /\ n <= Pushed
        BY <1>0, <3>5
      <4>2. rnn[n].frame_idx # accepted
        BY <3>4, <4>1 DEF RnnInv
      <4> QED
        BY <2>1, <3>2, <4>2 DEF MarkInv, RightIn
    <3>7. ASSUME rnn_ch # <<>> PROVE RightIn(marked', rnn_ch'[1])
      <4>1. Len(rnn_ch) # 0
        BY <1>0, <3>7, EmptyChannel, Zenon
      <4>2. Len(rnn) + 1 \in Nat /\ Len(rnn) + 1 <= Pushed
        BY <1>0, <3>5, <4>1
      <4>3. rnn_ch[1].frame_idx # accepted
        BY <3>4, <3>7, <4>2 DEF RnnInv
      <4> QED
        BY <2>1, <3>2, <3>7, <4>3 DEF MarkInv, RightIn
    <3> QED
      BY <2>1, <3>3, <3>6, <3>7 DEF MarkInv
  <2> QED
    BY <2>3, <2>4
<1>5. ASSUME UNCHANGED <<q, rnn_ch, rnn, oldest, marked>>, grabber' = "rnn" => grabber = "rnn"
      PROVE  MarkInv'
  BY <1>5 DEF MarkInv
<1> QED
  BY <1>1, <1>2, <1>3, <1>4, <1>5
  DEF Next, Grabber, Recog, Acceptor, Rest, Tick, SendRecog, RecogReceive, PostWork, StartWork,
      DoWork, Accept, vars, bvars, gvars, history

\* What the RNN learns is right: a mark it receives is the mark of a recognised
\* frame, and a mark that was set in time arrives.
THEOREM MarksArrive == Spec => []MarksAreRight
<1>1. Init => SeenInv /\ MarkInv
  <2> SUFFICES ASSUME Init PROVE SeenInv /\ MarkInv
    OBVIOUS
  <2>1. \A i \in Known : i = 0
    BY DEF Init, Known, InPipeline
  <2>2. SeenInv
    BY <2>1 DEF Init, SeenInv, InChannel
  <2>3. MarkInv
    BY DEF Init, MarkInv, RightIn, Frame
  <2> QED
    BY <2>2, <2>3
<1>2. SeenInv /\ MarkInv => MarksAreRight
  BY DEF SeenInv, MarkInv, RightIn, MarksAreRight
<1>3. TypeOK /\ BufferInv /\ RnnInv /\ SeenInv /\ MarkInv /\ [Next]_vars
      => SeenInv' /\ MarkInv'
  BY SeenStep, MarkStep
<1> QED
  BY <1>1, <1>2, <1>3, Latency, PTL DEF Spec

-----------------------------------------------------------------------------
(***************************************************************************)
(* No frame is in two places.  The pool may refuse a frame or recognise    *)
(* it, not both, and no two routines work on the same one.                 *)
(***************************************************************************)

Distinct(ch) == \A k, l \in DOMAIN ch : ch[k] = ch[l] => k = l

WorkedOn(i) == \E r \in Routines : working[r] = i

\* The pool has decided about frame i.
Posted(i) == InChannel(works, i) \/ WorkedOn(i) \/ i \in recognised \/ i \in skipped

\* Frame i is at one of its stations only, and there once.
Apart(i) ==
    /\ InChannel(recog_ch, i) => i # posting /\ ~Posted(i)
    /\ i = posting => ~Posted(i)
    /\ InChannel(works, i) => ~WorkedOn(i) /\ i \notin recognised \cup skipped
    /\ WorkedOn(i) => i \notin recognised \cup skipped
    /\ \A r, t \in Routines : working[r] = i /\ working[t] = i => r = t
    /\ ~(i \in recognised /\ i \in skipped)

\* Every frame is, and the pool has no work twice.
FramesApart == Distinct(works) /\ \A i \in FrameIdx \ {0} : Apart(i)

\* No frame is recognised a second time.
RecognisedOnce ==
    [][\A r \in Routines : DoWork(r) => working[r] \notin recognised]_vars

\* Sending a new value, and receiving, leave a channel without repetitions.
LEMMA StayDistinct ==
    ASSUME NEW S, NEW ch \in Seq(S), Distinct(ch)
    PROVE  /\ \A x \in S : ~InChannel(ch, x) => Distinct(Append(ch, x))
           /\ ch # <<>> => Distinct(Tail(ch)) /\ ~InChannel(Tail(ch), Head(ch))
<1>0. Len(ch) \in Nat /\ DOMAIN ch = 1 .. Len(ch)
  OBVIOUS
<1>1. ASSUME NEW x \in S, ~InChannel(ch, x) PROVE Distinct(Append(ch, x))
  <2>1. /\ DOMAIN Append(ch, x) = 1 .. Len(ch) + 1 /\ Append(ch, x)[Len(ch) + 1] = x
        /\ \A k \in 1 .. Len(ch) : Append(ch, x)[k] = ch[k]
    BY SendTo
  <2>2. \A k \in 1 .. Len(ch) + 1 : k \in 1 .. Len(ch) \/ k = Len(ch) + 1
    BY <1>0
  <2> QED
    BY <1>0, <1>1, <2>1, <2>2 DEF Distinct, InChannel
<1>2. ASSUME ch # <<>> PROVE Distinct(Tail(ch)) /\ ~InChannel(Tail(ch), Head(ch))
  <2>1. /\ DOMAIN Tail(ch) = 1 .. Len(ch) - 1 /\ Head(ch) = ch[1] /\ Len(ch) >= 1
        /\ \A k \in 1 .. Len(ch) - 1 : Tail(ch)[k] = ch[k + 1]
    BY <1>2, Receive
  <2>2. /\ 1 \in DOMAIN ch
        /\ \A k \in 1 .. Len(ch) - 1 : k + 1 \in DOMAIN ch /\ k + 1 # 1
        /\ \A k, l \in 1 .. Len(ch) - 1 : k + 1 = l + 1 => k = l
    BY <1>0, <2>1
  <2> QED
    BY <2>1, <2>2 DEF Distinct, InChannel
<1> QED
  BY <1>1, <1>2

\* Every step keeps the frames apart.
LEMMA ApartStep ==
    ASSUME TypeOK, SeenInv, FramesApart, [Next]_vars
    PROVE  FramesApart'
<1>0. /\ recog_ch \in Seq(FrameIdx) /\ Len(recog_ch) <= 1 /\ works \in Seq(FrameIdx)
      /\ posting \in FrameIdx /\ working \in [Routines -> FrameIdx]
      /\ global_frame_idx \in FrameIdx /\ global_frame_idx \in Nat
      /\ Distinct(works)
  BY FrameTypes DEF TypeOK, FramesApart
<1>a. \A i \in FrameIdx \ {0} : Apart(i)
  BY DEF FramesApart
<1>1. CASE SendRecog
  <2>1. /\ recog_ch' = Append(recog_ch, global_frame_idx) /\ grabber = "recog"
        /\ UNCHANGED <<posting, works, working, recognised, skipped>>
    BY <1>1 DEF SendRecog, wvars, history
  <2>2. ASSUME NEW i \in FrameIdx \ {0} PROVE Apart(i)'
    <3>1. InChannel(recog_ch', i) <=> i = global_frame_idx \/ InChannel(recog_ch, i)
      BY <1>0, <2>1, Sent
    <3>2. i = global_frame_idx => ~Stations(i)
      <4>1. i = global_frame_idx => ~(i <= Offered)
        BY <1>0, <2>1 DEF Offered
      <4> QED
        BY <4>1, KnownIff DEF SeenInv
    <3>3. Apart(i)
      BY <1>a
    <3>4. (Posted(i)' <=> Posted(i)) /\ (WorkedOn(i)' <=> WorkedOn(i))
      BY <2>1 DEF Posted, WorkedOn
    <3> QED
      BY <2>1, <3>1, <3>2, <3>3, <3>4 DEF Apart, Stations, Posted, WorkedOn
  <2> QED
    BY <1>0, <2>1, <2>2 DEF FramesApart
<1>2. CASE RecogReceive
  <2>1. /\ recog_ch' = Tail(recog_ch) /\ posting' = Head(recog_ch) /\ recog_ch # <<>>
        /\ UNCHANGED <<works, working, recognised, skipped>>
    BY <1>2 DEF RecogReceive, history
  <2>2. ASSUME NEW i \in FrameIdx \ {0} PROVE Apart(i)'
    <3>1. /\ InChannel(recog_ch, i) <=> i = posting' \/ InChannel(recog_ch', i)
          /\ ~InChannel(recog_ch', i)
      <4>1. DOMAIN recog_ch' = {}
        BY <1>0, <2>1
      <4> QED
        BY <1>0, <2>1, <4>1, Received DEF InChannel
    <3>2. Apart(i)
      BY <1>a
    <3>3. (Posted(i)' <=> Posted(i)) /\ (WorkedOn(i)' <=> WorkedOn(i))
      BY <2>1 DEF Posted, WorkedOn
    <3> QED
      BY <2>1, <3>1, <3>2, <3>3 DEF Apart
  <2> QED
    BY <1>0, <2>1, <2>2 DEF FramesApart
<1>3. CASE PostWork
  <2>1. posting # 0 /\ posting' = 0 /\ UNCHANGED <<recog_ch, working, recognised>>
    BY <1>3 DEF PostWork
  <2>2. ~Posted(posting) /\ Apart(posting)
    BY <1>0, <1>a, <2>1 DEF Apart
  <2>3. CASE Len(works) < threads_count
    <3>1. works' = Append(works, posting) /\ UNCHANGED skipped
      BY <1>3, <2>3 DEF PostWork
    <3>2. Distinct(works')
      BY <1>0, <2>2, <3>1, StayDistinct DEF Posted
    <3>3. ASSUME NEW i \in FrameIdx \ {0} PROVE Apart(i)'
      <4>1. InChannel(works', i) <=> i = posting \/ InChannel(works, i)
        BY <1>0, <3>1, Sent
      <4>2. Apart(i) /\ (WorkedOn(i)' <=> WorkedOn(i))
        BY <1>a, <2>1 DEF WorkedOn
      <4> QED
        BY <2>1, <2>2, <3>1, <4>1, <4>2 DEF Apart, Posted
    <3> QED
      BY <3>2, <3>3 DEF FramesApart
  <2>4. CASE ~(Len(works) < threads_count)
    <3>1. skipped' = skipped \cup {posting} /\ UNCHANGED works
      BY <1>3, <2>4 DEF PostWork
    <3>2. ASSUME NEW i \in FrameIdx \ {0} PROVE Apart(i)'
      <4>1. Apart(i) /\ (WorkedOn(i)' <=> WorkedOn(i))
        BY <1>a, <2>1 DEF WorkedOn
      <4> QED
        BY <2>1, <2>2, <3>1, <4>1 DEF Apart, Posted
    <3> QED
      BY <1>0, <3>1, <3>2 DEF FramesApart
  <2> QED
    BY <2>3, <2>4
<1>4. ASSUME NEW r \in Routines, StartWork(r) PROVE FramesApart'
  <2>1. /\ works' = Tail(works) /\ works # <<>> /\ working[r] = 0
        /\ working' = [working EXCEPT ![r] = Head(works)]
        /\ UNCHANGED <<recog_ch, posting, recognised, skipped>>
    BY <1>4 DEF StartWork, history
  <2>2. working'[r] = Head(works) /\ \A t \in Routines \ {r} : working'[t] = working[t]
    BY <1>0, <2>1
  <2>3. Distinct(works') /\ ~InChannel(works', Head(works))
    BY <1>0, <2>1, StayDistinct
  <2>4. ASSUME NEW i \in FrameIdx \ {0} PROVE Apart(i)'
    <3>1. InChannel(works, i) <=> i = Head(works) \/ InChannel(works', i)
      BY <1>0, <2>1, Received
    <3>2. /\ Apart(i)
          /\ WorkedOn(i)' <=> WorkedOn(i) \/ i = Head(works)
      BY <1>a, <2>1, <2>2 DEF WorkedOn
    <3>3. Posted(i)' <=> Posted(i)
      BY <2>1, <3>1, <3>2 DEF Posted
    <3>4. \A s, t \in Routines : working'[s] = i /\ working'[t] = i => s = t
      BY <2>1, <2>2, <3>1, <3>2 DEF Apart, WorkedOn
    <3> QED
      BY <2>1, <2>3, <3>1, <3>2, <3>3, <3>4 DEF Apart
  <2> QED
    BY <2>3, <2>4 DEF FramesApart
<1>5. ASSUME NEW r \in Routines, DoWork(r) PROVE FramesApart'
  <2>1. /\ recognised' = recognised \cup {working[r]} /\ working[r] # 0
        /\ working' = [working EXCEPT ![r] = 0]
        /\ UNCHANGED <<recog_ch, posting, works, skipped>>
    BY <1>5 DEF DoWork
  <2>2. working'[r] = 0 /\ \A t \in Routines \ {r} : working'[t] = working[t]
    BY <1>0, <2>1
  <2>3. ASSUME NEW i \in FrameIdx \ {0} PROVE Apart(i)'
    <3>1. /\ Apart(i)
          /\ WorkedOn(i) <=> WorkedOn(i)' \/ i = working[r]
      BY <1>a, <2>1, <2>2 DEF WorkedOn
    <3>2. i = working[r] => ~WorkedOn(i)'
      BY <2>2, <3>1 DEF Apart, WorkedOn
    <3>3. Posted(i)' <=> Posted(i)
      BY <2>1, <3>1 DEF Posted
    <3>4. \A s, t \in Routines : working'[s] = i /\ working'[t] = i => s = t
      BY <2>2, <3>1 DEF Apart
    <3> QED
      BY <2>1, <3>1, <3>2, <3>3, <3>4 DEF Apart
  <2> QED
    BY <1>0, <2>1, <2>3 DEF FramesApart
<1>6. ASSUME UNCHANGED <<recog_ch, posting, works, working, recognised, skipped>>
      PROVE  FramesApart'
  BY <1>6 DEF FramesApart, Apart, Posted, WorkedOn
<1> QED
  BY <1>1, <1>2, <1>3, <1>4, <1>5, <1>6
  DEF Next, Grabber, Recog, Acceptor, Rest, Tick, GrabberPush, SendRnn, Accept, Mark, RnnReceive,
      vars, gvars, wvars, history

\* The types and what has been seen, with the frames apart, in every state.
LEMMA ApartInv == Spec => [](TypeOK /\ SeenInv /\ FramesApart)
<1>1. Init => SeenInv
  <2> SUFFICES ASSUME Init PROVE SeenInv
    OBVIOUS
  <2>1. \A i \in Known : i = 0
    BY DEF Init, Known, InPipeline
  <2> QED
    BY <2>1 DEF Init, SeenInv, InChannel
<1>2. Init => FramesApart
  BY DEF Init, FramesApart, Apart, Distinct, Posted, WorkedOn, InChannel
<1>3. TypeOK /\ SeenInv /\ FramesApart /\ [Next]_vars => SeenInv' /\ FramesApart'
  BY SeenStep, ApartStep
<1> QED
  BY <1>1, <1>2, <1>3, TypeCorrect, PTL DEF Spec

\* Recognition duplicates no frame: each one is at one station only, waiting, with
\* one routine, recognised or skipped, whatever the size of the pool.
THEOREM FramesStayApart == Spec => []FramesApart
  BY ApartInv, PTL

\* The pool finishes the work on a frame once: DoWork never sends the acceptor a
\* frame that has been recognised before.
THEOREM NoFrameIsRecognisedTwice == Spec => RecognisedOnce
<1>1. ASSUME TypeOK, FramesApart, NEW r \in Routines, DoWork(r)
      PROVE  working[r] \notin recognised
  <2>1. working[r] \in FrameIdx \ {0} /\ WorkedOn(working[r])
    BY <1>1 DEF DoWork, TypeOK, WorkedOn
  <2> QED
    BY <1>1, <2>1 DEF FramesApart, Apart
<1>2. TypeOK /\ FramesApart => [\A r \in Routines : DoWork(r) => working[r] \notin recognised]_vars
  BY <1>1
<1> QED
  BY <1>2, ApartInv, PTL DEF RecognisedOnce
=============================================================================
