\* A buffer of two frames, two routines and room for one queued work.
CONSTANTS
    allowed_latency_frames = 2
    threads_count = 1
    Routines = {r1, r2}
    MaxFrames = 5
SPECIFICATION FairSpec
INVARIANTS FixedLatency MarksAreRight FramesAccounted
PROPERTIES GrabberReturns WorkEnds
